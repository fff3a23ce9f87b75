----------------------------- MODULE IoGeometry -----------------------------
(***************************************************************************)
(* Where each byte of an I/O goes: the checks of read, read_random, write, *)
(* the aio variants (src/src/blk/spdk/nvme_device.cpp, block_device.cpp),  *)
(* the alignment of read_random, the splitting into tasks, the copies      *)
(* between the caller's buffer and the DMA buffers of a task (task.hpp,    *)
(* driver_queue.cpp), and the two SGL callbacks by which SPDK finds the    *)
(* bytes of a task.  One operation at a time, one task after the other:    *)
(* NvmeQueue has the queue, the pool and the order of completions.         *)
(*                                                                         *)
(* Offsets and lengths are in bytes, of 64 bits in the code: Modulus       *)
(* stands for 2^64.  A byte is named by where it came from: the byte at a  *)
(* of the device is a, byte i of the caller's memory is DeviceSize + i.    *)
(***************************************************************************)
EXTENDS Integers, Sequences

CONSTANTS
  BlockSize,     \* block_size
  BufferSize,    \* data_buffer_size
  SplitSize,     \* split_size
  DeviceSize,    \* size
  Modulus        \* offsets wrap around here

(* spdk reports a sector of a power of two when no metadata is interleaved;   *)
(* a power of two divides a larger one.                                      *)
IsPowerOfTwo(n) == \E k \in 0 .. n : n = 2 ^ k

GeometryAssumption ==
  /\ {BlockSize, BufferSize, SplitSize, DeviceSize, Modulus} \subseteq Nat \ {0}
  /\ IsPowerOfTwo(BlockSize) /\ IsPowerOfTwo(Modulus) /\ Modulus % BlockSize = 0
  /\ BlockSize <= BufferSize /\ SplitSize % BlockSize = 0
  /\ DeviceSize % BlockSize = 0 /\ 2 * DeviceSize <= Modulus

Garbage == -1                            \* what a DMA buffer holds at first
Device == 0 .. DeviceSize - 1
Memory == 0 .. DeviceSize + BufferSize   \* the caller's buffer and what follows it
InBuffer == 0 .. BufferSize - 1
Fresh == [x \in InBuffer |-> Garbage]

Smaller(x, y) == IF x <= y THEN x ELSE y

Operation ==
  [cmd : {"read", "read_random", "write"}, off : 0 .. Modulus - 1, len : 0 .. Modulus - 1]

VARIABLES
  op,         \* the call
  pc,
  aligned,    \* aligned_off and aligned_len of a read
  begin,      \* the loop that makes tasks: where it is, what remains to be
  remain,     \*   asked for, the bytes of the first block to skip, and how
  tmp_off,    \*   far it is in the caller's buffer
  filled,
  tasks,      \* the tasks made and not issued
  segs,       \* the DMA buffers of the task in progress
  sge,        \* its cur_seg_idx and cur_seg_left
  child,      \* the part of it spdk is transferring: next byte and end
  copy,       \* locals of copy_to_buf
  disk,
  buf         \* the caller's memory

vars == <<op, pc, aligned, begin, remain, tmp_off, filled, tasks, segs, sge, child,
          copy, disk, buf>>
loop == <<aligned, begin, remain, tmp_off, filled>>
task_state == <<segs, sge, child, copy>>

NoSge == [idx |-> 0, left |-> 0]
NoChild == [pos |-> 0, end |-> 0]
NoCopy == [i |-> 1, off |-> 0, left |-> 0, copied |-> 0]

Init ==
  /\ op \in Operation
  /\ pc = "check"
  /\ aligned = [off |-> 0, len |-> 0]
  /\ begin = 0 /\ remain = 0 /\ tmp_off = 0 /\ filled = 0
  /\ tasks = << >> /\ segs = << >>
  /\ sge = NoSge /\ child = NoChild /\ copy = NoCopy
  /\ disk = [a \in Device |-> a]
  /\ buf = [i \in Memory |-> DeviceSize + i]

----------------------------------------------------------------------------
(* The call: its assertions and the two helpers of bit_op.hpp.               *)

Add(x, y) == (x + y) % Modulus
Negate(x) == (Modulus - x) % Modulus

(* x & -align clears the bits below align, a power of two.                   *)
p2align(x, align) == x - (x % align)
p2roundup(x, align) == Negate(p2align(Negate(x), align))

(* The variant tests the end alone.                                          *)
ends_inside(off, len) == len > 0 /\ Add(off, len) <= DeviceSize
is_inside(off, len) == len > 0 /\ off < DeviceSize /\ Add(off, len) <= DeviceSize

is_valid_io(off, len) ==
  off % BlockSize = 0 /\ len % BlockSize = 0 /\ is_inside(off, len)

Accepts ==
  IF op.cmd = "read_random" THEN is_inside(op.off, op.len) ELSE is_valid_io(op.off, op.len)

Rejected ==
  /\ pc = "check" /\ ~ Accepts
  /\ pc' = "aborted"
  /\ UNCHANGED <<op, loop, tasks, task_state, disk, buf>>

(* read and aio_read ask for what they were asked; read_random for whole     *)
(* blocks.  The variant rounds the length and forgets where it starts.       *)
round_length_only(off, len) == [off |-> p2align(off, BlockSize), len |-> p2roundup(len, BlockSize)]
round_to_blocks(off, len) ==
  LET first == p2align(off, BlockSize)
  IN  [off |-> first, len |-> Add(p2roundup(Add(off, len), BlockSize), Negate(first))]

Write ==
  /\ pc = "check" /\ Accepts /\ op.cmd = "write"
  /\ pc' = "write_split"
  /\ remain' = op.len
  /\ UNCHANGED <<op, aligned, begin, tmp_off, filled, tasks, task_state, disk, buf>>

Read ==
  /\ pc = "check" /\ Accepts /\ op.cmd # "write"
  /\ pc' = "make_read_tasks"
  /\ aligned' = IF op.cmd = "read" THEN [off |-> op.off, len |-> op.len]
                ELSE round_to_blocks(op.off, op.len)
  /\ tmp_off' = op.off - aligned'.off
  /\ remain' = op.len
  /\ begin' = aligned'.off
  /\ UNCHANGED <<op, filled, tasks, task_state, disk, buf>>

----------------------------------------------------------------------------
(* Splitting into tasks.                                                     *)

write_split ==
  /\ pc = "write_split" /\ remain > 0 /\ op.len < Modulus \div 2
  /\ LET write_size == Smaller(remain, SplitSize)
     IN  /\ tasks' = Append(tasks, [off |-> op.off + begin, len |-> write_size, buf |-> begin,
                                    tmp_off |-> 0, tmp_len |-> 0])
         /\ remain' = remain - write_size
         /\ begin' = begin + write_size
  /\ UNCHANGED <<op, pc, aligned, tmp_off, filled, task_state, disk, buf>>

(* A write whose off + len wraps around is of half the address space at       *)
(* least: no memory holds its tasks, and new throws.                         *)
write_split_throws ==
  /\ pc = "write_split" /\ op.len >= Modulus \div 2
  /\ pc' = "aborted"
  /\ UNCHANGED <<op, loop, tasks, task_state, disk, buf>>

(* Where off + len wraps around, so does the end of the blocks.              *)
aligned_end == Add(aligned.off, aligned.len)

make_read_tasks ==
  /\ pc = "make_read_tasks" /\ begin < aligned_end
  /\ LET read_size == Smaller(aligned_end - begin, SplitSize)
         tmp_len == Smaller(remain, read_size - tmp_off)
     IN  /\ tasks' = Append(tasks, [off |-> begin, len |-> read_size, buf |-> filled,
                                    tmp_off |-> tmp_off, tmp_len |-> tmp_len])
         /\ remain' = remain - tmp_len
         /\ filled' = filled + tmp_len
  /\ tmp_off' = 0
  /\ begin' = begin + SplitSize
  /\ UNCHANGED <<op, pc, aligned, task_state, disk, buf>>

TasksMade ==
  /\ \/ pc = "write_split" /\ remain = 0
     \/ pc = "make_read_tasks" /\ begin >= aligned_end
  /\ pc' = "issue"
  /\ aligned' = [off |-> 0, len |-> 0]
  /\ begin' = 0 /\ remain' = 0 /\ tmp_off' = 0 /\ filled' = 0
  /\ UNCHANGED <<op, tasks, task_state, disk, buf>>

----------------------------------------------------------------------------
(* One task: its DMA buffers, ...                                            *)

t == Head(tasks)
nseg == Len(segs)

SegmentsFor(len) == len \div BufferSize + (IF len % BufferSize # 0 THEN 1 ELSE 0)

(* memcpy from the caller's buffer: the last one takes what is left.         *)
CopiedIn(i, count) ==
  LET len == (i - 1) * BufferSize
      n == IF i < count THEN BufferSize ELSE t.len - len
  IN  [x \in InBuffer |-> IF x < n THEN buf[t.buf + len + x] ELSE Garbage]

alloc_buf_from_pool ==
  /\ pc = "issue" /\ tasks # << >>
  /\ LET count == SegmentsFor(t.len)
     IN  segs' = [i \in 1 .. count |-> IF op.cmd = "write" THEN CopiedIn(i, count) ELSE Fresh]
  /\ pc' = "transfer"
  /\ UNCHANGED <<op, loop, tasks, sge, child, copy, disk, buf>>

(* ... its transfer by spdk, which may cut it into children of whole blocks  *)
(* and asks for the addresses of each.                                       *)
data_buf_reset_sgl(sgl_offset) ==
  LET i == sgl_offset \div BufferSize
  IN  [idx |-> i, left |-> (IF i < nseg THEN Smaller((i + 1) * BufferSize, t.len)
                            ELSE i * BufferSize) - sgl_offset]

Reset ==
  /\ pc = "transfer" /\ child.pos = child.end /\ child.pos < t.len
  /\ \E n \in 1 .. t.len : n % BlockSize = 0 /\ child.end + n <= t.len
                           /\ child' = [child EXCEPT !.end = @ + n]
  /\ sge' = data_buf_reset_sgl(child.pos)
  /\ UNCHANGED <<op, pc, loop, tasks, segs, copy, disk, buf>>

piece_size(idx) ==
  IF idx = nseg - 1 /\ t.len % BufferSize # 0 THEN t.len % BufferSize ELSE BufferSize

(* What data_buf_next_sge reports: the offset in its segment, and a length.  *)
Address == IF sge.left # 0 THEN piece_size(sge.idx) - sge.left ELSE 0
Length ==
  CASE sge.idx >= nseg -> 0
    [] sge.idx < nseg /\ sge.left # 0 -> sge.left
    [] OTHER -> piece_size(sge.idx)

ByteAt(x) == IF x \in InBuffer THEN segs[sge.idx + 1][x] ELSE Garbage

(* The controller moves the bytes of the piece, or of what the child needs   *)
(* of it.                                                                    *)
data_buf_next_sge ==
  /\ pc = "transfer" /\ child.pos < child.end /\ Length > 0
  /\ LET n == Smaller(Length, child.end - child.pos)
         at == t.off + child.pos
     IN  /\ IF op.cmd = "write"
              THEN /\ disk' = [a \in Device |-> IF a \in at .. at + n - 1
                                                  THEN ByteAt(Address + a - at) ELSE disk[a]]
                   /\ UNCHANGED segs
              ELSE /\ segs' = [segs EXCEPT ![sge.idx + 1] =
                        [x \in InBuffer |-> IF x \in Address .. Address + n - 1
                                              THEN disk[at + x - Address] ELSE @[x]]]
                   /\ UNCHANGED disk
         /\ child' = [child EXCEPT !.pos = @ + n]
  /\ sge' = [idx |-> sge.idx + 1, left |-> 0]
  /\ UNCHANGED <<op, pc, loop, tasks, copy, buf>>

(* io_complete: a read is copied out, ...                                    *)
io_complete ==
  /\ pc = "transfer" /\ child.pos = t.len
  /\ sge' = NoSge /\ child' = NoChild
  /\ IF op.cmd = "write"
       THEN pc' = "release" /\ UNCHANGED copy
       ELSE pc' = "copy_to_buf"
            /\ copy' = [i |-> 1, off |-> t.tmp_off, left |-> t.tmp_len, copied |-> 0]
  /\ UNCHANGED <<op, loop, tasks, segs, disk, buf>>

copy_to_buf ==
  /\ pc = "copy_to_buf" /\ copy.left > 0
  /\ LET n == Smaller(copy.left, BufferSize - copy.off)
         to == t.buf + copy.copied
     IN  /\ buf' = [i \in Memory |-> IF i \in to .. to + n - 1
                                       THEN segs[copy.i][copy.off + i - to] ELSE buf[i]]
         /\ copy' = [i |-> copy.i + 1, off |-> 0,
                     left |-> copy.left - n, copied |-> copy.copied + n]
  /\ UNCHANGED <<op, pc, loop, tasks, segs, sge, child, disk>>

(* ... and the task goes, its buffers with it.                               *)
release_segs ==
  /\ pc = "release" \/ (pc = "copy_to_buf" /\ copy.left = 0)
  /\ tasks' = Tail(tasks) /\ segs' = << >> /\ copy' = NoCopy
  /\ pc' = "issue"
  /\ UNCHANGED <<op, loop, sge, child, disk, buf>>

Done ==
  /\ pc = "issue" /\ tasks = << >>
  /\ pc' = "done"
  /\ UNCHANGED <<op, loop, tasks, task_state, disk, buf>>

Next ==
  \/ Rejected \/ Write \/ Read \/ write_split \/ write_split_throws \/ make_read_tasks
  \/ TasksMade
  \/ alloc_buf_from_pool \/ Reset \/ data_buf_next_sge \/ io_complete
  \/ copy_to_buf \/ release_segs \/ Done

Spec == Init /\ [][Next]_vars

----------------------------------------------------------------------------
(* Properties.                                                               *)

(* assert(off + len <= size) of read_random, and the same test of             *)
(* is_valid_io, compute off + len in 64 bits, where it may wrap around.  All  *)
(* the same no task that is issued reaches beyond the device: of a call that *)
(* wraps, read_random asks for one block at most, which lies inside.         *)
IssuedIsInside ==
  pc \in {"issue", "transfer", "copy_to_buf", "release"} =>
    \A k \in DOMAIN tasks : tasks[k].off + tasks[k].len <= DeviceSize

(* spdk always gets the next bytes of the task it asks for: it never comes   *)
(* to the end of the segments with a part of the task left.                  *)
SglNeverRunsOut == pc = "transfer" /\ child.pos < child.end => Length > 0

(* The first n bytes of the call have been moved, and no other.              *)
BytesInPlace(n) ==
  /\ \A i \in Memory :
       buf[i] = IF op.cmd # "write" /\ i < n THEN op.off + i ELSE DeviceSize + i
  /\ \A a \in Device :
       disk[a] = IF op.cmd = "write" /\ a - op.off \in 0 .. n - 1
                   THEN DeviceSize + a - op.off ELSE a

(* When a call is over, byte i of the caller's buffer is byte off + i of the  *)
(* device, and no other byte of either has changed: through the splitting,   *)
(* the alignment, the DMA buffers, and any way spdk may cut a task.  A call  *)
(* whose off + len wraps around has moved a first part of its bytes at most. *)
BytesLandWhereAsked ==
  /\ SglNeverRunsOut
  /\ pc = "done" => \E n \in 0 .. DeviceSize :
       n <= op.len /\ (op.off + op.len <= DeviceSize => n = op.len) /\ BytesInPlace(n)
=============================================================================

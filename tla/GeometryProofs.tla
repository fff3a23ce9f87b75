--------------------------- MODULE GeometryProofs ---------------------------
(***************************************************************************)
(* Proofs about where the bytes of an I/O go (IoGeometry, as MCParts has   *)
(* it), for any sizes of blocks, DMA buffers, tasks and device, and any    *)
(* way in which spdk cuts a task.  An invariant is one of the behaviours   *)
(* of that part.                                                           *)
(***************************************************************************)
EXTENDS MCParts, Sequences, SequenceTheorems, TLAPS

LEMMA GeometryMoves ==
  ASSUME [Next]_vars
  PROVE  part' = part /\ (part = "geometry" => [Geometry!Next]_(Geometry!vars))
<1>1. CASE UNCHANGED vars
  BY <1>1 DEF vars, geometry, Geometry!vars
<1>2. CASE Next
  BY <1>2 DEF Next, GeometryOnly, FatalOnly, QueueOnly, ContextOnly, SearchOnly, SharedOnly
<1> QED
  BY <1>1, <1>2

----------------------------------------------------------------------------
(* Arithmetic.                                                               *)

LEMMA Sizes ==
  ASSUME Geometry!GeometryAssumption
  PROVE  /\ BlockSize \in Nat /\ BufferSize \in Nat /\ SplitSize \in Nat
         /\ DeviceSize \in Nat /\ Modulus \in Nat
         /\ BlockSize > 0 /\ BufferSize > 0 /\ SplitSize > 0 /\ DeviceSize > 0
         /\ BlockSize <= BufferSize /\ BlockSize <= SplitSize /\ 2 * DeviceSize <= Modulus
<1>1. /\ BlockSize \in Nat \ {0} /\ BufferSize \in Nat \ {0} /\ SplitSize \in Nat \ {0}
      /\ DeviceSize \in Nat \ {0} /\ Modulus \in Nat \ {0}
      /\ BlockSize <= BufferSize /\ 2 * DeviceSize <= Modulus
      /\ SplitSize % BlockSize = 0
  BY DEF Geometry!GeometryAssumption
<1>2. SplitSize < BlockSize => SplitSize % BlockSize = SplitSize
  BY <1>1
<1> QED
  BY <1>1, <1>2

LEMMA DivMod ==
  ASSUME NEW d \in Nat, d > 0, NEW x \in Nat
  PROVE  \E q, r \in Nat :
           q = x \div d /\ r = x % d /\ r < d /\ x = q * d + r /\ q * d \in Nat
<1> DEFINE q == x \div d
           r == x % d
<1>1. q \in Nat /\ r \in Nat /\ r < d
  OBVIOUS
<1>2. x - r = d * q
  OBVIOUS
<1>3. q = x \div d /\ r = x % d
  OBVIOUS
<1> HIDE DEF q, r
<1>4. d * q = q * d /\ q * d \in Nat
  BY <1>1
<1>5. x = q * d + r
  BY <1>1, <1>2, <1>4
<1> QED
  BY <1>1, <1>3, <1>4, <1>5

LEMMA Times ==
  ASSUME NEW d \in Nat, d > 0, NEW i \in Nat, NEW j \in Nat
  PROVE  /\ i * d \in Nat /\ (i + 1) * d = i * d + d
         /\ i < j => i * d + d <= j * d
         /\ i >= 1 => (i - 1) * d + d = i * d
<1>1. i * d \in Nat /\ (i + 1) * d = i * d + d
  OBVIOUS
<1>2. i < j => i * d + d <= j * d
  OBVIOUS
<1>3. i >= 1 => (i - 1) * d + d = i * d
  OBVIOUS
<1> QED
  BY <1>1, <1>2, <1>3

(* p2roundup: the first whole block that ends at x or after it, which is      *)
(* still inside the device.                                                  *)
LEMMA RoundsUp ==
  ASSUME Geometry!GeometryAssumption, NEW x \in Nat, 0 < x, x <= DeviceSize
  PROVE  /\ Geometry!p2roundup(x, BlockSize) \in Nat
         /\ x <= Geometry!p2roundup(x, BlockSize)
         /\ Geometry!p2roundup(x, BlockSize) <= DeviceSize
         /\ \E c \in Nat : Geometry!p2roundup(x, BlockSize) = c * BlockSize
<1> DEFINE m == Modulus - x
           r == m % BlockSize
<1>1. m \in Nat /\ m > 0 /\ m < Modulus /\ m >= DeviceSize
  BY Sizes
<1>2. PICK q \in Nat : r \in Nat /\ r < BlockSize /\ m = q * BlockSize + r /\ q * BlockSize \in Nat
  BY <1>1, Sizes, DivMod
<1>7. r = m % BlockSize /\ m = Modulus - x
  OBVIOUS
<1>8. Modulus \in Nat /\ Modulus > 0 /\ DeviceSize \in Nat /\ BlockSize \in Nat
      /\ 2 * DeviceSize <= Modulus
  BY Sizes
<1> HIDE DEF m, r
<1>3. x + r <= DeviceSize /\ \E c \in Nat : x + r = c * BlockSize
  <2>2. PICK k \in Nat : DeviceSize = k * BlockSize
    <3>1. \E k, e \in Nat : /\ e = DeviceSize % BlockSize
                            /\ DeviceSize = k * BlockSize + e /\ k * BlockSize \in Nat
      BY Sizes, DivMod
    <3>2. DeviceSize % BlockSize = 0
      BY DEF Geometry!GeometryAssumption
    <3> QED
      BY <3>1, <3>2
  <2>3. PICK l \in Nat : Modulus = l * BlockSize
    <3>1. \E l, e \in Nat : /\ e = Modulus % BlockSize
                            /\ Modulus = l * BlockSize + e /\ l * BlockSize \in Nat
      BY Sizes, DivMod
    <3>2. Modulus % BlockSize = 0
      BY DEF Geometry!GeometryAssumption
    <3> QED
      BY <3>1, <3>2
  <2>4. x + r = l * BlockSize - q * BlockSize
    BY <1>2, <1>7, <2>3
  <2>5. (l - q) * BlockSize = l * BlockSize - q * BlockSize
    BY Sizes
  <2>6. (k + 1) * BlockSize = k * BlockSize + BlockSize
    BY Sizes
  <2>7. (l - q) * BlockSize < (k + 1) * BlockSize
    BY <1>2, <2>2, <2>4, <2>5, <2>6, Sizes
  <2>8. l - q <= k
    <3>1. l - q \in Int /\ k + 1 \in Nat
      OBVIOUS
    <3>2. ASSUME l - q >= k + 1 PROVE FALSE
      <4>1. PICK e \in Nat : l - q = k + 1 + e
        BY <3>1, <3>2
      <4>2. (k + 1 + e) * BlockSize = (k + 1) * BlockSize + e * BlockSize /\ e * BlockSize >= 0
        BY Sizes
      <4> QED
        BY <2>7, <4>1, <4>2, Sizes
    <3> QED
      BY <3>1, <3>2
  <2>9. (l - q) * BlockSize <= k * BlockSize
    <3>1. PICK e \in Nat : k = l - q + e
      BY <2>8
    <3>2. (l - q + e) * BlockSize = (l - q) * BlockSize + e * BlockSize /\ e * BlockSize >= 0
      BY Sizes
    <3> QED
      BY <3>1, <3>2, Sizes
  <2>10. l - q \in Nat
    <3>1. (l - q) * BlockSize > 0
      BY <1>2, <2>4, <2>5
    <3>2. ASSUME l - q < 0 PROVE FALSE
      <4>1. PICK e \in Nat : e > 0 /\ l - q = 0 - e
        BY <3>2
      <4>2. (0 - e) * BlockSize = 0 - (e * BlockSize) /\ e * BlockSize >= 0
        BY Sizes
      <4> QED
        BY <3>1, <4>1, <4>2, Sizes
    <3> QED
      BY <3>2
  <2> QED
    BY <2>2, <2>4, <2>5, <2>9, <2>10
<1>4. (Modulus - x) % Modulus = m
  BY <1>1, <1>7, <1>8
<1>5. (Modulus - (m - r)) % Modulus = x + r
  <2>1. r \in Nat
    BY <1>2
  <2>2. Modulus - (m - r) = x + r /\ x + r \in Nat /\ x + r < Modulus
    BY <1>3, <1>7, <1>8, <2>1
  <2> QED
    BY <1>8, <2>2
<1>6. Geometry!p2roundup(x, BlockSize) = x + r
  BY <1>4, <1>5, <1>7 DEF Geometry!p2roundup, Geometry!Negate, Geometry!p2align
<1> QED
  BY <1>2, <1>3, <1>6

LEMMA AddIs ==
  ASSUME Geometry!GeometryAssumption, NEW x \in 0 .. Modulus - 1, NEW y \in 0 .. Modulus - 1
  PROVE  /\ Geometry!Add(x, y) = IF x + y < Modulus THEN x + y ELSE x + y - Modulus
         /\ Geometry!Add(x, y) \in 0 .. Modulus - 1
<1>1. Modulus \in Nat /\ Modulus > 0 /\ x + y \in Nat /\ x + y < Modulus + Modulus
  BY Sizes
<1>2. PICK q, e \in Nat : /\ e = (x + y) % Modulus /\ e < Modulus
                          /\ x + y = q * Modulus + e /\ q * Modulus \in Nat
  BY <1>1, DivMod
<1>3. q = 0 \/ q = 1
  <2>1. ASSUME q >= 2 PROVE FALSE
    <3>1. 2 * Modulus <= q * Modulus
      <4>1. q = 2 \/ 2 < q
        BY <1>2, <2>1
      <4>2. 2 < q => 2 * Modulus + Modulus <= q * Modulus
        BY <1>1, <1>2, Times
      <4> QED
        BY <1>1, <1>2, <4>1, <4>2
    <3> QED
      BY <1>1, <1>2, <3>1
  <2> QED
    BY <1>2, <2>1
<1>4. (q = 0 => q * Modulus = 0) /\ (q = 1 => q * Modulus = Modulus)
  BY <1>1
<1>5. e = IF x + y < Modulus THEN x + y ELSE x + y - Modulus
  BY <1>1, <1>2, <1>3, <1>4
<1> QED
  BY <1>1, <1>2, <1>5 DEF Geometry!Add

LEMMA NegateIs ==
  ASSUME Geometry!GeometryAssumption, NEW x \in 0 .. Modulus - 1
  PROVE  Geometry!Negate(x) = IF x = 0 THEN 0 ELSE Modulus - x
<1>1. Modulus \in Nat /\ Modulus > 0
  BY Sizes
<1>2. x = 0 => (Modulus - x) % Modulus = 0
  BY <1>1
<1>3. x # 0 => (Modulus - x) % Modulus = Modulus - x
  BY <1>1
<1> QED
  BY <1>2, <1>3 DEF Geometry!Negate

LEMMA RoundsZero ==
  ASSUME Geometry!GeometryAssumption
  PROVE  Geometry!p2roundup(0, BlockSize) = 0
<1>1. Geometry!Negate(0) = 0
  BY NegateIs, Sizes
<1>2. Geometry!p2align(0, BlockSize) = 0
  BY Sizes DEF Geometry!p2align
<1> QED
  BY <1>1, <1>2 DEF Geometry!p2roundup

(* Subtraction is by adding the negative.                                    *)
LEMMA AddBack ==
  ASSUME Geometry!GeometryAssumption, NEW x \in 0 .. Modulus - 1, NEW y \in 0 .. Modulus - 1
  PROVE  /\ Geometry!Add(y, Geometry!Negate(x)) \in 0 .. Modulus - 1
         /\ Geometry!Add(x, Geometry!Add(y, Geometry!Negate(x))) = y
<1>1. Modulus \in Nat /\ Modulus > 0
  BY Sizes
<1>2. PICK c : c = Geometry!Negate(x)
  OBVIOUS
<1>3. c = IF x = 0 THEN 0 ELSE Modulus - x
  BY <1>2, NegateIs
<1>4. c \in 0 .. Modulus - 1
  BY <1>1, <1>3
<1>5. PICK d : d = Geometry!Add(y, c)
  OBVIOUS
<1>6. d \in 0 .. Modulus - 1 /\ d = IF y + c < Modulus THEN y + c ELSE y + c - Modulus
  BY <1>4, <1>5, AddIs
<1>7. Geometry!Add(x, d) = IF x + d < Modulus THEN x + d ELSE x + d - Modulus
  BY <1>6, AddIs
<1>8. Geometry!Add(x, d) = y
  BY <1>1, <1>3, <1>6, <1>7
<1> QED
  BY <1>2, <1>5, <1>6, <1>8

(* What is_inside lets past lies inside, or its end has wrapped around, back  *)
(* to where it is inside; then it is of half the address space at least.     *)
LEMMA InsideOrWrapped ==
  ASSUME Geometry!GeometryAssumption, NEW off \in 0 .. Modulus - 1,
         NEW len \in 0 .. Modulus - 1, Geometry!is_inside(off, len)
  PROVE  /\ len > 0 /\ off < DeviceSize /\ Geometry!Add(off, len) <= DeviceSize
         /\ \/ off + len <= DeviceSize /\ Geometry!Add(off, len) = off + len
            \/ off + len > DeviceSize /\ Geometry!Add(off, len) = off + len - Modulus
                                      /\ off + len >= Modulus
<1>1. Modulus \in Nat /\ Modulus > 0 /\ DeviceSize \in Nat /\ 2 * DeviceSize <= Modulus
      /\ DeviceSize > 0
  BY Sizes
<1>2. off < DeviceSize /\ Geometry!Add(off, len) <= DeviceSize /\ len > 0
  BY DEF Geometry!is_inside
<1>3. Geometry!Add(off, len) = IF off + len < Modulus THEN off + len ELSE off + len - Modulus
  BY AddIs
<1> QED
  BY <1>1, <1>2, <1>3

(* The DMA buffers of a task: all are full but the last, which has the rest.  *)
LEMMA SegmentsCover ==
  ASSUME Geometry!GeometryAssumption, NEW len \in Nat, NEW n, n = Geometry!SegmentsFor(len)
  PROVE  /\ n \in Nat /\ len <= n * BufferSize
         /\ n > 0 => (n - 1) * BufferSize < len
         /\ len % BufferSize # 0 => n > 0 /\ len % BufferSize = len - (n - 1) * BufferSize
         /\ len % BufferSize = 0 => len = n * BufferSize
<1>1. PICK q \in Nat, r \in Nat : /\ q = len \div BufferSize /\ r = len % BufferSize
                                  /\ r < BufferSize /\ len = q * BufferSize + r
                                  /\ q * BufferSize \in Nat
  BY Sizes, DivMod
<1>2. PICK base \in Nat : base = q * BufferSize
  BY <1>1
<1>3. len = base + r /\ BufferSize \in Nat
  BY <1>1, <1>2, Sizes
<1>4. CASE r = 0
  <2>1. n = q
    BY <1>1, <1>4 DEF Geometry!SegmentsFor
  <2>2. PICK bound \in Int : bound = (q - 1) * BufferSize
    BY Sizes
  <2>3. q > 0 => bound + BufferSize = base
    BY <1>2, <2>2, Sizes, Times
  <2>4. len <= base /\ (q > 0 => bound < len)
    BY <1>1, <1>3, <1>4, <2>3
  <2> QED
    <3>1. n * BufferSize = base /\ (n - 1) * BufferSize = bound /\ n \in Nat /\ (n > 0 => q > 0)
      BY <1>2, <2>1, <2>2
    <3>2. len = base /\ len % BufferSize = 0
      BY <1>1, <1>3, <1>4
    <3> QED
      BY <2>1, <2>4, <3>1, <3>2
<1>5. CASE r # 0
  <2>1. n = q + 1 /\ n - 1 = q
    BY <1>1, <1>5 DEF Geometry!SegmentsFor
  <2>2. (q + 1) * BufferSize = base + BufferSize
    BY <1>2, Sizes, Times
  <2>3. len <= base + BufferSize /\ base < len /\ r = len - base
    BY <1>1, <1>3, <1>5
  <2> QED
    BY <1>1, <1>2, <1>5, <2>1, <2>2, <2>3
<1> QED
  BY <1>4, <1>5

----------------------------------------------------------------------------
(* The invariant.                                                            *)

(* How much a call moves: all it asks for if it lies inside the device.  If   *)
(* its end has wrapped around, read_random comes to the end of its first     *)
(* block if that is where the end has wrapped to.                            *)
WrappedEnd(o) == Geometry!p2roundup(Geometry!Add(o.off, o.len), BlockSize)
Asked(o) ==
  IF o.off + o.len <= DeviceSize THEN o.len
  ELSE IF o.cmd = "read_random" /\ o.off < WrappedEnd(o) THEN WrappedEnd(o) - o.off ELSE 0

Inside ==
  /\ Asked(op) \in Nat /\ Asked(op) <= op.len /\ op.off + Asked(op) <= DeviceSize
  /\ op.off + op.len <= DeviceSize => Asked(op) = op.len

Task == [off : Nat, len : Nat, buf : Nat, tmp_off : Nat, tmp_len : Nat]

GeometryTypes ==
  /\ op \in Geometry!Operation
  /\ begin \in Nat /\ remain \in Nat /\ tmp_off \in Nat /\ filled \in Nat
  /\ aligned \in [off : Nat, len : Nat]
  /\ tasks \in Seq(Task)
  /\ segs \in Seq([Geometry!InBuffer -> Int])
  /\ sge \in [idx : Nat, left : Nat] /\ child \in [pos : Nat, end : Nat]
  /\ copy \in [i : Nat, off : Nat, left : Nat, copied : Nat]

(* The part of the caller's buffer that is a task's, ...                      *)
Share(k) == IF op.cmd = "write" THEN k.len ELSE k.tmp_len

(* ... in tasks that take it piece after piece, up to `to`; where the first   *)
(* begins.                                                                   *)
Line(s, to) ==
  \A k \in 1 .. Len(s) :
    s[k].buf + Share(s[k]) = IF k < Len(s) THEN s[k + 1].buf ELSE to
Front(s, to) == IF s = << >> THEN to ELSE s[1].buf

(* Where the bytes of a task are on the device.                              *)
GoodTask(k) ==
  /\ k.off + k.len <= DeviceSize /\ k.buf + Share(k) <= Asked(op)
  /\ IF op.cmd = "write" THEN k.off = op.off + k.buf
     ELSE /\ k.tmp_off + k.tmp_len <= k.len /\ k.tmp_off < BufferSize
          /\ k.tmp_len > 0 => k.off + k.tmp_off = op.off + k.buf

(* The first n bytes of the operation have been moved, and no other.          *)
BufferAt(n) ==
  \A i \in Geometry!Memory :
    buf[i] = IF op.cmd # "write" /\ i < n THEN op.off + i ELSE DeviceSize + i
DiskAt(n) ==
  \A x \in Geometry!Device :
    disk[x] = IF op.cmd = "write" /\ x - op.off \in 0 .. n - 1
                THEN DeviceSize + x - op.off ELSE x

SplittingWrite ==
  /\ op.cmd = "write"
  /\ Line(tasks, begin) /\ Front(tasks, begin) = 0 /\ begin + remain = op.len
  /\ \/ Asked(op) = op.len
     \/ begin = 0 /\ op.len >= Modulus \div 2

SplittingRead ==
  /\ op.cmd # "write"
  /\ Line(tasks, filled) /\ Front(tasks, filled) = 0 /\ filled + remain = op.len
  /\ Geometry!aligned_end <= DeviceSize /\ tmp_off < BlockSize
  /\ IF begin < Geometry!aligned_end
       THEN /\ tmp_off = 0 \/ begin + tmp_off < Geometry!aligned_end
            /\ remain > 0 => begin + tmp_off = op.off + filled
            /\ \/ Asked(op) = op.len /\ op.off + op.len <= Geometry!aligned_end
               \/ /\ Asked(op) < op.len /\ op.off + Asked(op) = Geometry!aligned_end
                  /\ filled <= Asked(op)
       ELSE filled = Asked(op)

(* What a task's DMA buffers hold, segment after segment.                     *)
Loaded ==
  \A i \in 1 .. Len(segs), x \in Geometry!InBuffer :
    (i - 1) * BufferSize + x < tasks[1].len
      => segs[i][x] = DeviceSize + tasks[1].buf + ((i - 1) * BufferSize + x)
Fetched(n) ==
  \A i \in 1 .. Len(segs), x \in Geometry!InBuffer :
    (i - 1) * BufferSize + x < n => segs[i][x] = tasks[1].off + ((i - 1) * BufferSize + x)

InHand == tasks # << >> /\ Len(segs) = Geometry!SegmentsFor(tasks[1].len)

(* The SGL stands at the next byte of the child.                             *)
SglInPlace ==
  /\ sge.idx < Len(segs) /\ sge.idx * BufferSize <= child.pos
  /\ IF sge.left # 0
       THEN child.pos + sge.left = Geometry!Smaller((sge.idx + 1) * BufferSize, tasks[1].len)
       ELSE child.pos = sge.idx * BufferSize

Transferring ==
  /\ InHand
  /\ child.pos <= child.end /\ child.end <= tasks[1].len
  /\ child.pos < child.end => SglInPlace
  /\ IF op.cmd = "write" THEN Loaded ELSE Fetched(child.pos)

Copying ==
  /\ InHand /\ op.cmd # "write" /\ Fetched(tasks[1].len)
  /\ copy.copied + copy.left = tasks[1].tmp_len
  /\ copy.left > 0 => /\ copy.i >= 1 /\ copy.off < BufferSize
                      /\ (copy.i - 1) * BufferSize + copy.off = tasks[1].tmp_off + copy.copied

(* How much of the first task has reached its end.                           *)
Moved ==
  CASE pc = "transfer" -> IF op.cmd = "write" THEN child.pos ELSE 0
    [] pc = "copy_to_buf" -> copy.copied
    [] pc = "release" -> tasks[1].len
    [] OTHER -> 0

Splits == {"write_split", "make_read_tasks"}
Issues == {"issue", "transfer", "copy_to_buf", "release"}

Underway ==
  /\ Inside
  /\ \A k \in 1 .. Len(tasks) : GoodTask(tasks[k])

GeometryInv ==
  /\ GeometryTypes
  /\ pc \in {"check", "aborted", "done"} \cup Splits \cup Issues
  /\ pc = "check" => /\ tasks = << >> /\ begin = 0 /\ filled = 0
                     /\ BufferAt(0) /\ DiskAt(0)
  /\ pc # "transfer" => child = [pos |-> 0, end |-> 0]
  /\ pc \in Splits => Underway /\ BufferAt(0) /\ DiskAt(0)
  /\ pc = "write_split" => SplittingWrite
  /\ pc = "make_read_tasks" => SplittingRead
  /\ pc \in Issues => /\ Underway /\ Line(tasks, Asked(op))
                      /\ BufferAt(Front(tasks, Asked(op)) + Moved)
                      /\ DiskAt(Front(tasks, Asked(op)) + Moved)
  /\ pc = "transfer" => Transferring
  /\ pc = "copy_to_buf" => Copying
  /\ pc = "release" => tasks # << >> /\ op.cmd = "write"
  /\ pc = "done" => Inside /\ BufferAt(Asked(op)) /\ DiskAt(Asked(op))

----------------------------------------------------------------------------
(* Making tasks.                                                             *)

LEMMA OpFacts ==
  ASSUME Geometry!GeometryAssumption, op \in Geometry!Operation
  PROVE  /\ op.off \in 0 .. Modulus - 1 /\ op.len \in 0 .. Modulus - 1
         /\ op.off \in Nat /\ op.len \in Nat /\ op.cmd \in {"read", "read_random", "write"}
<1>1. /\ op.off \in 0 .. Modulus - 1 /\ op.len \in 0 .. Modulus - 1
      /\ op.cmd \in {"read", "read_random", "write"}
  BY DEF Geometry!Operation
<1> QED
  BY <1>1, Sizes

(* A call that gets past the checks asks for bytes inside the device; if its  *)
(* end has wrapped around, it asks for fewer bytes than it says.             *)
LEMMA AcceptsInside ==
  ASSUME Geometry!GeometryAssumption, op \in Geometry!Operation, Geometry!Accepts
  PROVE  /\ Inside
         /\ op.off + op.len > DeviceSize =>
              op.len >= Modulus \div 2 /\ Asked(op) < op.len
<1>1. /\ op.off \in 0 .. Modulus - 1 /\ op.len \in 0 .. Modulus - 1
      /\ Geometry!is_inside(op.off, op.len)
  BY OpFacts DEF Geometry!Accepts, Geometry!is_valid_io
<1>2. PICK w : w = Geometry!Add(op.off, op.len)
  OBVIOUS
<1>3. /\ op.len > 0 /\ op.off < DeviceSize /\ w <= DeviceSize /\ w \in 0 .. Modulus - 1
      /\ \/ op.off + op.len <= DeviceSize
         \/ op.off + op.len > DeviceSize /\ w = op.off + op.len - Modulus
  <2>1. w \in 0 .. Modulus - 1
    BY <1>1, <1>2, AddIs
  <2> QED
    BY <1>1, <1>2, <2>1, InsideOrWrapped
<1>4. Modulus \in Nat /\ DeviceSize \in Nat /\ 2 * DeviceSize <= Modulus
  BY Sizes
<1>5. PICK e : e = Geometry!p2roundup(w, BlockSize)
  OBVIOUS
<1>6. e \in Nat /\ e <= DeviceSize
  <2>1. CASE w = 0
    <3>1. e = 0
      BY <1>5, <2>1, RoundsZero
    <3> QED
      BY <1>4, <3>1
  <2>2. CASE w # 0
    BY <1>3, <1>5, <2>2, RoundsUp
  <2> QED
    BY <2>1, <2>2
<1>7. WrappedEnd(op) = e
  BY <1>2, <1>5 DEF WrappedEnd
<1>8. CASE op.off + op.len <= DeviceSize
  <2>1. Asked(op) = op.len
    BY <1>8 DEF Asked
  <2> QED
    BY <1>1, <1>4, <1>8, <2>1 DEF Inside
<1>9. CASE op.off + op.len > DeviceSize
  <2>1. PICK n : n = Asked(op)
    OBVIOUS
  <2>2. n = 0 \/ (op.off < e /\ n = e - op.off)
    BY <1>1, <1>4, <1>7, <1>9, <2>1 DEF Asked
  <2>3. w = op.off + op.len - Modulus
    BY <1>1, <1>3, <1>4, <1>9
  <2>4. n \in Nat /\ n < op.len /\ op.off + n <= DeviceSize
    BY <1>1, <1>3, <1>4, <1>6, <2>2, <2>3
  <2>5. op.len >= Modulus \div 2
    BY <1>1, <1>3, <1>4, <2>3
  <2> QED
    BY <1>1, <1>4, <1>9, <2>1, <2>4, <2>5 DEF Inside
<1> QED
  BY <1>1, <1>4, <1>8, <1>9

LEMMA AppendOne ==
  ASSUME NEW s \in Seq(Task), NEW k \in Task, NEW q, q = Append(s, k)
  PROVE  /\ q \in Seq(Task) /\ Len(q) = Len(s) + 1 /\ Len(s) \in Nat
         /\ \A i \in 1 .. Len(s) : q[i] = s[i]
         /\ q[Len(s) + 1] = k
OBVIOUS

LEMMA LineAppend ==
  ASSUME NEW s \in Seq(Task), NEW k \in Task, NEW to \in Nat, Line(s, to), k.buf = to
  PROVE  /\ Line(Append(s, k), to + Share(k))
         /\ Front(Append(s, k), to + Share(k)) = Front(s, to)
<1>1. /\ Len(Append(s, k)) = Len(s) + 1 /\ Append(s, k)[Len(s) + 1] = k
      /\ \A i \in 1 .. Len(s) : Append(s, k)[i] = s[i]
      /\ Len(s) \in Nat /\ Append(s, k) # << >>
  OBVIOUS
<1>2. Line(Append(s, k), to + Share(k))
  <2> SUFFICES ASSUME NEW i \in 1 .. Len(s) + 1
               PROVE  Append(s, k)[i].buf + Share(Append(s, k)[i])
                        = IF i < Len(s) + 1 THEN Append(s, k)[i + 1].buf ELSE to + Share(k)
    BY <1>1 DEF Line
  <2>1. CASE i = Len(s) + 1
    BY <1>1, <2>1
  <2>2. CASE i = Len(s)
    <3>1. s[i].buf + Share(s[i]) = to
      BY <1>1, <2>2 DEF Line
    <3> QED
      BY <1>1, <2>2, <3>1
  <2>3. CASE i < Len(s)
    <3>1. s[i].buf + Share(s[i]) = s[i + 1].buf
      BY <1>1, <2>3 DEF Line
    <3> QED
      BY <1>1, <2>3, <3>1
  <2> QED
    BY <1>1, <2>1, <2>2, <2>3
<1>3. Front(Append(s, k), to + Share(k)) = Front(s, to)
  <2>1. CASE s = << >>
    BY <1>1, <2>1 DEF Front
  <2>2. CASE s # << >>
    BY <1>1, <2>2 DEF Front
  <2> QED
    BY <2>1, <2>2
<1> QED
  BY <1>2, <1>3

LEMMA LineTail ==
  ASSUME NEW s \in Seq(Task), s # << >>, NEW to \in Nat, Line(s, to)
  PROVE  Line(Tail(s), to) /\ Front(Tail(s), to) = s[1].buf + Share(s[1])
<1>1. /\ Len(Tail(s)) = Len(s) - 1 /\ Len(s) \in Nat /\ Len(s) >= 1
      /\ \A i \in 1 .. Len(s) - 1 : Tail(s)[i] = s[i + 1]
      /\ Tail(s) = << >> <=> Len(s) = 1
  <2>1. Len(s) \in Nat /\ Len(s) >= 1
    OBVIOUS
  <2>2. /\ Tail(s) \in Seq(Task) /\ Len(Tail(s)) = Len(s) - 1
        /\ \A i \in 1 .. Len(Tail(s)) : Tail(s)[i] = s[i + 1]
    BY HeadTailProperties
  <2>3. \A q \in Seq(Task) : q = << >> <=> Len(q) = 0
    OBVIOUS
  <2> QED
    BY <2>1, <2>2, <2>3
<1>2. Line(Tail(s), to)
  <2> SUFFICES ASSUME NEW i \in 1 .. Len(s) - 1
               PROVE  Tail(s)[i].buf + Share(Tail(s)[i])
                        = IF i < Len(s) - 1 THEN Tail(s)[i + 1].buf ELSE to
    BY <1>1 DEF Line
  <2>1. Tail(s)[i] = s[i + 1] /\ (i < Len(s) - 1 => Tail(s)[i + 1] = s[i + 2])
    BY <1>1
  <2>2. s[i + 1].buf + Share(s[i + 1]) = IF i + 1 < Len(s) THEN s[i + 2].buf ELSE to
    BY <1>1 DEF Line
  <2> QED
    BY <1>1, <2>1, <2>2
<1>3. s[1].buf + Share(s[1]) = IF 1 < Len(s) THEN s[2].buf ELSE to
  BY <1>1 DEF Line
<1> QED
  BY <1>1, <1>2, <1>3 DEF Front

(* Where a read begins and ends: the blocks around what it asks for; or, if   *)
(* its end has wrapped around, what is left of the first block, or nothing.  *)
LEMMA ReadBegins ==
  ASSUME Geometry!GeometryAssumption, op \in Geometry!Operation, Geometry!Read
  PROVE  /\ aligned' \in [off : Nat, len : Nat]
         /\ aligned'.off <= op.off /\ op.off - aligned'.off < BlockSize
         /\ Geometry!aligned_end' \in Nat /\ Geometry!aligned_end' <= DeviceSize
         /\ \/ /\ Asked(op) = op.len /\ op.off + op.len <= Geometry!aligned_end'
               /\ op.off < Geometry!aligned_end'
            \/ /\ Asked(op) < op.len /\ op.off + Asked(op) = Geometry!aligned_end'
               /\ op.off < Geometry!aligned_end'
            \/ Asked(op) = 0 /\ Geometry!aligned_end' <= aligned'.off
<1>1. PICK end : end = Geometry!aligned_end'
  OBVIOUS
<1>2. PICK w : w = Geometry!Add(op.off, op.len)
  OBVIOUS
<1>3. /\ op.off \in 0 .. Modulus - 1 /\ op.len \in 0 .. Modulus - 1 /\ op.cmd # "write"
      /\ Geometry!is_inside(op.off, op.len) /\ Geometry!Accepts
  BY OpFacts DEF Geometry!Accepts, Geometry!is_valid_io, Geometry!Read
<1>4. /\ op.len > 0 /\ op.off < DeviceSize /\ w <= DeviceSize /\ w \in 0 .. Modulus - 1
      /\ \/ op.off + op.len <= DeviceSize /\ w = op.off + op.len
         \/ op.off + op.len > DeviceSize /\ w = op.off + op.len - Modulus
  <2>1. w \in 0 .. Modulus - 1
    BY <1>2, <1>3, AddIs
  <2> QED
    BY <1>2, <1>3, <2>1, InsideOrWrapped
<1>5. Modulus \in Nat /\ DeviceSize \in Nat /\ 2 * DeviceSize <= Modulus /\ DeviceSize > 0
      /\ BlockSize \in Nat /\ BlockSize > 0
  BY Sizes
<1>6. CASE op.cmd = "read"
  <2>1. aligned' = [off |-> op.off, len |-> op.len]
    BY <1>6 DEF Geometry!Read
  <2>2. end = w
    BY <1>1, <1>2, <2>1 DEF Geometry!aligned_end
  <2>3. op.off + op.len <= DeviceSize => Asked(op) = op.len
    BY DEF Asked
  <2>4. op.off + op.len > DeviceSize => Asked(op) = 0
    BY <1>3, <1>5, <1>6 DEF Asked
  <2>5. aligned'.off = op.off /\ aligned'.len = op.len
    BY <2>1
  <2>6. /\ end \in Nat /\ end <= DeviceSize
        /\ \/ Asked(op) = op.len /\ op.off + op.len <= end /\ op.off < end
           \/ Asked(op) = 0 /\ end <= op.off
    BY <1>3, <1>4, <1>5, <2>2, <2>3, <2>4
  <2> QED
    BY <1>1, <1>3, <1>5, <2>1, <2>5, <2>6
<1>7. CASE op.cmd = "read_random"
  <2>1. PICK first, last : /\ first = op.off - (op.off % BlockSize)
                           /\ last = Geometry!p2roundup(w, BlockSize)
    OBVIOUS
  <2>2. PICK d, e \in Nat : /\ e = op.off % BlockSize /\ e < BlockSize
                            /\ op.off = d * BlockSize + e /\ d * BlockSize \in Nat
    <3>1. op.off \in Nat
      BY <1>3, <1>5
    <3>2. \E d, e \in Nat : /\ d = op.off \div BlockSize /\ e = op.off % BlockSize
                            /\ e < BlockSize
                            /\ op.off = d * BlockSize + e /\ d * BlockSize \in Nat
      BY <1>5, <3>1, DivMod
    <3> QED
      BY <3>2
  <2>3. first \in Nat /\ first <= op.off /\ op.off - first < BlockSize /\ first = d * BlockSize
    <3>1. PICK base \in Nat : base = d * BlockSize
      BY <2>2
    <3>2. first = op.off - e /\ op.off = base + e
      BY <2>1, <2>2, <3>1
    <3>3. e \in Nat /\ e < BlockSize /\ op.off \in Nat
      BY <1>3, <1>5, <2>2
    <3>4. first = base /\ first <= op.off /\ op.off - first < BlockSize
      BY <3>1, <3>2, <3>3
    <3> QED
      BY <3>1, <3>4
  <2>4. PICK c \in Nat : last = c * BlockSize /\ last \in Nat /\ last <= DeviceSize /\ w <= last
    <3>1. CASE w = 0
      <4>1. last = 0 /\ 0 * BlockSize = 0
        BY <1>5, <2>1, <3>1, RoundsZero
      <4> QED
        BY <1>5, <3>1, <4>1
    <3>2. CASE w # 0
      <4>1. w \in Nat /\ 0 < w /\ w <= DeviceSize
        BY <1>4, <1>5, <3>2
      <4>2. /\ last \in Nat /\ w <= last /\ last <= DeviceSize
            /\ \E c \in Nat : last = c * BlockSize
        BY <2>1, <4>1, RoundsUp
      <4> QED
        BY <4>2
    <3> QED
      BY <3>1, <3>2
  <2>5. first < last => op.off < last
    <3> SUFFICES ASSUME first < last PROVE op.off < last
      OBVIOUS
    <3>1. d < c
      <4>1. c < d => c * BlockSize + BlockSize <= d * BlockSize
        BY <1>5, Times
      <4> QED
        BY <1>5, <2>2, <2>3, <2>4, <4>1
    <3>2. d * BlockSize + BlockSize <= c * BlockSize
      BY <1>5, <3>1, Times
    <3> QED
      BY <1>3, <1>5, <2>3, <2>4, <3>2
  <2>6. first \in 0 .. Modulus - 1 /\ last \in 0 .. Modulus - 1
    BY <1>3, <1>5, <2>3, <2>4
  <2>7. aligned' = [off |-> first, len |-> Geometry!Add(last, Geometry!Negate(first))]
    BY <1>2, <1>7, <2>1 DEF Geometry!Read, Geometry!round_to_blocks, Geometry!p2align
  <2>8. Geometry!Add(last, Geometry!Negate(first)) \in 0 .. Modulus - 1 /\ end = last
    BY <1>1, <2>6, <2>7, AddBack DEF Geometry!aligned_end
  <2>9. WrappedEnd(op) = last
    BY <1>2, <2>1 DEF WrappedEnd
  <2>10. op.off + op.len <= DeviceSize => Asked(op) = op.len
    BY DEF Asked
  <2>11. op.off + op.len > DeviceSize =>
           Asked(op) = IF op.off < last THEN last - op.off ELSE 0
    BY <1>3, <1>5, <1>7, <2>9 DEF Asked
  <2>12. \/ Asked(op) = op.len /\ op.off + op.len <= end /\ op.off < end
         \/ Asked(op) < op.len /\ op.off + Asked(op) = end /\ op.off < end
         \/ Asked(op) = 0 /\ end <= first
    <3>1. PICK n : n = Asked(op)
      OBVIOUS
    <3>2. CASE op.off + op.len <= DeviceSize
      BY <1>3, <1>4, <1>5, <2>4, <2>8, <2>10, <3>2
    <3>3. CASE op.off + op.len > DeviceSize /\ first < last
      <4>1. n = last - op.off /\ op.off < last
        BY <2>5, <2>11, <3>1, <3>3
      <4>2. n < op.len /\ op.off + n = last
        BY <1>3, <1>4, <1>5, <2>4, <3>3, <4>1
      <4> QED
        BY <2>8, <3>1, <4>1, <4>2
    <3>4. CASE op.off + op.len > DeviceSize /\ ~ first < last
      BY <1>3, <2>3, <2>4, <2>8, <2>11, <3>4
    <3> QED
      BY <1>3, <1>5, <2>3, <2>4, <3>2, <3>3, <3>4
  <2>13. aligned'.off = first /\ aligned' \in [off : Nat, len : Nat]
    BY <1>5, <2>3, <2>7, <2>8
  <2> QED
    BY <1>1, <2>3, <2>4, <2>8, <2>12, <2>13
<1> QED
  BY <1>3, <1>6, <1>7, OpFacts

LEMMA BeginKeeps ==
  ASSUME Geometry!GeometryAssumption, GeometryInv,
         Geometry!Rejected \/ Geometry!Write \/ Geometry!Read
  PROVE  GeometryInv'
<1> USE DEF Splits, Issues
<1>1. /\ pc = "check" /\ UNCHANGED <<op, filled, tasks, segs, sge, child, copy, disk, buf>>
      /\ op \in Geometry!Operation
  BY DEF Geometry!Rejected, Geometry!Write, Geometry!Read, Geometry!loop, Geometry!task_state,
         GeometryInv, GeometryTypes
<1>2. /\ tasks' = << >> /\ filled' = 0 /\ begin = 0 /\ child' = [pos |-> 0, end |-> 0]
      /\ BufferAt(0)' /\ DiskAt(0)'
  BY <1>1 DEF GeometryInv, BufferAt, DiskAt
<1>3. (\A to : Line(<< >>, to)' /\ Front(<< >>, to)' = to) /\ Len(tasks') = 0
  BY <1>2 DEF Line, Front
<1>4. CASE Geometry!Rejected
  BY <1>1, <1>4 DEF Geometry!Rejected, Geometry!loop, Geometry!task_state, GeometryInv,
                    GeometryTypes
<1>5. CASE Geometry!Write
  <2>1. pc' = "write_split" /\ op.cmd = "write" /\ Inside /\ remain' = op.len
        /\ UNCHANGED <<aligned, begin, tmp_off>>
    BY <1>1, <1>5, AcceptsInside DEF Geometry!Write
  <2>4. Asked(op) = op.len \/ (begin = 0 /\ op.len >= Modulus \div 2)
    <3>1. op.off + op.len \in Nat /\ DeviceSize \in Nat
      BY <1>1, OpFacts, Sizes
    <3>2. op.off + op.len <= DeviceSize => Asked(op) = op.len
      BY <2>1 DEF Inside
    <3>3. op.off + op.len > DeviceSize => op.len >= Modulus \div 2
      BY <1>1, <1>5, AcceptsInside DEF Geometry!Write
    <3> QED
      BY <1>2, <3>1, <3>2, <3>3
  <2>2. GeometryTypes'
    BY <1>1, <2>1, OpFacts DEF GeometryInv, GeometryTypes
  <2>3. Underway'
    BY <1>1, <1>3, <2>1 DEF Underway, Inside
  <2>5. SplittingWrite'
    <3>1. begin' = 0 /\ remain' = op.len /\ op.len \in Nat
      BY <1>1, <1>2, <2>1, OpFacts
    <3>2. Line(tasks, begin)' /\ Front(tasks, begin)' = 0
      BY <1>2, <1>3, <3>1 DEF Line, Front, Share
    <3> QED
      BY <1>1, <1>2, <2>1, <2>4, <3>1, <3>2 DEF SplittingWrite
  <2> QED
    BY <1>2, <2>1, <2>2, <2>3, <2>5 DEF GeometryInv
<1>6. CASE Geometry!Read
  <2>1. pc' = "make_read_tasks" /\ op.cmd # "write" /\ Inside /\ remain' = op.len
        /\ begin' = aligned'.off /\ tmp_off' = op.off - aligned'.off /\ Geometry!Accepts
    BY <1>1, <1>6, AcceptsInside DEF Geometry!Read
  <2>2. PICK end : end = Geometry!aligned_end'
    OBVIOUS
  <2>3. /\ aligned' \in [off : Nat, len : Nat]
        /\ aligned'.off <= op.off /\ op.off - aligned'.off < BlockSize
        /\ end \in Nat /\ end <= DeviceSize
        /\ \/ Asked(op) = op.len /\ op.off + op.len <= end /\ op.off < end
           \/ Asked(op) < op.len /\ op.off + Asked(op) = end /\ op.off < end
           \/ Asked(op) = 0 /\ end <= aligned'.off
    BY <1>1, <1>6, <2>1, <2>2, ReadBegins
  <2>4. /\ op.off \in Nat /\ op.len \in Nat /\ Asked(op) \in Nat /\ aligned'.off \in Nat
        /\ BlockSize \in Nat
    BY <1>1, <2>1, <2>3, OpFacts, Sizes DEF Inside
  <2>5. tmp_off' \in Nat /\ tmp_off' < BlockSize /\ begin' \in Nat /\ begin' + tmp_off' = op.off
    BY <2>1, <2>3, <2>4
  <2>6. GeometryTypes'
    BY <1>1, <1>2, <2>1, <2>3, <2>4, <2>5 DEF GeometryInv, GeometryTypes
  <2>7. Underway'
    BY <1>1, <1>3, <2>1 DEF Underway, Inside
  <2>8. Line(tasks, filled)' /\ Front(tasks, filled)' = 0
    BY <1>2, <1>3 DEF Line, Front, Share
  <2>9. filled' + remain' = op.len /\ begin' + tmp_off' = op.off + filled' /\ filled' = 0
    BY <1>2, <2>1, <2>4, <2>5
  <2>10. CASE begin' < end
    <3>1. tmp_off' = 0 \/ begin' + tmp_off' < end
      BY <2>1, <2>3, <2>4, <2>5, <2>10
    <3>2. \/ Asked(op) = op.len /\ op.off + op.len <= end
          \/ Asked(op) < op.len /\ op.off + Asked(op) = end /\ filled' <= Asked(op)
      BY <2>1, <2>3, <2>4, <2>9, <2>10
    <3> QED
      BY <1>1, <1>2, <2>1, <2>2, <2>3, <2>5, <2>6, <2>7, <2>8, <2>9, <2>10, <3>1, <3>2
         DEF SplittingRead, GeometryInv
  <2>11. CASE ~ begin' < end
    <3>1. filled' = Asked(op)
      BY <2>1, <2>3, <2>4, <2>9, <2>11
    <3> QED
      BY <1>1, <1>2, <2>1, <2>2, <2>3, <2>5, <2>6, <2>7, <2>8, <2>9, <2>11, <3>1
         DEF SplittingRead, GeometryInv
  <2> QED
    BY <2>10, <2>11
<1> QED
  BY <1>4, <1>5, <1>6

LEMMA WriteSplitKeeps ==
  ASSUME Geometry!GeometryAssumption, GeometryInv, Geometry!write_split
  PROVE  GeometryInv'
<1> USE DEF Splits, Issues
<1> DEFINE n == Geometry!Smaller(remain, SplitSize)
           k == [off |-> op.off + begin, len |-> n, buf |-> begin, tmp_off |-> 0, tmp_len |-> 0]
<1>1. /\ pc = "write_split" /\ remain > 0 /\ op.len < Modulus \div 2
      /\ tasks' = Append(tasks, k) /\ remain' = remain - n /\ begin' = begin + n
      /\ UNCHANGED <<op, pc, aligned, tmp_off, filled, segs, sge, child, copy, disk, buf>>
  BY DEF Geometry!write_split, Geometry!task_state
<1>2. /\ GeometryTypes /\ Underway /\ BufferAt(0) /\ DiskAt(0) /\ SplittingWrite
      /\ child = [pos |-> 0, end |-> 0]
  BY <1>1 DEF GeometryInv
<1>3. /\ op.off \in Nat /\ op.len \in Nat /\ begin \in Nat /\ remain \in Nat
      /\ op.cmd = "write" /\ begin + remain = op.len /\ op.off + op.len <= DeviceSize
      /\ Asked(op) = op.len
  <2>1. op.off \in Nat /\ op.len \in Nat /\ begin \in Nat /\ remain \in Nat
    BY <1>2, OpFacts DEF GeometryTypes
  <2>2. Modulus \div 2 \in Nat
    BY Sizes
  <2>3. Asked(op) = op.len
    BY <1>1, <1>2, <2>1, <2>2 DEF SplittingWrite
  <2> QED
    BY <1>2, <2>1, <2>3 DEF SplittingWrite, Underway, Inside
<1>4. n \in Nat /\ n <= remain
  BY <1>3, Sizes DEF Geometry!Smaller
<1> HIDE DEF n
<1>5. k \in Task /\ k.buf = begin /\ Share(k) = n
  BY <1>3, <1>4 DEF Task, Share
<1>6. GoodTask(k)
  BY <1>3, <1>4, <1>5, Sizes DEF GoodTask
<1> HIDE DEF k
<1>7. /\ Line(Append(tasks, k), begin + n) /\ Front(Append(tasks, k), begin + n) = 0
  BY <1>2, <1>3, <1>5, LineAppend DEF GeometryTypes, SplittingWrite
<1>a. /\ tasks' \in Seq(Task) /\ Len(tasks') = Len(tasks) + 1 /\ Len(tasks) \in Nat
      /\ \A i \in 1 .. Len(tasks) : tasks'[i] = tasks[i]
      /\ tasks'[Len(tasks) + 1] = k
  <2>1. tasks \in Seq(Task)
    BY <1>2 DEF GeometryTypes
  <2> QED
    BY <1>1, <1>5, <2>1, AppendOne
<1>8. Line(tasks, begin)' /\ Front(tasks, begin)' = 0
  BY <1>1, <1>7 DEF Line, Front, Share
<1>9. \A i \in 1 .. Len(tasks') : GoodTask(tasks[i])'
  <2>1. \A i \in 1 .. Len(tasks) : GoodTask(tasks'[i])
    BY <1>2, <1>a DEF Underway
  <2>2. GoodTask(tasks'[Len(tasks) + 1])
    BY <1>6, <1>a
  <2>3. \A i \in 1 .. Len(tasks') : GoodTask(tasks'[i])
    BY <1>a, <2>1, <2>2
  <2>4. op' = op
    BY <1>1
  <2> QED
    BY <2>3, <2>4 DEF GoodTask, Share
<1>10. GeometryTypes'
  BY <1>1, <1>2, <1>3, <1>4, <1>a DEF GeometryTypes
<1>11. Underway' /\ SplittingWrite'
  BY <1>1, <1>2, <1>3, <1>4, <1>8, <1>9 DEF Underway, Inside, SplittingWrite
<1>12. BufferAt(0)' /\ DiskAt(0)'
  BY <1>1, <1>2 DEF BufferAt, DiskAt
<1> QED
  BY <1>1, <1>2, <1>10, <1>11, <1>12 DEF GeometryInv

LEMMA MakeReadKeeps ==
  ASSUME Geometry!GeometryAssumption, GeometryInv, Geometry!make_read_tasks
  PROVE  GeometryInv'
<1> USE DEF Splits, Issues
<1>b. PICK size, n :
        /\ size = Geometry!Smaller(Geometry!aligned_end - begin, SplitSize)
        /\ n = Geometry!Smaller(remain, size - tmp_off)
        /\ tasks' = Append(tasks, [off |-> begin, len |-> size, buf |-> filled,
                                  tmp_off |-> tmp_off, tmp_len |-> n])
        /\ remain' = remain - n /\ filled' = filled + n
  BY DEF Geometry!make_read_tasks
<1>e. PICK end : end = Geometry!aligned_end
  OBVIOUS
<1> DEFINE k == [off |-> begin, len |-> size, buf |-> filled, tmp_off |-> tmp_off, tmp_len |-> n]
<1>1. /\ pc = "make_read_tasks" /\ begin < end
      /\ tasks' = Append(tasks, k) /\ remain' = remain - n /\ filled' = filled + n
      /\ tmp_off' = 0 /\ begin' = begin + SplitSize
      /\ UNCHANGED <<op, pc, aligned, segs, sge, child, copy, disk, buf>>
  BY <1>b, <1>e DEF Geometry!make_read_tasks, Geometry!task_state
<1>2. /\ GeometryTypes /\ Underway /\ BufferAt(0) /\ DiskAt(0) /\ SplittingRead
      /\ child = [pos |-> 0, end |-> 0]
  BY <1>1 DEF GeometryInv
<1>3. /\ op.off \in Nat /\ op.len \in Nat /\ begin \in Nat /\ remain \in Nat /\ filled \in Nat
      /\ tmp_off \in Nat /\ end \in Nat /\ Asked(op) \in Nat
      /\ op.cmd # "write" /\ filled + remain = op.len
      /\ end <= DeviceSize /\ tmp_off < BlockSize /\ (tmp_off = 0 \/ begin + tmp_off < end)
      /\ remain > 0 => begin + tmp_off = op.off + filled
      /\ \/ Asked(op) = op.len /\ op.off + op.len <= end
         \/ Asked(op) < op.len /\ op.off + Asked(op) = end /\ filled <= Asked(op)
  <2>1. /\ op.off \in Nat /\ op.len \in Nat /\ begin \in Nat /\ remain \in Nat
        /\ filled \in Nat /\ tmp_off \in Nat /\ aligned.off \in Nat /\ aligned.len \in Nat
    BY <1>2, OpFacts DEF GeometryTypes
  <2>2. /\ op.cmd # "write" /\ filled + remain = op.len
        /\ end <= DeviceSize /\ tmp_off < BlockSize /\ (tmp_off = 0 \/ begin + tmp_off < end)
        /\ remain > 0 => begin + tmp_off = op.off + filled
        /\ \/ Asked(op) = op.len /\ op.off + op.len <= end
           \/ Asked(op) < op.len /\ op.off + Asked(op) = end /\ filled <= Asked(op)
    BY <1>1, <1>2, <1>e DEF SplittingRead
  <2>3. end \in Nat
    <3>1. Modulus \in Nat /\ Modulus > 0
      BY Sizes
    <3> QED
      BY <1>e, <2>1, <3>1 DEF Geometry!aligned_end, Geometry!Add
  <2>4. Asked(op) \in Nat
    BY <1>2 DEF Underway, Inside
  <2> QED
    BY <2>1, <2>2, <2>3, <2>4
<1>c. /\ size = Geometry!Smaller(end - begin, SplitSize)
      /\ n = Geometry!Smaller(remain, size - tmp_off)
  BY <1>b, <1>e
<1>4. /\ size \in Nat /\ begin + size <= end /\ tmp_off <= size /\ size <= SplitSize
      /\ size = SplitSize \/ begin + size = end
  <2>1. end - begin \in Nat /\ SplitSize \in Nat /\ BlockSize \in Nat /\ BlockSize <= SplitSize
    BY <1>1, <1>3, Sizes
  <2>2. size = IF end - begin <= SplitSize THEN end - begin ELSE SplitSize
    BY <1>c DEF Geometry!Smaller
  <2>3. tmp_off = 0 \/ tmp_off < end - begin
    BY <1>3
  <2> QED
    BY <1>3, <2>1, <2>2, <2>3
<1>5. /\ n \in Nat /\ n <= remain /\ tmp_off + n <= size
      /\ n = remain \/ tmp_off + n = size
  BY <1>3, <1>4, <1>c DEF Geometry!Smaller
<1>6. k \in Task /\ k.buf = filled /\ Share(k) = n
  BY <1>3, <1>4, <1>5 DEF Task, Share
<1>7. GoodTask(k)
  <2>1. n > 0 => begin + tmp_off = op.off + filled
    BY <1>3, <1>5
  <2>2. tmp_off < BufferSize /\ begin + size <= DeviceSize
    BY <1>3, <1>4, Sizes
  <2>3. filled + n <= Asked(op)
    BY <1>3, <1>4, <1>5
  <2> QED
    BY <1>3, <1>5, <1>6, <2>1, <2>2, <2>3 DEF GoodTask
<1> HIDE DEF k
<1>8. /\ Line(Append(tasks, k), filled + n) /\ Front(Append(tasks, k), filled + n) = 0
  BY <1>2, <1>3, <1>6, LineAppend DEF GeometryTypes, SplittingRead
<1>a. /\ tasks' \in Seq(Task) /\ Len(tasks') = Len(tasks) + 1 /\ Len(tasks) \in Nat
      /\ \A i \in 1 .. Len(tasks) : tasks'[i] = tasks[i]
      /\ tasks'[Len(tasks) + 1] = k
  <2>1. tasks \in Seq(Task)
    BY <1>2 DEF GeometryTypes
  <2> QED
    BY <1>1, <1>6, <2>1, AppendOne
<1>9. Line(tasks, filled)' /\ Front(tasks, filled)' = 0
  BY <1>1, <1>8 DEF Line, Front, Share
<1>10. \A i \in 1 .. Len(tasks') : GoodTask(tasks[i])'
  <2>1. \A i \in 1 .. Len(tasks) : GoodTask(tasks'[i])
    BY <1>2, <1>a DEF Underway
  <2>2. GoodTask(tasks'[Len(tasks) + 1])
    BY <1>7, <1>a
  <2>3. \A i \in 1 .. Len(tasks') : GoodTask(tasks'[i])
    BY <1>a, <2>1, <2>2
  <2>4. op' = op
    BY <1>1
  <2> QED
    BY <2>3, <2>4 DEF GoodTask, Share
(* When something remains, the task was filled to its end, and is a whole one *)
(* unless it is the last.                                                    *)
<1>11. IF begin + SplitSize < end
         THEN remain - n > 0 => begin + SplitSize = op.off + (filled + n)
         ELSE filled + n = Asked(op)
  <2>1. SplitSize \in Nat
    BY Sizes
  <2>2. PICK u, v, f \in Nat :
          u = op.off /\ v = Asked(op) /\ f = filled + n /\ f + (remain - n) = op.len
    BY <1>3, <1>5
  <2>3. n < remain => u + f = begin + size /\ tmp_off + n = size
    <3> SUFFICES ASSUME n < remain PROVE u + f = begin + size /\ tmp_off + n = size
      OBVIOUS
    <3>1. tmp_off + n = size /\ begin + tmp_off = u + filled
      BY <1>3, <1>5, <2>2
    <3> QED
      BY <1>3, <1>4, <1>5, <2>2, <3>1
  <2>4. CASE begin + SplitSize < end
    <3>1. size = SplitSize
      BY <1>3, <1>4, <2>1, <2>4
    <3> QED
      BY <1>3, <1>5, <2>2, <2>3, <2>4, <3>1
  <2>5. CASE ~ begin + SplitSize < end
    <3>1. begin + size = end
      BY <1>3, <1>4, <2>1, <2>5
    <3>2. n < remain => u + f = end
      BY <2>3, <3>1
    <3>3. n = remain => f = op.len
      BY <1>3, <1>5, <2>2
    <3>4. f <= op.len /\ f <= v
      <4>1. f <= op.len
        BY <1>3, <1>5, <2>2
      <4>2. n > 0 => u + f <= begin + size
        BY <1>3, <1>4, <1>5, <2>2
      <4> QED
        BY <1>3, <1>4, <1>5, <2>2, <3>1, <4>1, <4>2
    <3>5. \/ v = op.len /\ u + op.len <= end
          \/ v < op.len /\ u + v = end
      BY <1>3, <2>2
    <3>6. f = v
      BY <1>3, <1>5, <2>2, <3>2, <3>3, <3>4, <3>5
    <3> QED
      BY <2>2, <2>5, <3>6
  <2> QED
    BY <2>4, <2>5
<1>12. GeometryTypes'
  <2>1. begin' \in Nat /\ remain' \in Nat /\ tmp_off' \in Nat /\ filled' \in Nat
    <3>1. SplitSize \in Nat /\ remain - n \in Nat /\ filled + n \in Nat
      BY <1>3, <1>5, Sizes
    <3> QED
      BY <1>1, <1>3, <3>1
  <2> QED
    BY <1>1, <1>2, <1>a, <2>1 DEF GeometryTypes
<1>13. Underway' /\ SplittingRead'
  <2>1. Underway'
    BY <1>1, <1>2, <1>10 DEF Underway, Inside
  <2>2. filled' + remain' = op.len
    BY <1>1, <1>3, <1>5
  <2>3. Geometry!aligned_end' = end /\ op' = op
    BY <1>1, <1>e DEF Geometry!aligned_end
  <2>4. filled + n <= Asked(op)
    BY <1>3, <1>4, <1>5
  <2>5. IF begin' < end
          THEN /\ remain' > 0 => begin' + tmp_off' = op.off + filled'
               /\ \/ Asked(op) = op.len /\ op.off + op.len <= end
                  \/ Asked(op) < op.len /\ op.off + Asked(op) = end /\ filled' <= Asked(op)
          ELSE filled' = Asked(op)
    <3>1. SplitSize \in Nat /\ begin + SplitSize + 0 = begin + SplitSize
      BY <1>3, Sizes
    <3> QED
      BY <1>1, <1>3, <1>11, <2>4, <3>1
  <2>6. tmp_off' = 0 /\ 0 < BlockSize
    BY <1>1, Sizes
  <2> QED
    BY <1>1, <1>3, <1>9, <2>1, <2>2, <2>3, <2>5, <2>6 DEF SplittingRead
<1>14. BufferAt(0)' /\ DiskAt(0)'
  BY <1>1, <1>2 DEF BufferAt, DiskAt
<1> QED
  BY <1>1, <1>2, <1>12, <1>13, <1>14 DEF GeometryInv

LEMMA TasksMadeKeeps ==
  ASSUME Geometry!GeometryAssumption, GeometryInv, Geometry!TasksMade
  PROVE  GeometryInv'
<1> USE DEF Splits, Issues
<1>1. /\ pc \in Splits /\ pc' = "issue"
      /\ begin' = 0 /\ remain' = 0 /\ tmp_off' = 0 /\ filled' = 0
      /\ aligned' = [off |-> 0, len |-> 0]
      /\ UNCHANGED <<op, tasks, segs, sge, child, copy, disk, buf>>
  BY DEF Geometry!TasksMade, Geometry!task_state
<1>2. /\ GeometryTypes /\ Underway /\ BufferAt(0) /\ DiskAt(0) /\ child = [pos |-> 0, end |-> 0]
  BY <1>1 DEF GeometryInv
<1>3. Line(tasks, Asked(op)) /\ Front(tasks, Asked(op)) = 0
  <2>1. CASE pc = "write_split"
    <3>1. SplittingWrite /\ remain = 0
      BY <2>1 DEF Geometry!TasksMade, GeometryInv
    <3>2. op.len \in Nat /\ begin \in Nat /\ Modulus \in Nat /\ DeviceSize \in Nat
          /\ DeviceSize > 0 /\ 2 * DeviceSize <= Modulus
      BY <1>2, OpFacts, Sizes DEF GeometryTypes
    <3>3. begin = op.len
      BY <3>1, <3>2 DEF SplittingWrite
    <3>4. Asked(op) = op.len
      <4>1. Modulus \div 2 > 0
        BY <3>2
      <4> QED
        BY <3>1, <3>2, <3>3, <4>1 DEF SplittingWrite
    <3> QED
      BY <3>1, <3>3, <3>4 DEF SplittingWrite
  <2>2. CASE pc = "make_read_tasks"
    <3>1. SplittingRead /\ begin >= Geometry!aligned_end
      BY <2>2 DEF Geometry!TasksMade, GeometryInv
    <3>2. begin \in Nat /\ Geometry!aligned_end \in Nat
      <4>1. Modulus \in Nat /\ Modulus > 0
        BY Sizes
      <4>2. aligned.off \in Nat /\ aligned.len \in Nat /\ begin \in Nat
        BY <1>2 DEF GeometryTypes
      <4> QED
        BY <4>1, <4>2 DEF Geometry!aligned_end, Geometry!Add
    <3>3. ~ begin < Geometry!aligned_end
      BY <3>1, <3>2
    <3> QED
      BY <3>1, <3>3 DEF SplittingRead
  <2> QED
    BY <1>1, <2>1, <2>2
<1>4. GeometryTypes'
  BY <1>1, <1>2 DEF GeometryTypes
<1>5. Underway'
  BY <1>1, <1>2 DEF Underway, Inside, GoodTask, Share
<1>6. Line(tasks, Asked(op))' /\ Front(tasks, Asked(op))' = 0 /\ Moved' = 0
  BY <1>1, <1>3 DEF Line, Front, Share, Moved
<1>7. BufferAt(Front(tasks, Asked(op)) + Moved)' /\ DiskAt(Front(tasks, Asked(op)) + Moved)'
  BY <1>1, <1>2, <1>6 DEF BufferAt, DiskAt
<1> QED
  BY <1>1, <1>2, <1>4, <1>5, <1>6, <1>7 DEF GeometryInv

----------------------------------------------------------------------------
(* Carrying out a task.                                                      *)

LEMMA IssueFacts ==
  ASSUME Geometry!GeometryAssumption, GeometryInv, pc \in Issues
  PROVE  /\ GeometryTypes /\ Underway /\ Line(tasks, Asked(op))
         /\ op.off \in Nat /\ Asked(op) \in Nat /\ op.off + Asked(op) <= DeviceSize
         /\ BufferAt(Front(tasks, Asked(op)) + Moved) /\ DiskAt(Front(tasks, Asked(op)) + Moved)
<1>1. GeometryTypes /\ Underway
  BY DEF GeometryInv
<1> QED
  BY <1>1, OpFacts DEF GeometryInv, GeometryTypes, Underway, Inside

LEMMA TaskFacts ==
  ASSUME GeometryTypes, Underway, tasks # << >>, NEW t, t = tasks[1]
  PROVE  /\ t \in Task /\ GoodTask(t) /\ Geometry!t = t /\ Front(tasks, Asked(op)) = t.buf
         /\ t.off \in Nat /\ t.len \in Nat /\ t.buf \in Nat
         /\ t.tmp_off \in Nat /\ t.tmp_len \in Nat
<1>1. tasks \in Seq(Task)
  BY DEF GeometryTypes
<1>2. Len(tasks) \in Nat /\ Len(tasks) >= 1 /\ Head(tasks) = tasks[1] /\ tasks[1] \in Task
  BY <1>1
<1>3. GoodTask(t)
  BY <1>2 DEF Underway
<1> QED
  BY <1>2, <1>3 DEF Front, Geometry!t, Task

(* The parts of the invariant that do not speak of the task in hand.          *)
LEMMA SameTasks ==
  ASSUME GeometryTypes, Underway, Line(tasks, Asked(op)), UNCHANGED <<op, tasks>>
  PROVE  Underway' /\ Line(tasks, Asked(op))' /\ Front(tasks, Asked(op))' = Front(tasks, Asked(op))
BY DEF Underway, Inside, GoodTask, Share, Line, Front

LEMMA CopiedInFacts ==
  ASSUME Geometry!GeometryAssumption, GeometryTypes, Underway, tasks # << >>, op.cmd = "write",
         BufferAt(0), NEW count, count = Geometry!SegmentsFor(tasks[1].len), NEW i \in 1 .. count
  PROVE  /\ Geometry!CopiedIn(i, count) \in [Geometry!InBuffer -> Int]
         /\ \A x \in Geometry!InBuffer :
              (i - 1) * BufferSize + x < tasks[1].len
                => Geometry!CopiedIn(i, count)[x]
                     = DeviceSize + tasks[1].buf + ((i - 1) * BufferSize + x)
<1>1. PICK t : t = tasks[1]
  OBVIOUS
<1>2. /\ Geometry!t = t /\ t.len \in Nat /\ t.buf \in Nat /\ t.buf + t.len <= Asked(op)
      /\ Asked(op) <= DeviceSize /\ Asked(op) \in Nat /\ op.off \in Nat
  <2>1. op.off \in Nat /\ Asked(op) \in Nat /\ DeviceSize \in Nat
    BY OpFacts, Sizes DEF GeometryTypes, Underway, Inside
  <2>2. Geometry!t = t /\ t.len \in Nat /\ t.buf \in Nat /\ GoodTask(t)
    BY <1>1, TaskFacts
  <2>3. t.buf + t.len <= Asked(op)
    BY <2>2 DEF GoodTask, Share
  <2>4. Asked(op) <= DeviceSize
    BY <2>1 DEF Underway, Inside
  <2> QED
    BY <2>1, <2>2, <2>3, <2>4
<1>3. /\ count \in Nat /\ (count - 1) * BufferSize < t.len
      /\ BufferSize \in Nat /\ BufferSize > 0 /\ DeviceSize \in Nat
  <2>1. count \in Nat /\ (count > 0 => (count - 1) * BufferSize < t.len)
    BY <1>1, <1>2, SegmentsCover
  <2> QED
    BY <2>1, Sizes
<1>4. i \in Nat /\ i >= 1 /\ i <= count
  BY <1>3
<1>5. PICK base \in Nat : base = (i - 1) * BufferSize
  BY <1>3, <1>4, Times
<1>6. i < count => base + BufferSize < t.len
  <2> SUFFICES ASSUME i < count PROVE base + BufferSize < t.len
    OBVIOUS
  <2>1. PICK bound \in Nat : bound = (count - 1) * BufferSize
    BY <1>3, <1>4, Times
  <2>2. base + BufferSize <= bound
    BY <1>3, <1>4, <1>5, <2>1, Times
  <2> QED
    BY <1>3, <2>1, <2>2, <1>2
<1>7. PICK n \in Int : n = IF i < count THEN BufferSize ELSE t.len - base
  BY <1>2, <1>3
<1>8. Geometry!CopiedIn(i, count)
        = [x \in Geometry!InBuffer |-> IF x < n THEN buf[t.buf + base + x] ELSE -1]
  BY <1>2, <1>5, <1>7 DEF Geometry!CopiedIn, Geometry!Garbage
<1>9. ASSUME NEW x \in Geometry!InBuffer
      PROVE  /\ x \in Nat /\ (x < n <=> (x < BufferSize /\ base + x < t.len))
             /\ x < BufferSize
  <2>1. x \in Nat /\ x < BufferSize
    BY <1>3 DEF Geometry!InBuffer
  <2>2. base \in Nat /\ t.len \in Nat /\ BufferSize \in Nat
    BY <1>2, <1>3, <1>5
  <2>3. CASE i < count
    <3>1. n = BufferSize /\ base + BufferSize < t.len
      BY <1>6, <1>7, <2>3
    <3> QED
      BY <2>1, <2>2, <3>1
  <2>4. CASE ~ (i < count)
    <3>1. n = t.len - base
      BY <1>7, <2>4
    <3> QED
      BY <2>1, <2>2, <3>1
  <2> QED
    BY <2>3, <2>4
<1>10. ASSUME NEW x \in Geometry!InBuffer, base + x < t.len
       PROVE  buf[t.buf + base + x] = DeviceSize + t.buf + (base + x)
  <2>1. x \in Nat
    BY <1>9
  <2>5. base \in Nat /\ base + x < t.len
    BY <1>5, <1>10
  <2>6. t.buf \in Nat /\ t.buf + t.len <= DeviceSize /\ t.len \in Nat /\ DeviceSize \in Nat
    BY <1>2, <1>3
  <2>4. t.buf + base + x \in Nat /\ t.buf + base + x <= DeviceSize
    BY <2>1, <2>5, <2>6
  <2>2. t.buf + base + x \in Geometry!Memory
    <3>1. DeviceSize <= DeviceSize + BufferSize
      BY <1>3
    <3> QED
      BY <1>3, <2>4, <3>1 DEF Geometry!Memory
  <2>3. buf[t.buf + base + x] = DeviceSize + (t.buf + base + x)
    BY <2>2 DEF BufferAt
  <2>7. DeviceSize + (t.buf + base + x) = DeviceSize + t.buf + (base + x)
    BY <2>1, <2>5, <2>6
  <2> QED
    BY <2>3, <2>7
<1>11. ASSUME NEW x \in Geometry!InBuffer, x < n
       PROVE  buf[t.buf + base + x] \in Int
  <2>1. x \in Nat /\ base + x < t.len
    BY <1>9, <1>11
  <2>2. buf[t.buf + base + x] = DeviceSize + t.buf + (base + x)
    BY <1>10, <2>1
  <2>3. base \in Nat /\ t.buf \in Nat /\ DeviceSize \in Nat
    BY <1>2, <1>3, <1>5
  <2> QED
    BY <2>1, <2>2, <2>3
<1>12. Geometry!CopiedIn(i, count) \in [Geometry!InBuffer -> Int]
  BY <1>8, <1>11
<1>13. \A x \in Geometry!InBuffer :
         base + x < t.len => Geometry!CopiedIn(i, count)[x] = DeviceSize + t.buf + (base + x)
  BY <1>8, <1>9, <1>10
<1> QED
  BY <1>1, <1>5, <1>12, <1>13

LEMMA AllocKeeps ==
  ASSUME Geometry!GeometryAssumption, GeometryInv, Geometry!alloc_buf_from_pool
  PROVE  GeometryInv'
<1> USE DEF Splits, Issues
<1>1. PICK t, count : t = tasks[1] /\ count = Geometry!SegmentsFor(t.len)
  OBVIOUS
<1>2. /\ pc = "issue" /\ pc' = "transfer" /\ tasks # << >>
      /\ UNCHANGED <<op, aligned, begin, remain, tmp_off, filled, tasks, sge, child, copy, disk,
                     buf>>
  BY DEF Geometry!alloc_buf_from_pool, Geometry!loop
<1>3. /\ GeometryTypes /\ Underway /\ Line(tasks, Asked(op)) /\ child = [pos |-> 0, end |-> 0]
      /\ Asked(op) \in Nat /\ op.off \in Nat
      /\ BufferAt(Front(tasks, Asked(op)) + Moved) /\ DiskAt(Front(tasks, Asked(op)) + Moved)
  BY <1>2, IssueFacts DEF GeometryInv
<1>4. Geometry!t = t /\ t.len \in Nat /\ count \in Nat /\ t.buf \in Nat
  BY <1>1, <1>2, <1>3, TaskFacts, SegmentsCover
<1>5. segs' = [i \in 1 .. count |-> IF op.cmd = "write" THEN Geometry!CopiedIn(i, count)
                                    ELSE Geometry!Fresh]
  BY <1>1, <1>4 DEF Geometry!alloc_buf_from_pool
<1>6. op.cmd = "write" => BufferAt(0)
  BY <1>3 DEF BufferAt
<1>7. Geometry!Fresh \in [Geometry!InBuffer -> Int]
  BY DEF Geometry!Fresh, Geometry!Garbage
<1>8. \A i \in 1 .. count : segs'[i] \in [Geometry!InBuffer -> Int]
  BY <1>1, <1>2, <1>3, <1>5, <1>6, <1>7, CopiedInFacts
<1>9. segs' \in Seq([Geometry!InBuffer -> Int]) /\ Len(segs') = count
  BY <1>4, <1>5, <1>8
<1>10. op.cmd = "write" => Loaded'
  <2> SUFFICES ASSUME op.cmd = "write", NEW i \in 1 .. count, NEW x \in Geometry!InBuffer,
                      (i - 1) * BufferSize + x < t.len
               PROVE  segs'[i][x] = DeviceSize + t.buf + ((i - 1) * BufferSize + x)
    BY <1>1, <1>2, <1>9 DEF Loaded
  <2>1. segs'[i] = Geometry!CopiedIn(i, count)
    BY <1>5
  <2> QED
    BY <1>1, <1>2, <1>3, <1>6, <2>1, CopiedInFacts
<1>11. op.cmd # "write" => Fetched(child.pos)'
  <2> SUFFICES ASSUME NEW i \in 1 .. count, NEW x \in Geometry!InBuffer
               PROVE  ~ ((i - 1) * BufferSize + x < 0)
    BY <1>2, <1>3, <1>9 DEF Fetched
  <2>1. i - 1 \in Nat /\ x \in Nat
    BY <1>4, Sizes DEF Geometry!InBuffer
  <2>2. PICK base \in Nat : base = (i - 1) * BufferSize
    BY <2>1, Sizes, Times
  <2> QED
    BY <2>1, <2>2
<1>12. Transferring'
  <2>1. InHand'
    BY <1>1, <1>2, <1>9 DEF InHand, Geometry!SegmentsFor
  <2> QED
    BY <1>1, <1>2, <1>3, <1>4, <1>10, <1>11, <2>1 DEF Transferring
<1>13. Underway' /\ Line(tasks, Asked(op))' /\ Front(tasks, Asked(op))' = Front(tasks, Asked(op))
  BY <1>2, <1>3, SameTasks
<1>14. Moved = 0 /\ Moved' = 0
  BY <1>2, <1>3 DEF Moved
<1>15. BufferAt(Front(tasks, Asked(op)) + Moved)' /\ DiskAt(Front(tasks, Asked(op)) + Moved)'
  BY <1>2, <1>3, <1>13, <1>14 DEF BufferAt, DiskAt
<1>16. GeometryTypes'
  BY <1>2, <1>3, <1>9 DEF GeometryTypes
<1> QED
  BY <1>2, <1>12, <1>13, <1>15, <1>16 DEF GeometryInv

(* The side an operation does not write says nothing of how far it is.        *)
LEMMA OtherSide ==
  ASSUME NEW n, NEW k
  PROVE  /\ op.cmd = "write" /\ BufferAt(n) => BufferAt(k)
         /\ op.cmd # "write" /\ DiskAt(n) => DiskAt(k)
BY DEF BufferAt, DiskAt

LEMMA TransferFacts ==
  ASSUME Geometry!GeometryAssumption, GeometryInv, pc = "transfer",
         NEW t, t = tasks[1], NEW m, m = Len(segs)
  PROVE  /\ Geometry!t = t /\ Geometry!nseg = m /\ t \in Task /\ GoodTask(t) /\ Transferring
         /\ t.off \in Nat /\ t.len \in Nat /\ t.buf \in Nat
         /\ m \in Nat /\ m = Geometry!SegmentsFor(t.len) /\ Front(tasks, Asked(op)) = t.buf
         /\ child.pos \in Nat /\ child.end \in Nat /\ sge.idx \in Nat /\ sge.left \in Nat
         /\ child.pos <= child.end /\ child.end <= t.len
<1>1. GeometryTypes /\ Underway /\ Transferring /\ tasks # << >>
  BY DEF GeometryInv, Issues, Transferring, InHand
<1>2. /\ Geometry!t = t /\ t \in Task /\ GoodTask(t) /\ Front(tasks, Asked(op)) = t.buf
      /\ t.off \in Nat /\ t.len \in Nat /\ t.buf \in Nat
  BY <1>1, TaskFacts
<1>3. m \in Nat /\ Geometry!nseg = m
  BY <1>1 DEF GeometryTypes, Geometry!nseg
<1>4. /\ child.pos \in Nat /\ child.end \in Nat /\ sge.idx \in Nat /\ sge.left \in Nat
  BY <1>1 DEF GeometryTypes
<1>5. m = Geometry!SegmentsFor(t.len) /\ child.pos <= child.end /\ child.end <= t.len
  BY <1>1 DEF Transferring, InHand
<1> QED
  BY <1>1, <1>2, <1>3, <1>4, <1>5

(* data_buf_reset_sgl finds the segment that holds the child's first byte.    *)
LEMMA ResetKeeps ==
  ASSUME Geometry!GeometryAssumption, GeometryInv, Geometry!Reset
  PROVE  GeometryInv'
<1> USE DEF Splits, Issues
<1>1. PICK t, m, pos : t = tasks[1] /\ m = Len(segs) /\ pos = child.pos
  OBVIOUS
<1>2. /\ pc = "transfer"
      /\ UNCHANGED <<op, pc, aligned, begin, remain, tmp_off, filled, tasks, segs, copy, disk, buf>>
      /\ sge' = Geometry!data_buf_reset_sgl(pos)
  BY <1>1 DEF Geometry!Reset, Geometry!loop
<1>3. /\ Geometry!t = t /\ Geometry!nseg = m /\ Transferring /\ t.len \in Nat /\ m \in Nat
      /\ m = Geometry!SegmentsFor(t.len) /\ pos \in Nat /\ child.end \in Nat
  BY <1>1, <1>2, TransferFacts
<1>4. /\ GeometryTypes /\ Underway /\ Line(tasks, Asked(op))
      /\ BufferAt(Front(tasks, Asked(op)) + Moved) /\ DiskAt(Front(tasks, Asked(op)) + Moved)
  BY <1>2, IssueFacts
<1>5. PICK n \in Nat : /\ child' = [child EXCEPT !.end = child.end + n] /\ n > 0
                       /\ child.end + n <= t.len /\ pos = child.end /\ pos < t.len
  BY <1>1, <1>3 DEF Geometry!Reset
<1>6. /\ child' \in [pos : Nat, end : Nat] /\ child'.pos = pos /\ child'.end = child.end + n
      /\ pos <= child'.end /\ child'.end <= t.len
  <2>1. child \in [pos : Nat, end : Nat]
    BY <1>4 DEF GeometryTypes
  <2>2. child.end \in Nat /\ n \in Nat
    BY <1>3, <1>5
  <2>3. child.end + n \in Nat /\ child.end <= child.end + n
    BY <2>2
  <2> QED
    BY <1>1, <1>5, <2>1, <2>3
<1>7. PICK q \in Nat, r \in Nat : /\ q = pos \div BufferSize /\ r < BufferSize
                                  /\ pos = q * BufferSize + r /\ q * BufferSize \in Nat
  BY <1>3, Sizes, DivMod
<1>8. PICK base \in Nat, bound \in Nat : base = q * BufferSize /\ bound = m * BufferSize
  BY <1>3, <1>7, Sizes, Times
<1>9. /\ pos = base + r /\ pos < base + BufferSize /\ BufferSize \in Nat /\ BufferSize > 0
      /\ (q + 1) * BufferSize = base + BufferSize /\ t.len <= bound
  <2>1. t.len <= bound
    BY <1>3, <1>8, SegmentsCover
  <2>2. (q + 1) * BufferSize = base + BufferSize
    BY <1>8, Sizes, Times
  <2>3. BufferSize \in Nat /\ BufferSize > 0
    BY Sizes
  <2>4. pos = base + r
    BY <1>7, <1>8
  <2>5. pos < base + BufferSize
    <3>1. r \in Nat /\ r < BufferSize
      BY <1>7
    <3> QED
      BY <2>3, <2>4, <3>1
  <2> QED
    BY <2>1, <2>2, <2>3, <2>4, <2>5
<1>10. q < m
  <2>1. m < q => bound + BufferSize <= base
    BY <1>3, <1>8, Sizes, Times
  <2>2. base < bound
    BY <1>3, <1>5, <1>9
  <2>3. ~ (m < q) /\ m # q
    BY <1>8, <1>9, <2>1, <2>2
  <2> QED
    BY <1>3, <2>3
<1>11. PICK e \in Nat : e = Geometry!Smaller(base + BufferSize, t.len)
  BY <1>3, <1>9 DEF Geometry!Smaller
<1>12. e - pos \in Nat /\ e - pos # 0 /\ pos + (e - pos) = e
  BY <1>3, <1>5, <1>9, <1>11 DEF Geometry!Smaller
<1>13. sge' = [idx |-> q, left |-> e - pos]
  BY <1>2, <1>3, <1>7, <1>9, <1>10, <1>11 DEF Geometry!data_buf_reset_sgl
<1>14. SglInPlace'
  <2>1. base <= pos
    BY <1>9
  <2>2. (sge').idx = q /\ (sge').left = e - pos /\ (child').pos = pos
    BY <1>6, <1>13
  <2>3. (tasks')[1] = t /\ Len(segs') = m
    BY <1>1, <1>2
  <2>4. e = Geometry!Smaller((q + 1) * BufferSize, t.len) /\ q * BufferSize <= pos
    BY <1>8, <1>9, <1>11, <2>1
  <2> QED
    BY <1>10, <1>12, <2>2, <2>3, <2>4 DEF SglInPlace, Geometry!Smaller
<1>15. Transferring'
  <2>1. InHand'
    BY <1>2, <1>3 DEF Transferring, InHand, Geometry!SegmentsFor
  <2>2. (op.cmd = "write" => Loaded') /\ (op.cmd # "write" => Fetched(child.pos)')
    BY <1>1, <1>2, <1>3, <1>6 DEF Transferring, Loaded, Fetched
  <2> QED
    BY <1>1, <1>2, <1>6, <1>14, <2>1, <2>2 DEF Transferring
<1>16. Underway' /\ Line(tasks, Asked(op))' /\ Front(tasks, Asked(op))' = Front(tasks, Asked(op))
  BY <1>2, <1>4, SameTasks
<1>17. Moved' = Moved
  BY <1>1, <1>2, <1>6 DEF Moved
<1>18. BufferAt(Front(tasks, Asked(op)) + Moved)' /\ DiskAt(Front(tasks, Asked(op)) + Moved)'
  BY <1>2, <1>4, <1>16, <1>17 DEF BufferAt, DiskAt
<1>19. GeometryTypes'
  BY <1>2, <1>4, <1>6, <1>12, <1>13 DEF GeometryTypes
<1> QED
  BY <1>2, <1>15, <1>16, <1>18, <1>19 DEF GeometryInv

(* The bytes of a segment that belong to the task.                            *)
LEMMA PieceSize ==
  ASSUME Geometry!GeometryAssumption, NEW len \in Nat, len = Geometry!t.len,
         NEW m, m = Geometry!nseg, m = Geometry!SegmentsFor(len),
         NEW idx \in Nat, idx < m, NEW base \in Nat, base = idx * BufferSize
  PROVE  /\ Geometry!piece_size(idx) = Geometry!Smaller(base + BufferSize, len) - base
         /\ base < len
<1>1. /\ m \in Nat /\ len <= m * BufferSize /\ (m - 1) * BufferSize < len
      /\ len % BufferSize # 0 => len % BufferSize = len - (m - 1) * BufferSize
      /\ len % BufferSize = 0 => len = m * BufferSize
  BY SegmentsCover
<1>2. BufferSize \in Nat /\ BufferSize > 0
  BY Sizes
<1>3. CASE idx = m - 1
  <2>1. m * BufferSize = base + BufferSize /\ (m - 1) * BufferSize = base /\ m = idx + 1
    BY <1>1, <1>2, <1>3, Times
  <2>2. PICK r : r = len % BufferSize
    OBVIOUS
  <2>3. /\ Geometry!piece_size(idx) = IF r # 0 THEN r ELSE BufferSize
        /\ base < len /\ len <= base + BufferSize
        /\ (r # 0 => r = len - base) /\ (r = 0 => len = base + BufferSize)
    BY <1>1, <1>3, <2>1, <2>2 DEF Geometry!piece_size
  <2> QED
    BY <1>2, <2>3 DEF Geometry!Smaller
<1>4. CASE idx # m - 1
  <2>1. m - 1 \in Nat /\ idx < m - 1
    BY <1>1, <1>4
  <2>2. PICK bound \in Nat : bound = (m - 1) * BufferSize
    BY <1>2, <2>1, Times
  <2>3. base + BufferSize <= bound
    BY <1>2, <2>1, <2>2, Times
  <2>4. base + BufferSize < len /\ base < len
    <3>1. bound < len
      BY <1>1, <2>2
    <3>2. bound \in Nat
      BY <2>2
    <3> QED
      BY <1>2, <2>3, <3>1, <3>2
  <2>5. Geometry!piece_size(idx) = BufferSize
    BY <1>4 DEF Geometry!piece_size
  <2> QED
    BY <1>2, <2>4, <2>5 DEF Geometry!Smaller
<1> QED
  BY <1>3, <1>4

(* What spdk is told: the bytes from the child's next one to the end of their *)
(* segment, and never none.                                                  *)
LEMMA SglFacts ==
  ASSUME Geometry!GeometryAssumption, GeometryInv, pc = "transfer", child.pos < child.end,
         NEW base, base = sge.idx * BufferSize,
         NEW e, e = Geometry!Smaller(base + BufferSize, tasks[1].len)
  PROVE  /\ base \in Nat /\ e \in Nat /\ sge.idx < Len(segs)
         /\ base <= child.pos /\ child.pos < e /\ e <= base + BufferSize /\ e <= tasks[1].len
         /\ Geometry!Address = child.pos - base /\ Geometry!Length = e - child.pos
<1>1. PICK t, m, pos : t = tasks[1] /\ m = Len(segs) /\ pos = child.pos
  OBVIOUS
<1>2. /\ Geometry!t = t /\ Geometry!nseg = m /\ t.len \in Nat /\ m \in Nat
      /\ m = Geometry!SegmentsFor(t.len) /\ pos \in Nat /\ child.end \in Nat
      /\ sge.idx \in Nat /\ sge.left \in Nat /\ child.end <= t.len /\ SglInPlace
  <2>1. Transferring
    BY <1>1, TransferFacts
  <2>2. SglInPlace
    BY <2>1 DEF Transferring
  <2> QED
    BY <1>1, <2>2, TransferFacts
<1>3. BufferSize \in Nat /\ BufferSize > 0
  BY Sizes
<1>4. base \in Nat /\ (sge.idx + 1) * BufferSize = base + BufferSize
  BY <1>2, <1>3, Times
<1>5. /\ sge.idx < m /\ base <= pos
      /\ IF sge.left # 0 THEN pos + sge.left = e ELSE pos = base
  BY <1>1, <1>2, <1>4 DEF SglInPlace
<1>6. /\ Geometry!piece_size(sge.idx) = e - base /\ base < t.len
  BY <1>1, <1>2, <1>4, <1>5, PieceSize
<1>7. e \in Nat /\ e <= base + BufferSize /\ e <= t.len /\ base < e
  <2>1. e = Geometry!Smaller(base + BufferSize, t.len)
    BY <1>1
  <2> QED
    <3>1. base < t.len /\ base \in Nat /\ t.len \in Nat
      BY <1>2, <1>4, <1>6
    <3> QED
      BY <1>3, <2>1, <3>1 DEF Geometry!Smaller
<1>8. CASE sge.left # 0
  <2>1. Geometry!Address = (e - base) - sge.left /\ Geometry!Length = sge.left
    BY <1>2, <1>5, <1>6, <1>8 DEF Geometry!Address, Geometry!Length
  <2>2. pos < e /\ (e - base) - sge.left = pos - base /\ sge.left = e - pos
    BY <1>2, <1>4, <1>5, <1>7, <1>8
  <2> QED
    BY <1>1, <1>4, <1>5, <1>7, <2>1, <2>2
<1>9. CASE sge.left = 0
  <2>1. Geometry!Address = 0 /\ Geometry!Length = e - base
    BY <1>2, <1>5, <1>6, <1>9 DEF Geometry!Address, Geometry!Length
  <2>2. pos < e /\ 0 = pos - base /\ e - base = e - pos
    BY <1>2, <1>4, <1>5, <1>7, <1>9
  <2> QED
    BY <1>1, <1>4, <1>5, <1>7, <2>1, <2>2
<1> QED
  BY <1>8, <1>9

(* The byte at y of the device, of a task that begins at off, in the piece    *)
(* from pos of the segment that begins at a.                                 *)
LEMMA WhereInPiece ==
  ASSUME NEW off \in Nat, NEW len \in Nat, NEW pos \in Nat, NEW base \in Nat, NEW e \in Nat,
         NEW n \in Nat, NEW d \in Nat, NEW y \in Nat,
         base <= pos, pos + n <= e, e <= base + d, e <= len,
         NEW at, at = off + pos, y \in at .. at + n - 1, NEW x, x = (pos - base) + y - at
  PROVE  x \in Nat /\ x < d /\ base + x < len /\ base + x = y - off
OBVIOUS

LEMMA OnePieceMore ==
  ASSUME NEW off \in Nat, NEW begins \in Nat, NEW pos \in Nat, NEW n \in Nat, NEW y \in Nat,
         NEW at, at = (off + begins) + pos
  PROVE  /\ y \in at .. at + n - 1 => y - off \in 0 .. (begins + (pos + n)) - 1
         /\ y \notin at .. at + n - 1 =>
              (y - off \in 0 .. (begins + (pos + n)) - 1 <=> y - off \in 0 .. (begins + pos) - 1)
OBVIOUS

(* The controller moves a piece: in a write, its bytes are the next ones of   *)
(* the operation, ...                                                        *)
LEMMA PieceWritten ==
  ASSUME Geometry!GeometryAssumption, GeometryInv, Geometry!data_buf_next_sge, op.cmd = "write",
         NEW n, n = Geometry!Smaller(Geometry!Length, child.end - child.pos),
         NEW to, to = tasks[1].buf + (child.pos + n)
  PROVE  DiskAt(to)'
<1>1. PICK t, pos, base, e : /\ t = tasks[1] /\ pos = child.pos /\ base = sge.idx * BufferSize
                             /\ e = Geometry!Smaller(base + BufferSize, t.len)
  OBVIOUS
<1>2. PICK at : at = t.off + pos
  OBVIOUS
<1>3. /\ pc = "transfer" /\ child.pos < child.end /\ UNCHANGED <<op, tasks>>
  BY DEF Geometry!data_buf_next_sge
<1>4. /\ Geometry!t = t /\ GoodTask(t) /\ Transferring
      /\ t.len \in Nat /\ t.off \in Nat /\ t.buf \in Nat
      /\ pos \in Nat /\ child.end \in Nat /\ child.end <= t.len
      /\ sge.idx \in Nat /\ Len(segs) \in Nat /\ Front(tasks, Asked(op)) = t.buf
  BY <1>1, <1>3, TransferFacts
<1>5. /\ base \in Nat /\ e \in Nat /\ sge.idx < Len(segs) /\ base <= pos /\ pos < e
      /\ e <= base + BufferSize /\ e <= t.len
      /\ Geometry!Address = pos - base /\ Geometry!Length = e - pos
  BY <1>1, <1>3, SglFacts
<1>6. n \in Nat /\ n > 0 /\ pos + n <= e
  <2>1. pos < child.end
    BY <1>1, <1>3
  <2>2. n = Geometry!Smaller(e - pos, child.end - pos)
    BY <1>1, <1>5
  <2>3. e \in Nat /\ child.end \in Nat /\ pos \in Nat /\ pos < e
    BY <1>4, <1>5
  <2> QED
    BY <2>1, <2>2, <2>3 DEF Geometry!Smaller
<1>7. /\ op.off \in Nat /\ Asked(op) \in Nat /\ t.off = op.off + t.buf
      /\ DiskAt(t.buf + pos) /\ Loaded
      /\ BufferSize \in Nat /\ DeviceSize \in Nat
  <2>1. Moved = pos
    BY <1>1, <1>3 DEF Moved
  <2>2. DiskAt(t.buf + pos)
    BY <1>3, <1>4, <2>1, IssueFacts DEF Issues
  <2>3. t.off = op.off + t.buf
    BY <1>4 DEF GoodTask
  <2>4. Loaded
    BY <1>4 DEF Transferring
  <2>5. op.off \in Nat /\ Asked(op) \in Nat
    BY <1>3, IssueFacts DEF Issues
  <2> QED
    BY <2>2, <2>3, <2>4, <2>5, Sizes
<1>8. disk' = [y \in Geometry!Device |->
                 IF y \in at .. at + n - 1
                   THEN Geometry!ByteAt((pos - base) + y - at) ELSE disk[y]]
  BY <1>1, <1>2, <1>4, <1>5 DEF Geometry!data_buf_next_sge
<1>a. ASSUME NEW y \in Geometry!Device
      PROVE  y \in Nat
  BY <1>7 DEF Geometry!Device
<1>9. ASSUME NEW y \in Geometry!Device, y \in at .. at + n - 1
      PROVE  Geometry!ByteAt((pos - base) + y - at) = DeviceSize + (y - op.off)
  <2>1. PICK x : x = (pos - base) + y - at
    OBVIOUS
  <2>2. x \in Nat /\ x < BufferSize /\ base + x < t.len /\ base + x = y - t.off
    <3>1. /\ y \in Nat /\ t.off \in Nat /\ t.len \in Nat /\ pos \in Nat /\ base \in Nat /\ e \in Nat
          /\ n \in Nat /\ BufferSize \in Nat
          /\ base <= pos /\ pos + n <= e /\ e <= base + BufferSize /\ e <= t.len
      BY <1>4, <1>5, <1>6, <1>7, <1>a
    <3> QED
      BY <1>2, <1>9, <2>1, <3>1, WhereInPiece
  <2>7. x \in Geometry!InBuffer
    BY <1>7, <2>2 DEF Geometry!InBuffer
  <2>8. Geometry!ByteAt(x) = segs[sge.idx + 1][x]
    BY <2>7 DEF Geometry!ByteAt
  <2>9. segs[sge.idx + 1][x] = DeviceSize + t.buf + (base + x)
    <3>3. sge.idx \in Nat /\ Len(segs) \in Nat /\ sge.idx < Len(segs)
      BY <1>4, <1>5
    <3>1. sge.idx + 1 \in 1 .. Len(segs) /\ (sge.idx + 1) - 1 = sge.idx
      BY <3>3
    <3>2. ((sge.idx + 1) - 1) * BufferSize = base
      BY <1>1, <3>1
    <3> QED
      BY <1>1, <1>7, <2>2, <2>7, <3>1, <3>2 DEF Loaded
  <2>10. DeviceSize + t.buf + (base + x) = DeviceSize + (y - op.off)
    <3>1. /\ y \in Nat /\ t.buf \in Nat /\ op.off \in Nat /\ DeviceSize \in Nat
          /\ base + x = y - (op.off + t.buf)
      BY <1>4, <1>7, <1>a, <2>2
    <3> QED
      BY <3>1
  <2> QED
    BY <2>1, <2>8, <2>9, <2>10
<1>10. ASSUME NEW y \in Geometry!Device
       PROVE  disk'[y] = IF y - op.off \in 0 .. (t.buf + (pos + n)) - 1
                           THEN DeviceSize + (y - op.off) ELSE y
  <2>1. /\ y \in at .. at + n - 1 => y - op.off \in 0 .. (t.buf + (pos + n)) - 1
        /\ y \notin at .. at + n - 1 =>
             (y - op.off \in 0 .. (t.buf + (pos + n)) - 1 <=> y - op.off \in 0 .. (t.buf + pos) - 1)
    <3>1. /\ y \in Nat /\ op.off \in Nat /\ t.buf \in Nat /\ pos \in Nat /\ n \in Nat
          /\ at = (op.off + t.buf) + pos
      BY <1>2, <1>4, <1>6, <1>7, <1>a
    <3> QED
      BY <3>1, OnePieceMore
  <2>2. disk[y] = IF y - op.off \in 0 .. (t.buf + pos) - 1 THEN DeviceSize + (y - op.off) ELSE y
    BY <1>7 DEF DiskAt
  <2>3. CASE y \in at .. at + n - 1
    BY <1>8, <1>9, <2>1, <2>3
  <2>4. CASE y \notin at .. at + n - 1
    BY <1>8, <2>1, <2>2, <2>4
  <2> QED
    BY <2>3, <2>4
<1> QED
  <2> SUFFICES ASSUME NEW y \in Geometry!Device
               PROVE  disk'[y] = IF y - op.off \in 0 .. (t.buf + (pos + n)) - 1
                                   THEN DeviceSize + (y - op.off) ELSE y
    BY <1>1, <1>3 DEF DiskAt
  <2> QED
    BY <1>10

LEMMA WhereOnDevice ==
  ASSUME NEW off \in Nat, NEW len \in Nat, NEW pos \in Nat, NEW base \in Nat, NEW e \in Nat,
         NEW n \in Nat, NEW size \in Nat, NEW x \in Nat,
         base <= pos, pos + n <= e, e <= len, off + len <= size, base + x < pos + n
  PROVE  /\ x \in pos - base .. (pos - base) + n - 1 =>
              /\ (off + pos) + x - (pos - base) = off + (base + x)
              /\ off + (base + x) \in 0 .. size - 1
         /\ x \notin pos - base .. (pos - base) + n - 1 => base + x < pos
OBVIOUS

(* ... and in a read it fetches the next ones of the task.                    *)
LEMMA PieceFetched ==
  ASSUME Geometry!GeometryAssumption, GeometryInv, Geometry!data_buf_next_sge, op.cmd # "write",
         NEW n, n = Geometry!Smaller(Geometry!Length, child.end - child.pos),
         NEW to, to = child.pos + n
  PROVE  /\ Fetched(to)'
         /\ segs' \in Seq([Geometry!InBuffer -> Int]) /\ Len(segs') = Len(segs)
<1>1. PICK t, m, pos, base, e : /\ t = tasks[1] /\ m = Len(segs) /\ pos = child.pos
                                /\ base = sge.idx * BufferSize
                                /\ e = Geometry!Smaller(base + BufferSize, t.len)
  OBVIOUS
<1>2. /\ pc = "transfer" /\ child.pos < child.end /\ UNCHANGED <<op, tasks>>
  BY DEF Geometry!data_buf_next_sge
<1>3. /\ Geometry!t = t /\ GoodTask(t) /\ Transferring
      /\ t.len \in Nat /\ t.off \in Nat /\ m \in Nat
      /\ pos \in Nat /\ child.end \in Nat /\ child.end <= t.len /\ sge.idx \in Nat
  BY <1>1, <1>2, TransferFacts
<1>4. /\ base \in Nat /\ e \in Nat /\ sge.idx < m /\ base <= pos /\ pos < e
      /\ e <= base + BufferSize /\ e <= t.len
      /\ Geometry!Address = pos - base /\ Geometry!Length = e - pos
  BY <1>1, <1>2, SglFacts
<1>5. n \in Nat /\ n > 0 /\ pos + n <= e
  <2>1. pos < child.end
    BY <1>1, <1>2
  <2>2. n = Geometry!Smaller(e - pos, child.end - pos)
    BY <1>1, <1>4
  <2>3. e \in Nat /\ child.end \in Nat /\ pos \in Nat /\ pos < e
    BY <1>3, <1>4
  <2> QED
    BY <2>1, <2>2, <2>3 DEF Geometry!Smaller
<1>6. /\ Fetched(pos) /\ segs \in Seq([Geometry!InBuffer -> Int])
      /\ \A y \in Geometry!Device : disk[y] = y
      /\ t.off + t.len <= DeviceSize /\ BufferSize \in Nat /\ BufferSize > 0 /\ DeviceSize \in Nat
  <2>1. GeometryTypes /\ DiskAt(Front(tasks, Asked(op)) + Moved)
    BY <1>2, IssueFacts DEF Issues
  <2>2. Fetched(pos)
    BY <1>1, <1>3 DEF Transferring
  <2> QED
    BY <1>3, <2>1, <2>2, Sizes DEF GeometryTypes, DiskAt, GoodTask
<1>7. PICK i : i = sge.idx + 1
  OBVIOUS
<1>8. i \in 1 .. m /\ i - 1 = sge.idx
  <2>1. sge.idx \in Nat /\ m \in Nat /\ sge.idx < m
    BY <1>3, <1>4
  <2> QED
    BY <1>7, <2>1
<1>9. PICK new : /\ new = [x \in Geometry!InBuffer |->
                             IF x \in pos - base .. (pos - base) + n - 1
                               THEN disk[(t.off + pos) + x - (pos - base)] ELSE segs[i][x]]
                 /\ segs' = [segs EXCEPT ![i] = new]
  BY <1>1, <1>3, <1>4, <1>7 DEF Geometry!data_buf_next_sge
<1>10. ASSUME NEW x \in Geometry!InBuffer
       PROVE  x \in Nat /\ x < BufferSize
  BY <1>6 DEF Geometry!InBuffer
<1>11. ASSUME NEW x \in Geometry!InBuffer, base + x < pos + n
       PROVE  new[x] = t.off + (base + x)
  <2>1. /\ x \in pos - base .. (pos - base) + n - 1 =>
             /\ (t.off + pos) + x - (pos - base) = t.off + (base + x)
             /\ t.off + (base + x) \in 0 .. DeviceSize - 1
        /\ x \notin pos - base .. (pos - base) + n - 1 => base + x < pos
    <3>1. /\ x \in Nat /\ t.off \in Nat /\ t.len \in Nat /\ pos \in Nat /\ base \in Nat /\ e \in Nat
          /\ n \in Nat /\ DeviceSize \in Nat
          /\ base <= pos /\ pos + n <= e /\ e <= t.len /\ t.off + t.len <= DeviceSize
      BY <1>3, <1>4, <1>5, <1>6, <1>10
    <3> QED
      BY <1>11, <3>1, WhereOnDevice
  <2>2. CASE x \in pos - base .. (pos - base) + n - 1
    BY <1>6, <1>9, <2>1, <2>2 DEF Geometry!Device
  <2>3. CASE x \notin pos - base .. (pos - base) + n - 1
    <3>1. new[x] = segs[i][x]
      BY <1>9, <2>3
    <3>2. (i - 1) * BufferSize = base
      BY <1>1, <1>8
    <3> QED
      BY <1>1, <1>6, <1>8, <2>1, <2>3, <3>1, <3>2 DEF Fetched
  <2> QED
    BY <2>2, <2>3
<1>12. new \in [Geometry!InBuffer -> Int]
  <2> SUFFICES ASSUME NEW x \in Geometry!InBuffer
               PROVE  (IF x \in pos - base .. (pos - base) + n - 1
                         THEN disk[(t.off + pos) + x - (pos - base)] ELSE segs[i][x]) \in Int
    BY <1>9
  <2>1. CASE x \in pos - base .. (pos - base) + n - 1
    <3>1. base + x < pos + n
      <4>1. x \in Nat /\ base \in Nat /\ pos \in Nat /\ n \in Nat
        BY <1>3, <1>4, <1>5, <1>10
      <4> QED
        BY <2>1, <4>1
    <3>2. new[x] = t.off + (base + x)
      BY <1>11, <3>1
    <3>3. t.off + (base + x) \in Int
      <4>1. x \in Nat /\ base \in Nat /\ t.off \in Nat
        BY <1>3, <1>4, <1>10
      <4> QED
        BY <4>1
    <3> QED
      BY <1>9, <2>1, <3>2, <3>3
  <2>2. CASE x \notin pos - base .. (pos - base) + n - 1
    <3>1. segs[i] \in [Geometry!InBuffer -> Int]
      BY <1>1, <1>6, <1>8
    <3> QED
      BY <2>2, <3>1
  <2> QED
    BY <2>1, <2>2
<1>13. /\ segs' \in Seq([Geometry!InBuffer -> Int]) /\ Len(segs') = m
       /\ segs'[i] = new /\ \A j \in 1 .. m : j # i => segs'[j] = segs[j]
  <2>1. segs \in Seq([Geometry!InBuffer -> Int]) /\ i \in 1 .. Len(segs)
    BY <1>1, <1>6, <1>8
  <2>2. /\ segs' \in Seq([Geometry!InBuffer -> Int]) /\ Len(segs') = Len(segs)
        /\ \A j \in 1 .. Len(segs) : segs'[j] = IF j = i THEN new ELSE segs[j]
    BY <1>9, <1>12, <2>1, ExceptSeq
  <2> QED
    BY <1>1, <1>8, <2>2
<1>14. ASSUME NEW j \in 1 .. m, NEW x \in Geometry!InBuffer, (j - 1) * BufferSize + x < to
       PROVE  segs'[j][x] = t.off + ((j - 1) * BufferSize + x)
  <2>1. PICK bound \in Nat : bound = (j - 1) * BufferSize
    BY <1>3, <1>6, Times
  <2>2. bound + x < pos + n
    BY <1>1, <1>14, <2>1
  <2>3. CASE j = i
    <3>1. bound = base
      BY <1>1, <1>8, <2>1, <2>3
    <3> QED
      BY <1>11, <1>13, <2>1, <2>2, <2>3, <3>1
  <2>4. CASE j # i
    <3>0. /\ i - 1 \in Nat /\ j - 1 \in Nat /\ base = (i - 1) * BufferSize
          /\ BufferSize \in Nat /\ BufferSize > 0
      BY <1>1, <1>3, <1>6, <1>8
    <3>1. ~ (i - 1 < j - 1)
      <4>1. i - 1 < j - 1 => base + BufferSize <= bound
        BY <2>1, <3>0, Times
      <4>2. x \in Nat /\ base \in Nat /\ bound \in Nat /\ pos \in Nat /\ n \in Nat /\ e \in Nat
            /\ BufferSize \in Nat
        BY <1>3, <1>4, <1>5, <1>6, <1>10, <2>1
      <4>3. ~ (base + BufferSize <= bound)
        BY <1>4, <1>5, <2>2, <4>2
      <4> QED
        BY <4>1, <4>3
    <3>2. j - 1 < i - 1
      BY <1>3, <1>8, <2>4, <3>1
    <3>3. bound + BufferSize <= base
      BY <2>1, <3>0, <3>2, Times
    <3>4. bound + x < pos
      <4>1. /\ x \in Nat /\ x < BufferSize /\ base \in Nat /\ bound \in Nat /\ pos \in Nat
            /\ base <= pos /\ BufferSize \in Nat
        BY <1>3, <1>4, <1>6, <1>10, <2>1
      <4> QED
        BY <3>3, <4>1
    <3>5. segs[j][x] = t.off + (bound + x)
      BY <1>1, <1>6, <2>1, <3>4 DEF Fetched
    <3> QED
      BY <1>13, <2>1, <2>4, <3>5
  <2> QED
    BY <2>3, <2>4
<1> QED
  BY <1>1, <1>2, <1>13, <1>14 DEF Fetched

LEMMA SgeKeeps ==
  ASSUME Geometry!GeometryAssumption, GeometryInv, Geometry!data_buf_next_sge
  PROVE  GeometryInv'
<1> USE DEF Splits, Issues
<1>1. PICK t, m, pos, base, e : /\ t = tasks[1] /\ m = Len(segs) /\ pos = child.pos
                                /\ base = sge.idx * BufferSize
                                /\ e = Geometry!Smaller(base + BufferSize, t.len)
  OBVIOUS
<1>2. PICK n : n = Geometry!Smaller(Geometry!Length, child.end - child.pos)
  OBVIOUS
<1>3. /\ pc = "transfer" /\ child.pos < child.end
      /\ UNCHANGED <<op, pc, aligned, begin, remain, tmp_off, filled, tasks, copy, buf>>
      /\ child' = [child EXCEPT !.pos = child.pos + n]
      /\ sge' = [idx |-> sge.idx + 1, left |-> 0]
      /\ op.cmd = "write" => segs' = segs
      /\ op.cmd # "write" => disk' = disk
  BY <1>2 DEF Geometry!data_buf_next_sge, Geometry!loop
<1>4. /\ Transferring /\ t.len \in Nat /\ m \in Nat /\ m = Geometry!SegmentsFor(t.len)
      /\ pos \in Nat /\ child.end \in Nat /\ child.end <= t.len /\ sge.idx \in Nat
      /\ t.buf \in Nat /\ Front(tasks, Asked(op)) = t.buf
  BY <1>1, <1>3, TransferFacts
<1>5. /\ GeometryTypes /\ Underway /\ Line(tasks, Asked(op))
      /\ BufferAt(Front(tasks, Asked(op)) + Moved) /\ DiskAt(Front(tasks, Asked(op)) + Moved)
  BY <1>3, IssueFacts
<1>6. /\ base \in Nat /\ e \in Nat /\ sge.idx < m /\ base <= pos /\ pos < e
      /\ e <= base + BufferSize /\ e <= t.len /\ Geometry!Length = e - pos
  BY <1>1, <1>3, SglFacts
<1>7. /\ n \in Nat /\ pos + n <= e /\ pos + n <= child.end
      /\ pos + n < child.end => pos + n = e
  <2>1. n = Geometry!Smaller(e - pos, child.end - pos) /\ pos < child.end
    BY <1>1, <1>2, <1>3, <1>6
  <2>2. e \in Nat /\ child.end \in Nat /\ pos \in Nat /\ pos < e
    BY <1>4, <1>6
  <2> QED
    BY <2>1, <2>2 DEF Geometry!Smaller
<1>8. /\ child' \in [pos : Nat, end : Nat]
      /\ (child').pos = pos + n /\ (child').end = child.end
  <2>1. child \in [pos : Nat, end : Nat] /\ pos + n \in Nat
    BY <1>4, <1>5, <1>7 DEF GeometryTypes
  <2> QED
    BY <1>1, <1>3, <2>1
<1>9. PICK next : next = sge.idx + 1
  OBVIOUS
<1>10. next \in Nat /\ sge' = [idx |-> next, left |-> 0] /\ (sge').idx = next /\ (sge').left = 0
  BY <1>3, <1>4, <1>9
<1>11. segs' \in Seq([Geometry!InBuffer -> Int]) /\ Len(segs') = m
  BY <1>1, <1>2, <1>3, <1>5, PieceFetched DEF GeometryTypes
<1>12. SglInPlace' \/ ~ (child.pos < child.end)'
  <2> SUFFICES ASSUME pos + n < child.end PROVE SglInPlace'
    BY <1>8
  <2>1. BufferSize \in Nat /\ BufferSize > 0
    BY Sizes
  <2>2. next * BufferSize = base + BufferSize
    BY <1>1, <1>4, <1>9, <2>1, Times
  <2>3. pos + n = e /\ e < t.len /\ e = base + BufferSize
    <3>1. pos + n = e /\ e < child.end /\ child.end <= t.len
      BY <1>4, <1>7
    <3>2. e < t.len
      BY <1>4, <1>6, <3>1
    <3> QED
      BY <1>1, <1>4, <1>6, <2>1, <3>1, <3>2 DEF Geometry!Smaller
  <2>4. next < m
    <3>1. PICK bound \in Nat : bound = m * BufferSize
      BY <1>4, <2>1, Times
    <3>2. t.len <= bound
      BY <1>4, <3>1, SegmentsCover
    <3>3. next # m
      BY <1>4, <1>6, <2>2, <2>3, <3>1, <3>2
    <3>4. next <= m
      BY <1>4, <1>6, <1>9
    <3> QED
      BY <1>4, <1>10, <3>3, <3>4
  <2>5. (child').pos = next * BufferSize /\ next * BufferSize <= (child').pos
    BY <1>6, <1>8, <2>1, <2>2, <2>3
  <2> QED
    BY <1>10, <1>11, <2>4, <2>5 DEF SglInPlace
<1>13. Transferring'
  <2>1. InHand'
    BY <1>3, <1>4, <1>11, <1>1 DEF Transferring, InHand, Geometry!SegmentsFor
  <2>2. (op.cmd = "write")' => Loaded'
    BY <1>3, <1>4 DEF Transferring, Loaded
  <2>3. (op.cmd # "write")' => Fetched(child.pos)'
    <3>1. op.cmd # "write" => Fetched(pos + n)'
      BY <1>1, <1>2, PieceFetched
    <3> QED
      BY <1>3, <1>8, <3>1 DEF Fetched
  <2>4. (child').pos <= (child').end /\ (child').end <= (tasks')[1].len
    BY <1>1, <1>3, <1>4, <1>7, <1>8
  <2> QED
    BY <1>12, <2>1, <2>2, <2>3, <2>4 DEF Transferring
<1>14. Underway' /\ Line(tasks, Asked(op))' /\ Front(tasks, Asked(op))' = Front(tasks, Asked(op))
  BY <1>3, <1>5, SameTasks
<1>15. Moved' = (IF op.cmd = "write" THEN pos + n ELSE 0)
       /\ (op.cmd # "write" => Moved = 0)
  BY <1>3, <1>8 DEF Moved
<1>16. BufferAt(Front(tasks, Asked(op)) + Moved)'
  <2>1. CASE op.cmd = "write"
    <3>1. BufferAt(t.buf + (pos + n))
      BY <1>5, <2>1, OtherSide
    <3> QED
      BY <1>3, <1>4, <1>14, <1>15, <2>1, <3>1 DEF BufferAt
  <2>2. CASE op.cmd # "write"
    BY <1>3, <1>5, <1>14, <1>15, <2>2 DEF BufferAt
  <2> QED
    BY <2>1, <2>2
<1>17. DiskAt(Front(tasks, Asked(op)) + Moved)'
  <2>1. CASE op.cmd = "write"
    <3>1. PICK to : to = t.buf + (pos + n)
      OBVIOUS
    <3>2. DiskAt(to)'
      BY <1>1, <1>2, <2>1, <3>1, PieceWritten
    <3>3. (Front(tasks, Asked(op)) + Moved)' = to
      BY <1>4, <1>14, <1>15, <2>1, <3>1
    <3> QED
      BY <3>2, <3>3 DEF DiskAt
  <2>2. CASE op.cmd # "write"
    BY <1>3, <1>5, <1>14, <1>15, <2>2 DEF DiskAt
  <2> QED
    BY <2>1, <2>2
<1>18. GeometryTypes'
  BY <1>3, <1>5, <1>8, <1>10, <1>11 DEF GeometryTypes
<1> QED
  BY <1>3, <1>13, <1>14, <1>16, <1>17, <1>18 DEF GeometryInv

LEMMA CompleteKeeps ==
  ASSUME Geometry!GeometryAssumption, GeometryInv, Geometry!io_complete
  PROVE  GeometryInv'
<1> USE DEF Splits, Issues
<1>1. PICK t : t = tasks[1]
  OBVIOUS
<1>2. /\ pc = "transfer" /\ child' = [pos |-> 0, end |-> 0] /\ sge' = [idx |-> 0, left |-> 0]
      /\ UNCHANGED <<op, aligned, begin, remain, tmp_off, filled, tasks, segs, disk, buf>>
  BY DEF Geometry!io_complete, Geometry!loop, Geometry!NoSge, Geometry!NoChild
<1>3. Geometry!t = t /\ GoodTask(t) /\ t \in Task /\ Transferring /\ t.len \in Nat
  BY <1>1, <1>2, TransferFacts
<1>4. child.pos = t.len
  BY <1>3 DEF Geometry!io_complete
<1>5. /\ GeometryTypes /\ Underway /\ Line(tasks, Asked(op))
      /\ BufferAt(Front(tasks, Asked(op)) + Moved) /\ DiskAt(Front(tasks, Asked(op)) + Moved)
  BY <1>2, IssueFacts
<1>6. Underway' /\ Line(tasks, Asked(op))' /\ Front(tasks, Asked(op))' = Front(tasks, Asked(op))
  BY <1>2, <1>5, SameTasks
<1>7. tasks # << >>
  BY <1>3 DEF Transferring, InHand
<1>8. CASE op.cmd = "write"
  <2>1. pc' = "release" /\ copy' = copy
    BY <1>8 DEF Geometry!io_complete
  <2>2. Moved' = Moved
    BY <1>1, <1>2, <1>4, <1>8, <2>1 DEF Moved
  <2>3. BufferAt(Front(tasks, Asked(op)) + Moved)' /\ DiskAt(Front(tasks, Asked(op)) + Moved)'
    BY <1>2, <1>5, <1>6, <2>2 DEF BufferAt, DiskAt
  <2>4. GeometryTypes'
    BY <1>2, <1>5, <2>1 DEF GeometryTypes
  <2> QED
    BY <1>2, <1>6, <1>7, <1>8, <2>1, <2>3, <2>4 DEF GeometryInv
<1>9. CASE op.cmd # "write"
  <2>1. /\ pc' = "copy_to_buf"
        /\ copy' = [i |-> 1, off |-> t.tmp_off, left |-> t.tmp_len, copied |-> 0]
    BY <1>3, <1>9 DEF Geometry!io_complete
  <2>2. t.tmp_off \in Nat /\ t.tmp_len \in Nat /\ t.tmp_off < BufferSize
    BY <1>3, <1>9 DEF GoodTask, Task
  <2>3. Moved = 0 /\ Moved' = 0
    BY <1>2, <1>9, <2>1 DEF Moved
  <2>4. BufferAt(Front(tasks, Asked(op)) + Moved)' /\ DiskAt(Front(tasks, Asked(op)) + Moved)'
    BY <1>2, <1>5, <1>6, <2>3 DEF BufferAt, DiskAt
  <2>5. GeometryTypes'
    BY <1>2, <1>5, <2>1, <2>2 DEF GeometryTypes
  <2>6. Copying'
    <3>1. InHand' /\ Fetched(t.len)'
      BY <1>1, <1>2, <1>3, <1>4, <1>9
         DEF Transferring, InHand, Fetched, Geometry!SegmentsFor
    <3>2. 0 + t.tmp_len = t.tmp_len /\ (1 - 1) * BufferSize + t.tmp_off = t.tmp_off + 0
      BY <2>2, Sizes
    <3>3. /\ copy'.i = 1 /\ copy'.off = t.tmp_off /\ copy'.left = t.tmp_len /\ copy'.copied = 0
          /\ tasks'[1] = t
      BY <1>1, <1>2, <2>1
    <3> QED
      BY <1>2, <1>9, <2>2, <3>1, <3>2, <3>3 DEF Copying, Fetched
  <2> QED
    BY <1>2, <1>6, <2>1, <2>4, <2>5, <2>6 DEF GeometryInv
<1> QED
  BY <1>8, <1>9

LEMMA CopyMore ==
  ASSUME NEW begins \in Nat, NEW copied \in Nat, NEW n \in Nat, NEW y \in Nat,
         NEW to, to = begins + copied
  PROVE  /\ y \in to .. to + n - 1 => y < begins + (copied + n)
         /\ y \notin to .. to + n - 1 => (y < begins + (copied + n) <=> y < begins + copied)
OBVIOUS

LEMMA DoneKeeps ==
  ASSUME Geometry!GeometryAssumption, GeometryInv, Geometry!Done
  PROVE  GeometryInv'
<1> USE DEF Splits, Issues
<1>1. /\ pc = "issue" /\ tasks = << >> /\ pc' = "done"
      /\ UNCHANGED <<op, aligned, begin, remain, tmp_off, filled, tasks, segs, sge, child, copy,
                     disk, buf>>
  BY DEF Geometry!Done, Geometry!loop, Geometry!task_state
<1>2. /\ GeometryTypes /\ Inside /\ Asked(op) \in Nat
      /\ BufferAt(Front(tasks, Asked(op)) + Moved) /\ DiskAt(Front(tasks, Asked(op)) + Moved)
  BY <1>1, IssueFacts DEF Underway
<1>3. Front(tasks, Asked(op)) + Moved = Asked(op)
  BY <1>1, <1>2 DEF Front, Moved
<1>4. Inside' /\ BufferAt(Asked(op))' /\ DiskAt(Asked(op))'
  BY <1>1, <1>2, <1>3 DEF Inside, BufferAt, DiskAt
<1>5. GeometryTypes'
  BY <1>1, <1>2 DEF GeometryTypes
<1> QED
  BY <1>1, <1>4, <1>5 DEF GeometryInv

LEMMA ReleaseKeeps ==
  ASSUME Geometry!GeometryAssumption, GeometryInv, Geometry!release_segs
  PROVE  GeometryInv'
<1> USE DEF Splits, Issues
<1>1. PICK t : t = tasks[1]
  OBVIOUS
<1>2. /\ pc = "release" \/ (pc = "copy_to_buf" /\ copy.left = 0)
      /\ tasks' = Tail(tasks) /\ segs' = << >> /\ pc' = "issue"
      /\ copy' = [i |-> 1, off |-> 0, left |-> 0, copied |-> 0]
      /\ UNCHANGED <<op, aligned, begin, remain, tmp_off, filled, sge, child, disk, buf>>
  BY DEF Geometry!release_segs, Geometry!loop, Geometry!NoCopy
<1>3. /\ GeometryTypes /\ Underway /\ Line(tasks, Asked(op)) /\ Asked(op) \in Nat
      /\ BufferAt(Front(tasks, Asked(op)) + Moved) /\ DiskAt(Front(tasks, Asked(op)) + Moved)
      /\ child = [pos |-> 0, end |-> 0]
  BY <1>2, IssueFacts DEF GeometryInv
<1>4. tasks # << >>
  BY <1>2 DEF GeometryInv, Copying, InHand
<1>5. Moved = Share(t)
  <2>1. CASE pc = "release"
    BY <1>1, <2>1 DEF GeometryInv, Moved, Share
  <2>2. CASE pc = "copy_to_buf"
    <3>1. copy.copied + copy.left = t.tmp_len /\ op.cmd # "write" /\ copy.left = 0
      BY <1>1, <1>2, <2>2 DEF GeometryInv, Copying
    <3>2. copy.copied \in Nat
      BY <1>3 DEF GeometryTypes
    <3> QED
      BY <2>2, <3>1, <3>2 DEF Moved, Share
  <2> QED
    BY <1>2, <2>1, <2>2
<1>6. /\ tasks \in Seq(Task) /\ tasks' \in Seq(Task) /\ Len(tasks) \in Nat
      /\ Len(tasks') = Len(tasks) - 1 /\ \A k \in 1 .. Len(tasks') : tasks'[k] = tasks[k + 1]
  <2>1. tasks \in Seq(Task)
    BY <1>3 DEF GeometryTypes
  <2> QED
    BY <1>2, <1>4, <2>1, HeadTailProperties
<1>7. Line(tasks', Asked(op)) /\ Front(tasks', Asked(op)) = Front(tasks, Asked(op)) + Moved
  <2>1. Front(tasks, Asked(op)) = t.buf
    BY <1>1, <1>3, <1>4, TaskFacts
  <2> QED
    BY <1>1, <1>2, <1>3, <1>4, <1>5, <1>6, <2>1, LineTail
<1>8. Line(tasks, Asked(op))' /\ Front(tasks, Asked(op))' = Front(tasks', Asked(op))
  BY <1>2, <1>7 DEF Line, Front, Share
<1>9. Underway'
  <2> SUFFICES ASSUME NEW k \in 1 .. Len(tasks') PROVE GoodTask(tasks'[k])
    BY <1>2, <1>3 DEF Underway, Inside, GoodTask, Share
  <2>1. k + 1 \in 1 .. Len(tasks) /\ tasks'[k] = tasks[k + 1]
    BY <1>6
  <2> QED
    BY <1>3, <2>1 DEF Underway
<1>10. Moved' = 0
  BY <1>2 DEF Moved
<1>11. Front(tasks, Asked(op)) + Moved \in Nat
  BY <1>1, <1>3, <1>4, <1>5, TaskFacts DEF Share
<1>12. (Front(tasks, Asked(op)) + Moved)' = Front(tasks, Asked(op)) + Moved
  BY <1>7, <1>8, <1>10, <1>11
<1>13. BufferAt(Front(tasks, Asked(op)) + Moved)' /\ DiskAt(Front(tasks, Asked(op)) + Moved)'
  BY <1>2, <1>3, <1>12 DEF BufferAt, DiskAt
<1>14. GeometryTypes'
  <2>1. segs' \in Seq([Geometry!InBuffer -> Int])
    BY <1>2
  <2> QED
    BY <1>2, <1>3, <1>6, <2>1 DEF GeometryTypes
<1> QED
  BY <1>2, <1>3, <1>8, <1>9, <1>13, <1>14 DEF GeometryInv

LEMMA CopyKeeps ==
  ASSUME Geometry!GeometryAssumption, GeometryInv, Geometry!copy_to_buf
  PROVE  GeometryInv'
<1> USE DEF Splits, Issues
<1>1. PICK t, m, i, o, l, c, n : /\ t = tasks[1] /\ m = Len(segs)
                                 /\ i = copy.i /\ o = copy.off /\ l = copy.left
                                 /\ c = copy.copied
                                 /\ n = Geometry!Smaller(l, BufferSize - o)
  OBVIOUS
<1>2. PICK to : to = t.buf + c
  OBVIOUS
<1>3. /\ pc = "copy_to_buf" /\ l > 0 /\ Copying
      /\ UNCHANGED <<op, pc, aligned, begin, remain, tmp_off, filled, tasks, segs, sge, child,
                     disk>>
      /\ copy' = [i |-> i + 1, off |-> 0, left |-> l - n, copied |-> c + n]
  BY <1>1 DEF Geometry!copy_to_buf, Geometry!loop, GeometryInv
<1>4. /\ GeometryTypes /\ Underway /\ Line(tasks, Asked(op))
      /\ BufferAt(Front(tasks, Asked(op)) + Moved) /\ DiskAt(Front(tasks, Asked(op)) + Moved)
      /\ op.off \in Nat /\ Asked(op) \in Nat /\ child = [pos |-> 0, end |-> 0]
  BY <1>3, IssueFacts DEF GeometryInv
<1>5. /\ tasks # << >> /\ m = Geometry!SegmentsFor(t.len) /\ op.cmd # "write" /\ Fetched(t.len)
      /\ c + l = t.tmp_len /\ i >= 1 /\ o < BufferSize
      /\ (i - 1) * BufferSize + o = t.tmp_off + c
  BY <1>1, <1>3 DEF Copying, InHand
<1>6. /\ t \in Task /\ GoodTask(t) /\ Geometry!t = t /\ Front(tasks, Asked(op)) = t.buf
      /\ t.off \in Nat /\ t.len \in Nat /\ t.buf \in Nat /\ t.tmp_off \in Nat /\ t.tmp_len \in Nat
  BY <1>1, <1>4, <1>5, TaskFacts
<1>7. /\ i \in Nat /\ o \in Nat /\ l \in Nat /\ c \in Nat /\ BufferSize \in Nat /\ BufferSize > 0
  BY <1>1, <1>4, Sizes DEF GeometryTypes
<1>8. /\ n \in Nat /\ n > 0 /\ c + n <= t.tmp_len /\ o + n <= BufferSize /\ l - n \in Nat
      /\ (c + n) + (l - n) = t.tmp_len /\ (l - n > 0 => o + n = BufferSize)
  <2>1. n = IF l <= BufferSize - o THEN l ELSE BufferSize - o
    BY <1>1 DEF Geometry!Smaller
  <2>2. l > 0 /\ o < BufferSize /\ c + l = t.tmp_len
    BY <1>3, <1>5
  <2> QED
    BY <1>7, <2>1, <2>2
<1>9. /\ t.tmp_off + t.tmp_len <= t.len /\ t.off + t.tmp_off = op.off + t.buf
  <2>1. t.tmp_len > 0
    BY <1>6, <1>7, <1>8
  <2> QED
    BY <1>5, <1>6, <2>1 DEF GoodTask
<1>10. PICK base \in Nat : base = (i - 1) * BufferSize /\ i * BufferSize = base + BufferSize
  BY <1>5, <1>7, Times
<1>11. base + o = t.tmp_off + c
  BY <1>5, <1>10
<1>12. i \in 1 .. m
  <2>1. m \in Nat /\ t.len <= m * BufferSize
    BY <1>5, <1>6, SegmentsCover
  <2>2. PICK end \in Nat : end = m * BufferSize
    BY <1>7, <2>1, Times
  <2>3. base < end
    <3>1. base \in Nat /\ end \in Nat /\ t.len <= end
      BY <2>1, <2>2, <1>10
    <3> QED
      BY <1>6, <1>7, <1>8, <1>9, <1>11, <3>1
  <2>4. i - 1 \in Nat
    BY <1>5, <1>7
  <2>5. m < i - 1 => end + BufferSize <= base
    BY <1>7, <1>10, <2>1, <2>2, <2>4, Times
  <2>6. ~ (m < i - 1)
    <3>1. base \in Nat /\ end \in Nat
      BY <1>10, <2>2
    <3> QED
      BY <1>7, <2>3, <2>5, <3>1
  <2>7. m # i - 1
    BY <1>10, <2>2, <2>3
  <2> QED
    BY <1>5, <1>7, <2>1, <2>6, <2>7
<1>13. buf' = [y \in Geometry!Memory |->
                 IF y \in to .. to + n - 1 THEN segs[i][o + y - to] ELSE buf[y]]
  BY <1>1, <1>2, <1>6 DEF Geometry!copy_to_buf
<1>14. ASSUME NEW y \in Geometry!Memory
       PROVE  y \in Nat
  BY <1>7, Sizes DEF Geometry!Memory
<1>15. ASSUME NEW y \in Geometry!Memory, y \in to .. to + n - 1
       PROVE  segs[i][o + y - to] = op.off + y
  <2>1. PICK x : x = o + y - to
    OBVIOUS
  <2>2. x \in Nat /\ x < BufferSize /\ base + x < t.len /\ t.off + (base + x) = op.off + y
    <3>1. /\ op.off \in Nat /\ t.len \in Nat /\ t.buf \in Nat /\ t.tmp_off \in Nat
          /\ t.tmp_len \in Nat /\ t.off \in Nat /\ y \in Nat
          /\ c \in Nat /\ n \in Nat /\ o \in Nat /\ base \in Nat /\ BufferSize \in Nat
          /\ base + o = t.tmp_off + c /\ c + n <= t.tmp_len /\ t.tmp_off + t.tmp_len <= t.len
          /\ o + n <= BufferSize /\ t.off + t.tmp_off = op.off + t.buf
      BY <1>4, <1>6, <1>7, <1>8, <1>9, <1>10, <1>11, <1>14
    <3>2. to \in Nat /\ to <= y /\ y < to + n
      BY <1>2, <1>15, <3>1
    <3>3. x \in Nat /\ x < o + n /\ base + x = t.tmp_off + c + y - to
      BY <2>1, <3>1, <3>2
    <3>4. base + x = t.tmp_off + y - t.buf
      BY <1>2, <3>1, <3>3
    <3> QED
      BY <1>2, <3>1, <3>2, <3>3, <3>4
  <2>3. x \in Geometry!InBuffer
    BY <1>7, <2>2 DEF Geometry!InBuffer
  <2>4. segs[i][x] = t.off + (base + x)
    BY <1>1, <1>5, <1>10, <1>12, <2>2, <2>3 DEF Fetched
  <2> QED
    BY <2>1, <2>2, <2>4
<1>16. ASSUME NEW y \in Geometry!Memory
       PROVE  buf'[y] = IF y < t.buf + (c + n) THEN op.off + y ELSE DeviceSize + y
  <2>1. /\ y \in to .. to + n - 1 => y < t.buf + (c + n)
        /\ y \notin to .. to + n - 1 => (y < t.buf + (c + n) <=> y < t.buf + c)
    <3>1. y \in Nat /\ t.buf \in Nat /\ c \in Nat /\ n \in Nat
      BY <1>6, <1>7, <1>8, <1>14
    <3> QED
      BY <1>2, <3>1, CopyMore
  <2>2. buf[y] = IF y < t.buf + c THEN op.off + y ELSE DeviceSize + y
    <3>1. Moved = c
      BY <1>1, <1>3 DEF Moved
    <3> QED
      BY <1>4, <1>5, <1>6, <3>1 DEF BufferAt
  <2>3. CASE y \in to .. to + n - 1
    BY <1>13, <1>15, <2>1, <2>3
  <2>4. CASE y \notin to .. to + n - 1
    BY <1>13, <2>1, <2>2, <2>4
  <2> QED
    BY <2>3, <2>4
<1>17. Underway' /\ Line(tasks, Asked(op))' /\ Front(tasks, Asked(op))' = t.buf
  BY <1>3, <1>4, <1>6, SameTasks
<1>18. Moved' = c + n
  BY <1>3 DEF Moved
<1>19. BufferAt(Front(tasks, Asked(op)) + Moved)'
  <2> SUFFICES ASSUME NEW y \in Geometry!Memory
               PROVE  buf'[y] = IF op.cmd # "write" /\ y < t.buf + (c + n)
                                  THEN op.off + y ELSE DeviceSize + y
    BY <1>3, <1>17, <1>18 DEF BufferAt
  <2> QED
    BY <1>5, <1>16
<1>20. DiskAt(Front(tasks, Asked(op)) + Moved)'
  <2>1. DiskAt(t.buf + (c + n))
    BY <1>4, <1>5, OtherSide
  <2> QED
    BY <1>3, <1>17, <1>18, <2>1 DEF DiskAt
<1>21. /\ copy' \in [i : Nat, off : Nat, left : Nat, copied : Nat]
       /\ copy'.i = i + 1 /\ copy'.off = 0 /\ copy'.left = l - n /\ copy'.copied = c + n
  <2>1. i + 1 \in Nat /\ c + n \in Nat /\ 0 \in Nat
    BY <1>7, <1>8
  <2> QED
    BY <1>3, <1>8, <2>1
<1>22. Copying'
  <2>1. InHand' /\ Fetched(t.len)' /\ tasks'[1] = t
    BY <1>1, <1>3, <1>5 DEF InHand, Fetched, Geometry!SegmentsFor
  <2>2. i + 1 >= 1 /\ ((i + 1) - 1) * BufferSize = base + BufferSize
    <3>1. (i + 1) - 1 = i
      BY <1>7
    <3> QED
      BY <1>7, <1>10, <3>1
  <2>3. l - n > 0 => (base + BufferSize) + 0 = t.tmp_off + (c + n)
    <3>1. base \in Nat
      BY <1>10
    <3> QED
      BY <1>6, <1>7, <1>8, <1>11, <3>1
  <2> QED
    BY <1>3, <1>5, <1>7, <1>8, <1>21, <2>1, <2>2, <2>3 DEF Copying, Fetched
<1>23. GeometryTypes'
  BY <1>3, <1>4, <1>21 DEF GeometryTypes
<1> QED
  BY <1>3, <1>4, <1>17, <1>19, <1>20, <1>22, <1>23 DEF GeometryInv

----------------------------------------------------------------------------
(* The theorems.                                                             *)

LEMMA GeometryBegins ==
  ASSUME Geometry!GeometryAssumption, Geometry!Init
  PROVE  GeometryInv
<1>1. /\ op \in Geometry!Operation /\ pc = "check"
      /\ aligned = [off |-> 0, len |-> 0] /\ begin = 0 /\ remain = 0 /\ tmp_off = 0 /\ filled = 0
      /\ tasks = << >> /\ segs = << >>
      /\ sge = [idx |-> 0, left |-> 0] /\ child = [pos |-> 0, end |-> 0]
      /\ copy = [i |-> 1, off |-> 0, left |-> 0, copied |-> 0]
      /\ disk = [base \in Geometry!Device |-> base]
      /\ buf = [i \in Geometry!Memory |-> DeviceSize + i]
  BY DEF Geometry!Init, Geometry!NoSge, Geometry!NoChild, Geometry!NoCopy
<1>2. GeometryTypes
  BY <1>1 DEF GeometryTypes
<1>3. BufferAt(0)
  <2>1. \A i \in Geometry!Memory : ~ (i < 0)
    BY Sizes DEF Geometry!Memory
  <2> QED
    BY <1>1, <2>1 DEF BufferAt
<1>4. DiskAt(0)
  BY <1>1 DEF DiskAt
<1> QED
  BY <1>1, <1>2, <1>3, <1>4 DEF GeometryInv, Splits, Issues

LEMMA GeometryStays ==
  ASSUME GeometryInv, UNCHANGED Geometry!vars
  PROVE  GeometryInv'
BY DEF Geometry!vars, GeometryInv, GeometryTypes, Inside, Line, Front, Share, GoodTask, BufferAt,
       DiskAt, SplittingWrite, SplittingRead, Loaded, Fetched, InHand, SglInPlace, Transferring,
       Copying, Moved, Splits, Issues, Underway, Geometry!aligned_end

LEMMA ThrowsKeeps ==
  ASSUME Geometry!GeometryAssumption, GeometryInv, Geometry!write_split_throws
  PROVE  GeometryInv'
BY DEF Geometry!write_split_throws, Geometry!loop, Geometry!task_state, GeometryInv,
       GeometryTypes, Splits, Issues

LEMMA GeometryStep ==
  ASSUME Geometry!GeometryAssumption, GeometryInv, [Geometry!Next]_(Geometry!vars)
  PROVE  GeometryInv'
<1>1. CASE UNCHANGED Geometry!vars
  BY <1>1, GeometryStays
<1>2. CASE Geometry!Rejected \/ Geometry!Write \/ Geometry!Read
  BY <1>2, BeginKeeps
<1>3. CASE Geometry!write_split
  BY <1>3, WriteSplitKeeps
<1>4. CASE Geometry!make_read_tasks
  BY <1>4, MakeReadKeeps
<1>5. CASE Geometry!TasksMade
  BY <1>5, TasksMadeKeeps
<1>6. CASE Geometry!alloc_buf_from_pool
  BY <1>6, AllocKeeps
<1>7. CASE Geometry!Reset
  BY <1>7, ResetKeeps
<1>8. CASE Geometry!data_buf_next_sge
  BY <1>8, SgeKeeps
<1>9. CASE Geometry!io_complete
  BY <1>9, CompleteKeeps
<1>10. CASE Geometry!copy_to_buf
  BY <1>10, CopyKeeps
<1>11. CASE Geometry!release_segs
  BY <1>11, ReleaseKeeps
<1>12. CASE Geometry!Done
  BY <1>12, DoneKeeps
<1>13. CASE Geometry!write_split_throws
  BY <1>13, ThrowsKeeps
<1> QED
  BY <1>1, <1>2, <1>3, <1>4, <1>5, <1>6, <1>7, <1>8, <1>9, <1>10, <1>11, <1>12, <1>13
     DEF Geometry!Next

LEMMA GeometryAlways == Spec => [](part = "geometry" => GeometryInv)
<1> DEFINE I == part = "geometry" => GeometryInv
<1>1. Init => I
  BY PartsAssumption, GeometryBegins DEF Init
<1>2. I /\ [Next]_vars => I'
  BY PartsAssumption, GeometryMoves, GeometryStep
<1> QED
  BY <1>1, <1>2, PTL DEF Spec

(* No task that is issued to spdk reaches beyond the device, though is_valid_io *)
(* and read_random add offset and length in 64 bits and let past calls whose   *)
(* sum has wrapped around: for any offset and length of 64 bits.             *)
THEOREM NoneIssuedOutside == Spec => []IssuedIsInside
<1>1. ASSUME GeometryInv, pc \in Issues, NEW k \in DOMAIN tasks
      PROVE  tasks[k].off + tasks[k].len <= DeviceSize
  <2>1. GeometryTypes /\ Underway
    BY <1>1 DEF GeometryInv
  <2>2. DOMAIN tasks = 1 .. Len(tasks)
    BY <2>1 DEF GeometryTypes
  <2> QED
    BY <1>1, <2>1, <2>2 DEF Underway, GoodTask
<1>2. (part = "geometry" => GeometryInv) => IssuedIsInside
  BY <1>1 DEF IssuedIsInside, Geometry!IssuedIsInside, Issues
<1> QED
  BY <1>2, GeometryAlways, PTL

(* A call that is over has moved byte off + i of the device to or from byte i *)
(* of the caller's buffer, each of them and no other: through the rounding to *)
(* blocks, the tasks, their DMA buffers, and any way spdk cuts a task; and    *)
(* data_buf_next_sge never told spdk that nothing is left.  A call whose sum   *)
(* of offset and length has wrapped around has moved a first part at most.   *)
THEOREM BytesLand == Spec => []BytesLandWhereAsked
<1>1. ASSUME GeometryInv
      PROVE  Geometry!BytesLandWhereAsked
  <2>1. Geometry!SglNeverRunsOut
    <3> SUFFICES ASSUME pc = "transfer", child.pos < child.end PROVE Geometry!Length > 0
      BY DEF Geometry!SglNeverRunsOut
    <3>1. PICK base, e : /\ base = sge.idx * BufferSize
                         /\ e = Geometry!Smaller(base + BufferSize, tasks[1].len)
      OBVIOUS
    <3>2. Geometry!Length = e - child.pos /\ e \in Nat /\ child.pos < e
      BY <1>1, <3>1, PartsAssumption, SglFacts
    <3>3. child.pos \in Nat
      BY <1>1 DEF GeometryInv, GeometryTypes
    <3> QED
      BY <3>2, <3>3
  <2>2. ASSUME pc = "done"
        PROVE  \E n \in 0 .. DeviceSize :
                 /\ n <= op.len /\ (op.off + op.len <= DeviceSize => n = op.len)
                 /\ Geometry!BytesInPlace(n)
    <3>1. GeometryTypes /\ Inside /\ BufferAt(Asked(op)) /\ DiskAt(Asked(op))
      BY <1>1, <2>2 DEF GeometryInv
    <3>2. Asked(op) \in 0 .. DeviceSize
      <4>1. op.off \in Nat /\ DeviceSize \in Nat
        BY <3>1, PartsAssumption, OpFacts, Sizes DEF GeometryTypes
      <4> QED
        BY <3>1, <4>1 DEF Inside
    <3>3. Geometry!BytesInPlace(Asked(op))
      BY <3>1 DEF BufferAt, DiskAt, Geometry!BytesInPlace
    <3> QED
      BY <3>1, <3>2, <3>3 DEF Inside
  <2> QED
    BY <2>1, <2>2 DEF Geometry!BytesLandWhereAsked
<1>2. (part = "geometry" => GeometryInv) => BytesLandWhereAsked
  BY <1>1 DEF BytesLandWhereAsked
<1> QED
  BY <1>2, GeometryAlways, PTL

============================================================================

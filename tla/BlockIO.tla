------------------------------ MODULE BlockIO ------------------------------
(***************************************************************************)
(* What one thread of the program may rely on when it drives an NVMEDevice *)
(* (src/src/blk/block_device.hpp declares the interface): read, write,     *)
(* aio_read + aio_write + aio_submit, seen block by block, with no queue,  *)
(* no pool of DMA buffers, no splitting and no polling.                    *)
(*                                                                         *)
(*   - the blocks of the operation in progress reach the device one group  *)
(*     at a time, in any order;                                            *)
(*   - a write stores what the caller's buffer held, a read brings back    *)
(*     what the device held;                                               *)
(*   - the call comes back only when no block is left, and by then the     *)
(*     callback of an asynchronous batch has been called exactly once, and *)
(*     after its last block;                                               *)
(*   - the process may die in the middle: blocks are then lost, never torn *)
(*     from other data.                                                    *)
(***************************************************************************)
CONSTANTS
  Lba,      \* blocks of the namespace
  Slot,     \* block-sized pieces of a caller's buffer
  Data,     \* what a block may hold
  NoData,   \* a piece of a buffer nobody has written
  Sync,     \* the IOContext read() and write() make for themselves
  Async     \* the IOContext the caller of aio_read / aio_write owns

Ioc == {Sync, Async}
Nobody == "nobody"
Request == [ioc : Ioc, cmd : {"write", "read"}, lba : Lba, slot : Slot]

VARIABLES
  disk,     \* the device
  buf,      \* the callers' buffers, one per IOContext
  priv,     \* does Async carry a priv pointer, i.e. is there a callback
  staged,   \* appended to Async, not yet submitted
  running,  \* of the operation in progress, not yet done by the device
  current,  \* the IOContext being handled, or Nobody
  called    \* calls of the callback so far for the batch in progress

bvars == <<disk, buf, priv, staged, running, current, called>>

NoBuf == [s \in Slot |-> NoData]

BInit ==
  /\ disk \in [Lba -> Data]
  /\ buf = [c \in Ioc |-> NoBuf]
  /\ priv \in BOOLEAN
  /\ staged = {}
  /\ running = {}
  /\ current = Nobody
  /\ called = 0

(* The caller fills the buffer of the new requests reqs of c: only pieces no *)
(* earlier request of c uses, and no piece outside them.                     *)
Prepare(c, reqs) ==
  /\ reqs # {} /\ reqs \subseteq {r \in Request : r.ioc = c}
  /\ \A r \in reqs, s \in staged : s.ioc = c => r.slot # s.slot
  /\ buf' \in [Ioc -> [Slot -> Data \cup {NoData}]]
  /\ \A d \in Ioc, s \in Slot :
       (~ \E r \in reqs : r.ioc = d /\ r.slot = s) => buf'[d][s] = buf[d][s]

(* A new IOContext for the next asynchronous batch.                          *)
Construct ==
  /\ staged = {} /\ current # Async
  /\ priv' \in BOOLEAN
  /\ UNCHANGED <<disk, buf, staged, running, current, called>>

Stage ==
  /\ current = Nobody
  /\ staged \subseteq staged'
  /\ Prepare(Async, staged' \ staged)
  /\ UNCHANGED <<disk, priv, running, current, called>>

Submit ==
  /\ current = Nobody /\ staged # {}
  /\ running' = staged /\ staged' = {}
  /\ current' = Async
  /\ UNCHANGED <<disk, buf, priv, called>>

SyncStart ==
  /\ current = Nobody
  /\ Prepare(Sync, running')
  /\ current' = Sync
  /\ UNCHANGED <<disk, priv, staged, called>>

(* The device executes the blocks of one command.                            *)
Execute(S) ==
  /\ S # {} /\ S \subseteq running
  /\ \A r, s \in S : r.cmd = s.cmd
  /\ running' = running \ S
  /\ disk' = [l \in Lba |->
       IF \E r \in S : r.cmd = "write" /\ r.lba = l
         THEN LET r == CHOOSE r \in S : r.cmd = "write" /\ r.lba = l
              IN  buf[r.ioc][r.slot]
         ELSE disk[l]]
  /\ buf' = [c \in Ioc |-> [s \in Slot |->
       IF \E r \in S : r.cmd = "read" /\ r.ioc = c /\ r.slot = s
         THEN disk[(CHOOSE r \in S : r.cmd = "read" /\ r.ioc = c /\ r.slot = s).lba]
         ELSE buf[c][s]]]
  /\ UNCHANGED <<priv, staged, current, called>>

Callback ==
  /\ current = Async /\ priv /\ running = {} /\ called = 0
  /\ called' = 1
  /\ UNCHANGED <<disk, buf, priv, staged, running, current>>

(* The call comes back and the caller takes its buffer away.                 *)
Return ==
  /\ current # Nobody /\ running = {}
  /\ called = IF current = Async /\ priv THEN 1 ELSE 0
  /\ buf' = [buf EXCEPT ![current] = NoBuf]
  /\ current' = Nobody
  /\ called' = 0
  /\ UNCHANGED <<disk, priv, staged, running>>

Die ==
  /\ current # Nobody
  /\ buf' = [c \in Ioc |-> NoBuf]
  /\ staged' = {} /\ running' = {}
  /\ current' = Nobody
  /\ called' = 0
  /\ UNCHANGED <<disk, priv>>

BNext ==
  \/ Construct \/ Stage \/ SyncStart \/ Submit \/ Callback \/ Return \/ Die
  \/ \E S \in SUBSET running : Execute(S)

BSpec == BInit /\ [][BNext]_bvars
=============================================================================

------------------------------ MODULE AioQueue ------------------------------
(***************************************************************************)
(* aio_queue_t of src/src/blk/kernel/io_queue.{hpp,cpp}: a queue of the    *)
(* kernel's asynchronous I/O.  One thread submits batches, another one     *)
(* collects what is complete.  The kernel takes as many of the iocbs it is *)
(* offered as it likes, refuses for the moment (EAGAIN) or for good, and   *)
(* completes what it took in any order.                                    *)
(***************************************************************************)
EXTENDS Integers, Sequences, FiniteSets, SequencesExt

CONSTANTS
  Aio,          \* the aio_t's
  MaxIoDepth,   \* max_iodepth
  Attempts,     \* attempts, 16 in the code
  FirstDelay,   \* delay, 125 (microseconds)
  MaxEvents     \* what the collecting thread passes as max

(* There are finitely many aio_t's, and the queue takes one at least.        *)
AioAssumption == IsFiniteSet(Aio) /\ MaxIoDepth \in Nat \ {0}

VARIABLES
  ctx,        \* is there an io context
  pc,         \* of the submitting thread
  batch,      \* piocb
  done,
  left,
  attempts,
  delay,
  slept,      \* time slept since the kernel last took something
  taken,      \* aio -> times the kernel took it since it was put into a batch
  flight,     \* what the kernel has not completed
  finished    \* complete, and not collected

vars == <<ctx, pc, batch, done, left, attempts, delay, slept, taken, flight,
          finished>>
locals == <<pc, batch, done, left, attempts, delay, slept>>
kernel == <<taken, flight, finished>>

Init ==
  /\ ctx = FALSE
  /\ pc = "idle" /\ batch = << >> /\ done = 0 /\ left = 0
  /\ attempts = Attempts /\ delay = FirstDelay /\ slept = 0
  /\ taken = [x \in Aio |-> 0]
  /\ flight = {} /\ finished = {}

----------------------------------------------------------------------------
(* init; io_setup may fail, and the context is 0 again then.                 *)
init ==
  /\ ~ ctx /\ pc = "idle"
  /\ ctx' \in BOOLEAN
  /\ UNCHANGED <<locals, kernel>>

(* shutdown: io_destroy waits for what is in flight, its events are lost.    *)
shutdown ==
  /\ ctx /\ pc = "idle"
  /\ ctx' = FALSE
  /\ flight' = {} /\ finished' = {}
  /\ UNCHANGED <<locals, taken>>

----------------------------------------------------------------------------
(* submit_batch                                                              *)

Smaller(x, y) == IF x <= y THEN x ELSE y
(* Lists of aios nobody uses.                                                *)
Lists ==
  UNION {{l \in [1 .. n -> Aio \ (flight \cup finished)] : IsInjective(l)}
           : n \in 0 .. Cardinality(Aio)}

submit_batch(list) ==
  /\ pc = "idle"
  /\ batch' = list /\ left' = Len(list) /\ done' = 0
  /\ attempts' = Attempts /\ delay' = FirstDelay /\ slept' = 0
  /\ taken' = [x \in Aio |-> IF x \in Range(list) THEN 0 ELSE taken[x]]
  /\ pc' = "submit"
  /\ UNCHANGED <<ctx, flight, finished>>

(* The iocbs io_submit is offered.  The variant starts at the first again.    *)
from_the_first(n) == {batch[k] : k \in 1 .. n}
from_done(n) == {batch[done + k] : k \in 1 .. n}

(* attempts = 16; delay = 125;  The variant goes on with the old delay.      *)
keep_delay == attempts' = Attempts /\ delay' = delay
start_over == attempts' = Attempts /\ delay' = FirstDelay

(* io_submit takes r of what it is offered.                                  *)
Accepted(r) ==
  /\ pc = "submit" /\ ctx /\ r \in 1 .. Smaller(left, MaxIoDepth)
  /\ taken' = [x \in Aio |-> IF x \in from_done(r) THEN taken[x] + 1 ELSE taken[x]]
  /\ flight' = flight \cup from_done(r)
  /\ done' = done + r /\ left' = left - r
  /\ start_over /\ slept' = 0
  /\ UNCHANGED <<ctx, pc, batch, finished>>

(* -EAGAIN, and usleep(delay).                                               *)
Retry ==
  /\ pc = "submit" /\ ctx /\ left > 0 /\ attempts > 0
  /\ attempts' = attempts - 1
  /\ slept' = slept + delay
  /\ delay' = delay * 2
  /\ UNCHANGED <<ctx, pc, batch, done, left, kernel>>

Return ==
  /\ pc' = "idle"
  /\ batch' = << >> /\ done' = 0 /\ left' = 0
  /\ attempts' = Attempts /\ delay' = FirstDelay /\ slept' = 0
  /\ UNCHANGED <<ctx, kernel>>

(* Another error (there is no context, for one), or -EAGAIN once too often:  *)
(* r is returned, and nobody learns of `done`.  The variant does not return. *)
OnceMore == pc = "submit" /\ left > 0 /\ UNCHANGED vars
Fails == pc = "submit" /\ left > 0 /\ Return

AllDone == pc = "submit" /\ left = 0 /\ Return

----------------------------------------------------------------------------
(* The kernel, and get_next_completed.                                       *)

Complete(x) ==
  /\ x \in flight
  /\ flight' = flight \ {x} /\ finished' = finished \cup {x}
  /\ UNCHANGED <<ctx, locals, taken>>

(* io_getevents hands over up to max events, none after the timeout; EINTR      *)
(* changes nothing and is tried again.                                       *)
get_next_completed ==
  /\ ctx
  /\ \E S \in SUBSET finished :
       /\ Cardinality(S) <= MaxEvents
       /\ finished' = finished \ S
  /\ UNCHANGED <<ctx, locals, taken, flight>>

Submitting == (\E r \in 1 .. MaxIoDepth : Accepted(r)) \/ Retry \/ Fails \/ AllDone

Next ==
  \/ init \/ shutdown \/ (\E list \in Lists : submit_batch(list))
  \/ Submitting
  \/ (\E x \in Aio : Complete(x)) \/ get_next_completed

Spec == Init /\ [][Next]_vars /\ WF_vars(Submitting)

----------------------------------------------------------------------------
(* Properties.                                                               *)

(* In the middle of a batch, after any refusals, the kernel has exactly the   *)
(* first `done` of its iocbs, each once, and `left` counts the others: none  *)
(* is submitted twice or left out.                                           *)
SubmittedOnce ==
  pc = "submit" =>
    /\ done + left = Len(batch)
    /\ \A k \in 1 .. Len(batch) : taken[batch[k]] = IF k <= done THEN 1 ELSE 0

(* "2^16 * 125us = ~8 seconds, so max sleep is ~16 seconds": however often    *)
(* the kernel refuses in between, a batch never sleeps longer without making *)
(* progress.                                                                 *)
SleepBounded == slept < 2 ^ 17 * 125

(* submit_batch returns, though the kernel may refuse for ever.              *)
SubmitEnds == (pc = "submit") ~> (pc = "idle")
=============================================================================

----------------------------- MODULE IoContext -----------------------------
(***************************************************************************)
(* The waiting side of an IOContext (src/src/blk/io_context.hpp,           *)
(* io_context.cpp): threads call aio_wait while one thread goes on         *)
(* submitting and completing batches on the same IOContext                 *)
(* (NVMEDevice::aio_submit, io_complete).  num_running grows without the   *)
(* lock and, when there is no priv, shrinks under it.                      *)
(***************************************************************************)
EXTENDS Naturals, FiniteSets

CONSTANTS
  Waiter,     \* the calls of aio_wait, each by a thread of its own
  MaxTasks    \* bound: tasks at a time (the batches go on for ever)

Submitter == "submitter"
Nobody == "nobody"

IoContextAssumption ==
  /\ MaxTasks \in Nat \ {0} /\ IsFiniteSet(Waiter)
  /\ Submitter \notin Waiter /\ Nobody \notin Waiter

VARIABLES
  priv,         \* the IOContext has a priv
  num_pending,
  num_running,
  lock,         \* the holder of IOContext::lock
  spc,          \* where the submitting thread is
  pending,      \* its local variable
  wpc,          \* where each waiting thread is
  due           \* waiter -> of the tasks that ran at its call, those not complete

vars == <<priv, num_pending, num_running, lock, spc, pending, wpc, due>>
counters == <<num_pending, num_running>>

Init ==
  /\ priv \in BOOLEAN
  /\ num_pending = 0 /\ num_running = 0
  /\ lock = Nobody
  /\ spc = "idle" /\ pending = 0
  /\ wpc = [w \in Waiter |-> "idle"]
  /\ due = [w \in Waiter |-> 0]

----------------------------------------------------------------------------
(* The submitting thread.                                                    *)

(* aio_read, aio_write: ioc_append_task.                                     *)
Append ==
  /\ spc = "idle" /\ num_running + num_pending < MaxTasks
  /\ num_pending' = num_pending + 1
  /\ UNCHANGED <<priv, num_running, lock, spc, pending, wpc, due>>

(* int pending = ioc->num_pending.load(); ...  ioc->num_running += pending;   *)
AddRunning ==
  /\ spc = "idle" /\ num_pending > 0
  /\ pending' = num_pending
  /\ num_running' = num_running + num_pending
  /\ spc' = "added"
  /\ UNCHANGED <<priv, num_pending, lock, wpc, due>>

(* ioc->num_pending -= pending; then _aio_handle.                             *)
SubPending ==
  /\ spc = "added"
  /\ num_pending' = num_pending - pending
  /\ spc' = "poll"
  /\ UNCHANGED <<priv, num_running, lock, pending, wpc, due>>

(* A batch begins when nothing is running: whatever completes while a call    *)
(* still has tasks due is one of them.                                       *)
OneIsDone == due' = [w \in Waiter |-> IF due[w] > 0 THEN due[w] - 1 ELSE 0]

(* io_complete with priv: --ctx->num_running and, at the last one, the        *)
(* callback.  The threads in aio_wait hear nothing of it.                    *)
CompletePriv ==
  /\ spc = "poll" /\ priv /\ num_running > 0
  /\ num_running' = num_running - 1
  /\ OneIsDone
  /\ UNCHANGED <<priv, num_pending, lock, spc, pending, wpc>>

(* io_complete without: try_aio_wake takes the lock, num_running.fetch_sub(1) *)
(* ...                                                                       *)
FetchSub ==
  /\ spc = "poll" /\ ~ priv /\ num_running > 0 /\ lock = Nobody
  /\ lock' = Submitter
  /\ num_running' = num_running - 1
  /\ OneIsDone
  /\ spc' = IF num_running = 1 THEN "notify" ELSE "unlock"
  /\ UNCHANGED <<priv, num_pending, pending, wpc>>

(* ... cond.notify_all().  The variant wakes one waiter.                     *)
notify_one ==
  \/ \E w \in Waiter : wpc[w] = "asleep" /\ wpc' = [wpc EXCEPT ![w] = "relock"]
  \/ (\A w \in Waiter : wpc[w] # "asleep") /\ UNCHANGED wpc

notify_all ==
  wpc' = [w \in Waiter |-> IF wpc[w] = "asleep" THEN "relock" ELSE wpc[w]]

Notify ==
  /\ spc = "notify"
  /\ notify_all
  /\ spc' = "unlock"
  /\ UNCHANGED <<priv, counters, lock, pending, due>>

Unlock ==
  /\ spc = "unlock"
  /\ lock' = Nobody
  /\ spc' = "poll"
  /\ UNCHANGED <<priv, counters, pending, wpc, due>>

(* while (ioc->num_running): aio_submit comes back.                          *)
Submitted ==
  /\ spc = "poll" /\ num_running = 0
  /\ spc' = "idle"
  /\ UNCHANGED <<priv, counters, lock, pending, wpc, due>>

----------------------------------------------------------------------------
(* A thread in aio_wait.                                                     *)

WaiterOnly == UNCHANGED <<priv, counters, spc, pending>>

AioWait(w) ==
  /\ wpc[w] = "idle"
  /\ wpc' = [wpc EXCEPT ![w] = "lock"]
  /\ due' = [due EXCEPT ![w] = num_running]
  /\ WaiterOnly /\ UNCHANGED lock

Lock(w) ==
  /\ wpc[w] = "lock" /\ lock = Nobody
  /\ lock' = w
  /\ wpc' = [wpc EXCEPT ![w] = "check"]
  /\ WaiterOnly /\ UNCHANGED due

(* while (num_running.load() > 0)                                            *)
Check(w) ==
  /\ wpc[w] = "check"
  /\ wpc' = [wpc EXCEPT ![w] = IF num_running > 0 THEN "wait" ELSE "return"]
  /\ WaiterOnly /\ UNCHANGED <<lock, due>>

(* cond.wait(l) gives the lock up and sleeps, in one step.                   *)
Wait(w) ==
  /\ wpc[w] = "wait"
  /\ lock' = Nobody
  /\ wpc' = [wpc EXCEPT ![w] = "asleep"]
  /\ WaiterOnly /\ UNCHANGED due

SpuriousWakeup(w) ==
  /\ wpc[w] = "asleep"
  /\ wpc' = [wpc EXCEPT ![w] = "relock"]
  /\ WaiterOnly /\ UNCHANGED <<lock, due>>

(* It has the lock again: the condition is checked once more.  The variant   *)
(* has an "if" for the "while".                                              *)
ReturnAtOnce(w) ==
  /\ wpc[w] = "relock" /\ lock = Nobody
  /\ lock' = w
  /\ wpc' = [wpc EXCEPT ![w] = "return"]
  /\ WaiterOnly /\ UNCHANGED due

Relock(w) ==
  /\ wpc[w] = "relock" /\ lock = Nobody
  /\ lock' = w
  /\ wpc' = [wpc EXCEPT ![w] = "check"]
  /\ WaiterOnly /\ UNCHANGED due

Return(w) ==
  /\ wpc[w] = "return"
  /\ lock' = Nobody
  /\ wpc' = [wpc EXCEPT ![w] = "returned"]
  /\ WaiterOnly /\ UNCHANGED due

----------------------------------------------------------------------------
SubmitStep == AddRunning \/ SubPending \/ CompletePriv \/ FetchSub \/ Notify \/ Unlock \/ Submitted

WaitStep(w) == Lock(w) \/ Check(w) \/ Wait(w) \/ Relock(w) \/ Return(w)

Next ==
  \/ Append \/ SubmitStep
  \/ \E w \in Waiter : AioWait(w) \/ WaitStep(w) \/ SpuriousWakeup(w)

(* The threads are scheduled and the controller completes what it was given   *)
(* (io_complete is called for every command); nobody has to call aio_submit or *)
(* aio_wait.  A thread that woke without a reason for ever could keep the lock *)
(* from the others for ever: spurious wakeups end.                           *)
Fairness ==
  /\ WF_vars(SubPending \/ CompletePriv \/ FetchSub \/ Notify \/ Unlock)
  /\ \A w \in Waiter : WF_vars(WaitStep(w))
  /\ <>[][\A w \in Waiter : ~ SpuriousWakeup(w)]_vars

Spec == Init /\ [][Next]_vars /\ Fairness

----------------------------------------------------------------------------
(* Properties.                                                               *)

(* Type correctness.                                                         *)
TypeOK ==
  /\ priv \in BOOLEAN
  /\ {num_pending, num_running, pending} \subseteq 0 .. MaxTasks
  /\ lock \in Waiter \cup {Submitter, Nobody}
  /\ spc \in {"idle", "added", "poll", "notify", "unlock"}
  /\ wpc \in [Waiter -> {"idle", "lock", "check", "wait", "asleep", "relock", "return",
                        "returned"}]
  /\ due \in [Waiter -> 0 .. MaxTasks]

(* aio_wait comes back only when everything that was running when it was      *)
(* called is complete, whatever was submitted meanwhile ("we might have some  *)
(* pending IOs submitted after the check ... aio_wait has to handle that").   *)
WaitMeansDone == \A w \in Waiter : wpc[w] = "returned" => due[w] = 0

(* No wakeup is lost: once no more batches come aio_wait comes back, unless   *)
(* the IOContext has a priv, whose completions notify nobody.  While batches  *)
(* go on it need not: the next one may be running whenever the waiter checks. *)
NoMoreBatches == <>[](num_running = 0)

WaitersReturn ==
  NoMoreBatches => \A w \in Waiter : ~ priv /\ wpc[w] = "lock" ~> wpc[w] = "returned"
=============================================================================

---------------------------- MODULE NvmeManager ----------------------------
(***************************************************************************)
(* NVMEManager (src/src/blk/spdk/nvme_manager.{hpp,cpp}): threads that open *)
(* a device call try_get; the one dpdk thread probes for it.  They meet in  *)
(* probe_queue under probe_queue_lock and one condition variable, used in   *)
(* both directions; try_get holds NVMEManager::lock all the while.  The     *)
(* destructor stops the dpdk thread and joins it.                           *)
(*                                                                          *)
(* SPDK is the environment: spdk_nvme_probe reports the devices that answer *)
(* at that moment, all local PCI devices or, when the first address asked   *)
(* for is no PCI address, the device at that first address.  It may fail    *)
(* before or after it has attached one.                                     *)
(***************************************************************************)
EXTENDS Naturals, Sequences, FiniteSets

CONSTANTS
  Client,     \* threads that open a device
  Trid,       \* transport ids
  Pci,        \* those spdk_pci_addr_parse accepts
  MayStop     \* is the manager destroyed at some time

ASSUME ManagerAssumption == Pci \subseteq Trid /\ MayStop \in BOOLEAN

Dpdk == "dpdk"
Destructor == "destructor"
None == "none"

VARIABLES
  lock,                \* holder of NVMEManager::lock
  probe_queue_lock,    \* holder of probe_queue_lock
  waiting,             \* threads waiting on probe_queue_cond
  probe_queue,         \* clients whose ProbeContext is queued
  ctx,                 \* the ProbeContext of each client
  shared_driver_datas, \* registered controllers
  stopping,
  pc,                  \* of the clients, of the dpdk thread and of the destructor
  probing,             \* the client whose context the dpdk thread has taken
  trid,                \* the transport id the dpdk thread was started with
  got,                 \* what try_get last gave each client
  failed               \* the assertion that ended the process

vars == <<lock, probe_queue_lock, waiting, probe_queue, ctx, shared_driver_datas,
          stopping, pc, probing, trid, got, failed>>

(* A SharedDriverData: the transport id it was registered under and the      *)
(* device its controller was attached at.                                    *)
SharedDriverData == [trid : Trid, at : Trid]
Driver == SharedDriverData \cup {[trid |-> None, at |-> None]}
NoDriver == [trid |-> None, at |-> None]

Init ==
  /\ lock = None /\ probe_queue_lock = None
  /\ waiting = {} /\ probe_queue = << >>
  /\ ctx = [c \in Client |-> [trid |-> None, driver |-> NoDriver, done |-> FALSE]]
  /\ shared_driver_datas = {}
  /\ stopping = FALSE
  /\ pc = [x \in Client \cup {Dpdk, Destructor} |-> "idle"]
  /\ probing = None /\ trid = None
  /\ got = [c \in Client |-> NoDriver]
  /\ failed = None

Goto(x, l) == pc' = [pc EXCEPT ![x] = l]
notify_all == waiting' = {}

----------------------------------------------------------------------------
(* try_get                                                                   *)

(* Variant: the driver of the ProbeContext is left uninitialised.            *)
CallUninitialised(c, id) ==
  /\ pc[c] = "idle" /\ pc[Destructor] # "destroyed"
  /\ ctx' = [ctx EXCEPT ![c] = [trid |-> id, driver |-> [trid |-> "garbage", at |-> None],
                               done |-> FALSE]]
  /\ Goto(c, "lock")
  /\ UNCHANGED <<lock, probe_queue_lock, waiting, probe_queue, shared_driver_datas,
                 stopping, probing, trid, got, failed>>

Call(c, id) ==
  /\ pc[c] = "idle" /\ pc[Destructor] # "destroyed"
  /\ ctx' = [ctx EXCEPT ![c] = [trid |-> id, driver |-> NoDriver, done |-> FALSE]]
  /\ Goto(c, "lock")
  /\ UNCHANGED <<lock, probe_queue_lock, waiting, probe_queue, shared_driver_datas,
                 stopping, probing, trid, got, failed>>

Known(c) == {d \in shared_driver_datas : d.trid = ctx[c].trid}

Enters(c) == pc[c] = "lock" /\ lock = None /\ pc[Destructor] # "destroyed"

(* The controller is registered already.                                     *)
Found(c) ==
  /\ Enters(c)
  /\ \E d \in Known(c) : got' = [got EXCEPT ![c] = d]
  /\ Goto(c, "idle")
  /\ UNCHANGED <<lock, probe_queue_lock, waiting, probe_queue, ctx, shared_driver_datas,
                 stopping, probing, trid, failed>>

(* It is not: keep the lock, and start the dpdk thread the first time.       *)
NotFound(c) ==
  /\ Enters(c) /\ Known(c) = {}
  /\ lock' = c
  /\ IF pc[Dpdk] = "idle"
       THEN /\ pc' = [pc EXCEPT ![c] = "push", ![Dpdk] = "start"]
            /\ trid' = ctx[c].trid
       ELSE /\ Goto(c, "push")
            /\ UNCHANGED trid
  /\ UNCHANGED <<probe_queue_lock, waiting, probe_queue, ctx, shared_driver_datas,
                 stopping, probing, got, failed>>

(* Variant: try_get as it was before the bug fix, without notify_all.        *)
PushQuietly(c) ==
  /\ pc[c] = "push" /\ probe_queue_lock = None
  /\ probe_queue' = Append(probe_queue, c)
  /\ waiting' = waiting \cup {c}
  /\ Goto(c, "wait")
  /\ UNCHANGED <<lock, probe_queue_lock, ctx, shared_driver_datas, stopping, probing,
                 trid, got, failed>>

(* Queue the request, notify, and, as it is not done yet, wait.              *)
Push(c) ==
  /\ pc[c] = "push" /\ probe_queue_lock = None
  /\ probe_queue' = Append(probe_queue, c)
  /\ waiting' = {c}
  /\ Goto(c, "wait")
  /\ UNCHANGED <<lock, probe_queue_lock, ctx, shared_driver_datas, stopping, probing,
                 trid, got, failed>>

(* Variant: wait once, if (!ctx.done) instead of while (!ctx.done).          *)
DoneOrNot(c) ==
  /\ pc[c] = "wait" /\ c \notin waiting /\ probe_queue_lock = None
  /\ got' = [got EXCEPT ![c] = ctx[c].driver]
  /\ lock' = None
  /\ Goto(c, "idle")
  /\ UNCHANGED <<probe_queue_lock, waiting, probe_queue, ctx, shared_driver_datas,
                 stopping, probing, trid, failed>>

(* Awake and done: return the driver, or -1 without one.                     *)
Done(c) ==
  /\ pc[c] = "wait" /\ c \notin waiting /\ probe_queue_lock = None
  /\ ctx[c].done
  /\ got' = [got EXCEPT ![c] = ctx[c].driver]
  /\ lock' = None
  /\ Goto(c, "idle")
  /\ UNCHANGED <<probe_queue_lock, waiting, probe_queue, ctx, shared_driver_datas,
                 stopping, probing, trid, failed>>

NotDone(c) ==
  /\ pc[c] = "wait" /\ c \notin waiting /\ probe_queue_lock = None
  /\ ~ ctx[c].done
  /\ waiting' = waiting \cup {c}
  /\ UNCHANGED <<lock, probe_queue_lock, probe_queue, ctx, shared_driver_datas, stopping,
                 pc, probing, trid, got, failed>>

----------------------------------------------------------------------------
(* The dpdk thread: it holds probe_queue_lock except while it waits.         *)

DpdkStart ==
  /\ pc[Dpdk] = "start" /\ probe_queue_lock = None
  /\ probe_queue_lock' = Dpdk
  /\ Goto(Dpdk, "loop")
  /\ UNCHANGED <<lock, waiting, probe_queue, ctx, shared_driver_datas, stopping, probing,
                 trid, got, failed>>

DpdkPop ==
  /\ pc[Dpdk] = "loop" /\ ~ stopping /\ probe_queue # << >>
  /\ probing' = Head(probe_queue)
  /\ probe_queue' = Tail(probe_queue)
  /\ Goto(Dpdk, "probe")
  /\ UNCHANGED <<lock, probe_queue_lock, waiting, ctx, shared_driver_datas, stopping,
                 trid, got, failed>>

DpdkWait ==
  /\ pc[Dpdk] = "loop" /\ ~ stopping /\ probe_queue = << >>
  /\ waiting' = waiting \cup {Dpdk}
  /\ probe_queue_lock' = None
  /\ Goto(Dpdk, "wait")
  /\ UNCHANGED <<lock, probe_queue, ctx, shared_driver_datas, stopping, probing, trid,
                 got, failed>>

DpdkWake ==
  /\ pc[Dpdk] = "wait" /\ Dpdk \notin waiting /\ probe_queue_lock = None
  /\ probe_queue_lock' = Dpdk
  /\ Goto(Dpdk, "loop")
  /\ UNCHANGED <<lock, waiting, probe_queue, ctx, shared_driver_datas, stopping, probing,
                 trid, got, failed>>

(* stopping: answer what is queued, and end.                                 *)
DpdkDrain ==
  /\ pc[Dpdk] = "loop" /\ stopping
  /\ ctx' = [c \in Client |-> IF \E i \in DOMAIN probe_queue : probe_queue[i] = c
                                THEN [ctx[c] EXCEPT !.done = TRUE] ELSE ctx[c]]
  /\ notify_all
  /\ probe_queue_lock' = None
  /\ Goto(Dpdk, "exited")
  /\ UNCHANGED <<lock, probe_queue, shared_driver_datas, stopping, probing, trid, got,
                 failed>>

(* What spdk_nvme_probe offers to probe_cb, of the devices that answer just   *)
(* now (present): they come and go.                                          *)
Reported(present) == IF trid \in Pci THEN present \cap Pci ELSE present \cap {trid}

(* probe_cb: attach?  Over PCI a mere comparison, else asserted.             *)
do_attach(at) == IF trid \in Pci THEN at = ctx[probing].trid ELSE TRUE
(* Variant: no assertion, attach whatever answers.                           *)
no_assert(at) == TRUE
probe_cb_asserts(at) == trid \notin Pci => at = ctx[probing].trid

(* register_ctrlr asserts that the lock is held and no controller known.     *)
register_asserts == lock # None /\ shared_driver_datas = {}

ProbeAnswers(driver) ==
  /\ ctx' = [ctx EXCEPT ![probing].driver = driver, ![probing].done = TRUE]
  /\ probing' = None
  /\ notify_all
  /\ Goto(Dpdk, "loop")

(* No device is attached; a probe that fails (r < 0) before it has attached    *)
(* one leaves the same state, as if none were present.                       *)
ProbeFindsNothing ==
  /\ pc[Dpdk] = "probe"
  /\ \E present \in SUBSET Trid :
       \A at \in Reported(present) : probe_cb_asserts(at) /\ ~ do_attach(at)
  /\ ProbeAnswers(NoDriver)
  /\ UNCHANGED <<lock, probe_queue_lock, probe_queue, shared_driver_datas, stopping,
                 trid, got, failed>>

(* attach_cb: the controller is registered under the transport id wanted.    *)
ProbeAttaches ==
  /\ pc[Dpdk] = "probe"
  /\ \E present \in SUBSET Trid : \E at \in Reported(present) :
       /\ probe_cb_asserts(at) /\ do_attach(at) /\ register_asserts
       /\ LET d == [trid |-> ctx[probing].trid, at |-> at]
          IN  shared_driver_datas' = shared_driver_datas \cup {d} /\ ProbeAnswers(d)
  /\ UNCHANGED <<lock, probe_queue_lock, probe_queue, stopping, trid, got, failed>>

(* A failed assertion ends the process, all its threads at once: those of     *)
(* probe_cb and register_ctrlr, and that a failed probe has set no driver.    *)
ProbeAsserts ==
  /\ pc[Dpdk] = "probe"
  /\ \E present \in SUBSET Trid : \E at \in Reported(present) :
       \/ ~ probe_cb_asserts(at) /\ failed' = "not the specified trid"
       \/ probe_cb_asserts(at) /\ do_attach(at) /\ ~ register_asserts
            /\ failed' = "not the only controller"
       \/ probe_cb_asserts(at) /\ do_attach(at) /\ register_asserts
            /\ failed' = "driver of a failed probe"
  /\ pc' = [x \in DOMAIN pc |-> "dead"]
  /\ UNCHANGED <<lock, probe_queue_lock, waiting, probe_queue, ctx, shared_driver_datas,
                 stopping, probing, trid, got>>

----------------------------------------------------------------------------
(* ~NVMEManager                                                              *)

Destroy ==
  /\ MayStop /\ pc[Destructor] = "idle"
  /\ Goto(Destructor, IF pc[Dpdk] = "idle" THEN "destroyed" ELSE "stop")
  /\ UNCHANGED <<lock, probe_queue_lock, waiting, probe_queue, ctx, shared_driver_datas,
                 stopping, probing, trid, got, failed>>

(* Variant: stopping is set and nobody notified.                             *)
StopQuietly ==
  /\ pc[Destructor] = "stop" /\ probe_queue_lock = None
  /\ stopping' = TRUE
  /\ Goto(Destructor, "join")
  /\ UNCHANGED <<lock, probe_queue_lock, waiting, probe_queue, ctx, shared_driver_datas,
                 probing, trid, got, failed>>

Stop ==
  /\ pc[Destructor] = "stop" /\ probe_queue_lock = None
  /\ stopping' = TRUE
  /\ notify_all
  /\ Goto(Destructor, "join")
  /\ UNCHANGED <<lock, probe_queue_lock, probe_queue, ctx, shared_driver_datas, probing,
                 trid, got, failed>>

Join ==
  /\ pc[Destructor] = "join" /\ pc[Dpdk] = "exited"
  /\ Goto(Destructor, "destroyed")
  /\ UNCHANGED <<lock, probe_queue_lock, waiting, probe_queue, ctx, shared_driver_datas,
                 stopping, probing, trid, got, failed>>

----------------------------------------------------------------------------
(* A condition variable may wake a thread that nobody notified.              *)
SpuriousWakeup(x) ==
  /\ x \in waiting
  /\ waiting' = waiting \ {x}
  /\ UNCHANGED <<lock, probe_queue_lock, probe_queue, ctx, shared_driver_datas, stopping,
                 pc, probing, trid, got, failed>>

Try_get(c) == Found(c) \/ NotFound(c) \/ Push(c) \/ Done(c) \/ NotDone(c)

DpdkThread ==
  \/ DpdkStart \/ DpdkPop \/ DpdkWait \/ DpdkWake \/ DpdkDrain
  \/ ProbeFindsNothing \/ ProbeAttaches \/ ProbeAsserts

DestructorRuns == Stop \/ Join

Next ==
  \/ \E c \in Client : Try_get(c) \/ \E id \in Trid : Call(c, id)
  \/ DpdkThread \/ Destroy \/ DestructorRuns
  \/ \E x \in Client \cup {Dpdk} : SpuriousWakeup(x)

Spec == Init /\ [][Next]_vars

(* Threads keep running, and probe_queue_lock starves nobody: the dpdk       *)
(* thread may take and leave it over and over.                               *)
Fairness ==
  /\ WF_vars(DpdkThread)
  /\ SF_vars(Stop) /\ WF_vars(Join)
  /\ \A c \in Client : SF_vars((Push(c) \/ Done(c)))

FairSpec == Spec /\ Fairness
----------------------------------------------------------------------------
(* Properties.                                                               *)

(* Type correctness.  The drained queue is not cleared: a request the dpdk    *)
(* thread answered at its end stays in it, and one more can follow, which    *)
(* nobody answers.                                                           *)
TypeOK ==
  /\ lock \in Client \cup {None}
  /\ probe_queue_lock \in {Dpdk, None}
  /\ waiting \subseteq Client \cup {Dpdk}
  /\ probe_queue \in Seq(Client) /\ Len(probe_queue) <= 2
  /\ ctx \in [Client -> [trid : Trid \cup {None}, driver : Driver, done : BOOLEAN]]
  /\ shared_driver_datas \subseteq SharedDriverData
  /\ stopping \in BOOLEAN
  /\ pc \in [Client \cup {Dpdk, Destructor} ->
             {"idle", "lock", "push", "wait", "start", "loop", "probe", "exited",
              "stop", "join", "destroyed", "dead"}]
  /\ probing \in Client \cup {None}
  /\ trid \in Trid \cup {None}
  /\ got \in [Client -> Driver]

Queued(c) ==
  /\ pc[Dpdk] \notin {"exited", "dead"}
  /\ c = probing \/ \E i \in DOMAIN probe_queue : probe_queue[i] = c

(* A ProbeContext lives on the stack of try_get.  While the dpdk thread can   *)
(* reach one, its client is inside the wait and holds NVMEManager::lock,     *)
(* which register_ctrlr asserts from another thread.                         *)
ContextIsLive == \A c \in Client : Queued(c) => pc[c] = "wait" /\ lock = c

(* What try_get returns is the controller at the address that was asked for,  *)
(* or none: never another device, though the dpdk thread probes for the       *)
(* first address it was ever given and registers under the one asked for.     *)
AnswerIsRight ==
  \A c \in Client : pc[c] = "idle" =>
    got[c] \in {NoDriver, [trid |-> ctx[c].trid, at |-> ctx[c].trid]}

(* A queued request is answered, whether the dpdk thread has been waiting,    *)
(* was probing or is stopped.                                                 *)
QueuedAnswered ==
  \A c \in Client : Queued(c) ~> (pc[c] # "wait")

(* The destructor joins a thread that does come to its end.                   *)
DestructorReturns ==
  (pc[Destructor] = "stop") ~> (pc[Destructor] \in {"destroyed", "dead"})

(* "for non-pcie devices, should always match the specified trid"             *)
(* (nvme_manager.cpp): the assertion of probe_cb never fails.                 *)
AlwaysTheSpecifiedTrid == failed # "not the specified trid"
=============================================================================

------------------------- MODULE NvmeManagerProofs -------------------------
(***************************************************************************)
(* Proofs about try_get and the dpdk thread, for any number of clients and *)
(* any transport ids.                                                      *)
(***************************************************************************)
EXTENDS NvmeManager, SequenceTheorems, TLAPS

(* The dpdk thread and the destructor are no clients.                        *)
ThreadsDiffer == Dpdk \notin Client /\ Destructor \notin Client /\ None \notin Client

----------------------------------------------------------------------------
(* The inductive invariant.                                                  *)

Places == {"idle", "lock", "push", "wait", "start", "loop", "probe", "exited",
           "stop", "join", "destroyed", "dead"}

(* A controller is registered under the address it was attached at.          *)
Types ==
  /\ pc \in [Client \cup {Dpdk, Destructor} -> Places]
  /\ probe_queue \in Seq(Client)
  /\ ctx \in [Client -> [trid : Trid \cup {None}, driver : Driver, done : BOOLEAN]]
  /\ got \in [Client -> Driver]
  /\ probing \in Client \cup {None}
  /\ shared_driver_datas \subseteq {d \in SharedDriverData : d.at = d.trid}

(* A client has NVMEManager::lock from its request to the answer, ...         *)
Locked == \A c \in Client : pc[c] \in {"push", "wait"} => lock = c

(* ... makes a request that is not done ...                                  *)
Fresh == \A c \in Client : pc[c] \in {"lock", "push"} => ~ ctx[c].done

(* ... and waits until it is: one request at a time is queued or probed for.  *)
DpdkEnded == pc[Dpdk] \in {"exited", "dead"}

OneRequest ==
  ~ DpdkEnded =>
    /\ Len(probe_queue) <= 1
    /\ probing # None => probe_queue = << >>
    /\ \A c \in Client : Queued(c) => pc[c] = "wait" /\ ~ ctx[c].done

Probing ==
  /\ pc[Dpdk] = "probe" => probing # None
  /\ pc[Dpdk] \notin {"probe", "dead"} => probing = None

(* What a client is given is the controller at its address, or none.         *)
Right(c) == {NoDriver, [trid |-> ctx[c].trid, at |-> ctx[c].trid]}

Answers ==
  \A c \in Client :
    /\ ctx[c].driver \in Right(c)
    /\ pc[c] = "idle" => got[c] \in Right(c)

IInv == Types /\ Locked /\ Fresh /\ OneRequest /\ Probing /\ Answers

LEMMA InvInit ==
  ASSUME ThreadsDiffer, Init
  PROVE  IInv
<1>1. Types
  BY DEF Init, Types, Places, NoDriver, Driver
<1>2. Locked /\ Fresh /\ OneRequest /\ Probing /\ Answers
  BY DEF Init, ThreadsDiffer, Locked, Fresh, OneRequest, Queued, DpdkEnded, Probing, Answers,
     Right, NoDriver
<1> QED
  BY <1>1, <1>2 DEF IInv

(* Steps that leave requests, answers and the places of the clients alone.    *)
LEMMA ElsewhereKeeps ==
  ASSUME ThreadsDiffer, IInv,
         UNCHANGED <<probe_queue, ctx, got, probing, shared_driver_datas, lock>>,
         pc' \in [Client \cup {Dpdk, Destructor} -> Places],
         \A c \in Client : pc'[c] = pc[c],
         pc'[Dpdk] = pc[Dpdk] \/ (pc[Dpdk] \notin {"probe", "exited", "dead"}
                                   /\ pc'[Dpdk] \notin {"probe", "exited", "dead"})
  PROVE  IInv'
BY DEF IInv, Types, Locked, Fresh, OneRequest, Queued, DpdkEnded, Probing, Answers, Right

----------------------------------------------------------------------------
(* The clients.                                                              *)

LEMMA CallStep ==
  ASSUME ThreadsDiffer, IInv, NEW c \in Client, NEW i \in Trid, Call(c, i)
  PROVE  IInv'
<1> USE DEF IInv
<1>1. /\ pc[c] = "idle" /\ pc' = [pc EXCEPT ![c] = "lock"]
      /\ ctx' = [ctx EXCEPT ![c] = [trid |-> i, driver |-> NoDriver, done |-> FALSE]]
      /\ UNCHANGED <<probe_queue, got, probing, shared_driver_datas, lock>>
  BY DEF Call, Goto
<1>2. Types'
  BY <1>1 DEF Types, Places, Driver, NoDriver
<1>3. /\ pc'[Dpdk] = pc[Dpdk] /\ pc'[c] = "lock"
      /\ \A d \in Client : d # c => pc'[d] = pc[d] /\ ctx'[d] = ctx[d]
      /\ ctx'[c] = [trid |-> i, driver |-> NoDriver, done |-> FALSE]
  BY <1>1 DEF ThreadsDiffer, Types
<1>7. ctx'[c].driver = NoDriver /\ ~ ctx'[c].done
  BY <1>3
<1>4. Locked' /\ Fresh' /\ Probing'
  BY <1>1, <1>3, <1>7 DEF Locked, Fresh, Probing
<1>6. Answers'
  <2>1. ASSUME NEW d \in Client, d # c
        PROVE  ctx'[d].driver \in Right(d)' /\ (pc'[d] = "idle" => got'[d] \in Right(d)')
    BY <1>1, <1>3, <2>1 DEF Answers, Right
  <2>2. ctx'[c].driver = NoDriver /\ pc'[c] # "idle"
    BY <1>3, <1>7
  <2>3. NoDriver \in Right(c)'
    BY DEF Right
  <2> QED
    BY <2>1, <2>2, <2>3 DEF Answers
<1>5. OneRequest'
  BY <1>1, <1>3 DEF OneRequest, Queued, DpdkEnded
<1> QED
  BY <1>2, <1>4, <1>5, <1>6

LEMMA FoundStep ==
  ASSUME ThreadsDiffer, IInv, NEW c \in Client, Found(c)
  PROVE  IInv'
<1> USE DEF IInv
<1>1. PICK d \in Known(c) : got' = [got EXCEPT ![c] = d]
  BY DEF Found
<1>2. /\ pc[c] = "lock" /\ pc' = [pc EXCEPT ![c] = "idle"]
      /\ UNCHANGED <<probe_queue, ctx, probing, shared_driver_datas, lock>>
  BY DEF Found, Enters, Goto
<1>3. d \in SharedDriverData /\ d.at = d.trid /\ d.trid = ctx[c].trid
  BY <1>1 DEF Known, Types
<1>4. d \in Right(c)
  BY <1>3 DEF SharedDriverData, Right
<1>5. Types'
  BY <1>1, <1>2, <1>3 DEF Types, Places, Driver
<1>6. pc'[Dpdk] = pc[Dpdk] /\ pc'[c] = "idle" /\ got'[c] = d
      /\ \A e \in Client : e # c => pc'[e] = pc[e] /\ got'[e] = got[e]
  BY <1>1, <1>2 DEF ThreadsDiffer, Types
<1>7. Locked' /\ Fresh' /\ Probing'
  BY <1>2, <1>6 DEF Locked, Fresh, Probing
<1>8. Answers'
  BY <1>2, <1>4, <1>6 DEF Answers, Right
<1>9. OneRequest'
  BY <1>2, <1>6 DEF OneRequest, Queued, DpdkEnded
<1> QED
  BY <1>5, <1>7, <1>8, <1>9

LEMMA NotFoundStep ==
  ASSUME ThreadsDiffer, IInv, NEW c \in Client, NotFound(c)
  PROVE  IInv'
<1> USE DEF IInv
<1>1. /\ pc[c] = "lock" /\ lock = None /\ lock' = c
      /\ UNCHANGED <<probe_queue, ctx, probing, shared_driver_datas, got>>
  BY DEF NotFound, Enters
<1>2. /\ pc' \in [Client \cup {Dpdk, Destructor} -> Places] /\ pc'[c] = "push"
      /\ \A e \in Client : e # c => pc'[e] = pc[e]
      /\ pc'[Dpdk] = IF pc[Dpdk] = "idle" THEN "start" ELSE pc[Dpdk]
  BY DEF NotFound, Goto, ThreadsDiffer, Types, Places
<1>3. Types'
  BY <1>1, <1>2 DEF Types
<1>4. Locked' /\ Fresh' /\ Probing' /\ Answers'
  BY <1>1, <1>2 DEF ThreadsDiffer, Locked, Fresh, Probing, Answers, Right
<1>5. OneRequest'
  BY <1>1, <1>2 DEF OneRequest, Queued, DpdkEnded
<1> QED
  BY <1>3, <1>4, <1>5

(* Nothing is queued or probed for when a client pushes its request: whoever   *)
(* made an earlier one has the lock.                                         *)
LEMMA PushStep ==
  ASSUME ThreadsDiffer, IInv, NEW c \in Client, Push(c)
  PROVE  IInv'
<1> USE DEF IInv
<1>1. /\ pc[c] = "push" /\ pc' = [pc EXCEPT ![c] = "wait"]
      /\ probe_queue' = Append(probe_queue, c)
      /\ UNCHANGED <<ctx, probing, shared_driver_datas, got, lock>>
  BY DEF Push, Goto
<1>2. Types'
  BY <1>1 DEF Types, Places
<1>3. pc'[Dpdk] = pc[Dpdk] /\ pc'[c] = "wait" /\ \A e \in Client : e # c => pc'[e] = pc[e]
  BY <1>1 DEF ThreadsDiffer, Types
<1>4. Locked' /\ Fresh' /\ Probing' /\ Answers'
  BY <1>1, <1>3 DEF Locked, Fresh, Probing, Answers, Right
<1>5. ASSUME ~ DpdkEnded PROVE probe_queue = << >> /\ probing = None
  <2>1. \A d \in Client : ~ Queued(d)
    BY <1>1, <1>5 DEF OneRequest, Locked
  <2>2. probing = None
    BY <1>5, <2>1 DEF Queued, Types, DpdkEnded
  <2>3. probe_queue # << >> => 1 \in DOMAIN probe_queue /\ probe_queue[1] \in Client
    BY DEF Types
  <2> QED
    BY <1>5, <2>1, <2>2, <2>3 DEF Queued, DpdkEnded
<1>6. OneRequest'
  <2> SUFFICES ASSUME ~ DpdkEnded PROVE OneRequest'
    BY <1>3 DEF OneRequest, DpdkEnded
  <2>1. probe_queue' = <<c>> /\ probing' = None
    BY <1>1, <1>5
  <2>2. Len(probe_queue') = 1 /\ DOMAIN probe_queue' = {1} /\ probe_queue'[1] = c
    BY <2>1
  <2>3. \A d \in Client : Queued(d)' => d = c
    BY <2>1, <2>2 DEF Queued, ThreadsDiffer
  <2>4. ~ ctx[c].done
    BY <1>1 DEF Fresh
  <2> QED
    BY <1>1, <1>3, <2>1, <2>2, <2>3, <2>4 DEF OneRequest
<1> QED
  BY <1>2, <1>4, <1>6

LEMMA DoneStep ==
  ASSUME ThreadsDiffer, IInv, NEW c \in Client, Done(c)
  PROVE  IInv'
<1> USE DEF IInv
<1>1. /\ pc[c] = "wait" /\ ctx[c].done /\ pc' = [pc EXCEPT ![c] = "idle"] /\ lock' = None
      /\ got' = [got EXCEPT ![c] = ctx[c].driver]
      /\ UNCHANGED <<probe_queue, ctx, probing, shared_driver_datas>>
  BY DEF Done, Goto
<1>2. Types'
  BY <1>1 DEF Types, Places
<1>3. pc'[Dpdk] = pc[Dpdk] /\ pc'[c] = "idle" /\ got'[c] = ctx[c].driver
      /\ \A e \in Client : e # c => pc'[e] = pc[e] /\ got'[e] = got[e]
  BY <1>1 DEF ThreadsDiffer, Types
<1>4. Locked' /\ Fresh' /\ Probing' /\ Answers'
  BY <1>1, <1>3 DEF Locked, Fresh, Probing, Answers, Right
<1>5. OneRequest'
  BY <1>1, <1>3 DEF OneRequest, Queued, DpdkEnded
<1> QED
  BY <1>2, <1>4, <1>5

----------------------------------------------------------------------------
(* The dpdk thread.                                                          *)

LEMMA PopStep ==
  ASSUME ThreadsDiffer, IInv, DpdkPop
  PROVE  IInv'
<1> USE DEF IInv
<1>1. /\ pc[Dpdk] = "loop" /\ probe_queue # << >> /\ probing' = Head(probe_queue)
      /\ probe_queue' = Tail(probe_queue) /\ pc' = [pc EXCEPT ![Dpdk] = "probe"]
      /\ UNCHANGED <<ctx, shared_driver_datas, got, lock>>
  BY DEF DpdkPop, Goto
<1>2. Types'
  BY <1>1 DEF Types, Places
<1>3. pc'[Dpdk] = "probe" /\ \A e \in Client : pc'[e] = pc[e]
  BY <1>1 DEF ThreadsDiffer, Types
<1>4. Locked' /\ Fresh' /\ Answers'
  BY <1>1, <1>3 DEF Locked, Fresh, Answers, Right
<1>5. Len(probe_queue) <= 1
  BY <1>1 DEF OneRequest, DpdkEnded
<1>6. /\ probe_queue' = << >> /\ probing' \in Client
      /\ \A d \in Client : Queued(d)' => Queued(d)
  <2>1. probe_queue \in Seq(Client) /\ Len(probe_queue) = 1
    <3>1. probe_queue \in Seq(Client) /\ Len(probe_queue) \in Nat
      BY DEF Types
    <3>2. Len(probe_queue) # 0
      BY <1>1, <3>1
    <3> QED
      BY <1>5, <3>1, <3>2
  <2>2. probe_queue' = << >> /\ probing' = probe_queue[1] /\ probing' \in Client
    BY <1>1, <2>1
  <2>3. 1 \in DOMAIN probe_queue
    BY <2>1
  <2> QED
    BY <1>1, <2>2, <2>3 DEF Queued
<1>7. Probing' /\ OneRequest'
  <2>1. Len(probe_queue') = 0 /\ probing' # None
    BY <1>6 DEF ThreadsDiffer
  <2> QED
    BY <1>1, <1>3, <1>6, <2>1 DEF Probing, OneRequest, DpdkEnded
<1> QED
  BY <1>2, <1>4, <1>7

LEMMA DrainStep ==
  ASSUME ThreadsDiffer, IInv, DpdkDrain
  PROVE  IInv'
<1> USE DEF IInv
<1> DEFINE queued(c) == \E i \in DOMAIN probe_queue : probe_queue[i] = c
<1>1. /\ pc[Dpdk] = "loop" /\ pc' = [pc EXCEPT ![Dpdk] = "exited"]
      /\ ctx' = [c \in Client |-> IF queued(c) THEN [ctx[c] EXCEPT !.done = TRUE] ELSE ctx[c]]
      /\ UNCHANGED <<probe_queue, probing, shared_driver_datas, got, lock>>
  BY DEF DpdkDrain, Goto
<1>2. pc' \in [Client \cup {Dpdk, Destructor} -> Places]
      /\ pc'[Dpdk] = "exited" /\ \A e \in Client : pc'[e] = pc[e]
  BY <1>1 DEF ThreadsDiffer, Types, Places
<1>3. ASSUME NEW c \in Client
      PROVE  /\ ctx'[c] \in [trid : Trid \cup {None}, driver : Driver, done : BOOLEAN]
             /\ ctx'[c].trid = ctx[c].trid /\ ctx'[c].driver = ctx[c].driver
             /\ pc[c] # "wait" => ctx'[c] = ctx[c]
  <2>1. ctx[c] \in [trid : Trid \cup {None}, driver : Driver, done : BOOLEAN]
    BY DEF Types
  <2>2. queued(c) => pc[c] = "wait"
    BY <1>1 DEF OneRequest, Queued, DpdkEnded
  <2> QED
    BY <1>1, <2>1, <2>2
<1>4. Types'
  BY <1>1, <1>2, <1>3 DEF Types
<1>5. Locked' /\ Fresh' /\ Probing' /\ Answers'
  BY <1>1, <1>2, <1>3 DEF Locked, Fresh, Probing, Answers, Right
<1>6. OneRequest'
  BY <1>2 DEF OneRequest, DpdkEnded
<1> QED
  BY <1>4, <1>5, <1>6

(* An answer goes to the client probed for, which waits for it.              *)
LEMMA AnswerStep ==
  ASSUME ThreadsDiffer, IInv, pc[Dpdk] = "probe", NEW d \in Driver, d \in Right(probing),
         ProbeAnswers(d),
         shared_driver_datas' \subseteq {e \in SharedDriverData : e.at = e.trid},
         UNCHANGED <<lock, probe_queue, got>>
  PROVE  IInv'
<1> USE DEF IInv
<1>1. /\ probing \in Client /\ pc[probing] = "wait"
      /\ probe_queue = << >>
  BY DEF Types, Probing, OneRequest, Queued, DpdkEnded
<1>2. /\ ctx' = [ctx EXCEPT ![probing].driver = d, ![probing].done = TRUE]
      /\ probing' = None /\ pc' = [pc EXCEPT ![Dpdk] = "loop"]
  BY DEF ProbeAnswers, Goto
<1>3. pc' \in [Client \cup {Dpdk, Destructor} -> Places]
      /\ pc'[Dpdk] = "loop" /\ \A e \in Client : pc'[e] = pc[e]
  BY <1>2 DEF ThreadsDiffer, Types, Places
<1>4. /\ \A e \in Client : e # probing => ctx'[e] = ctx[e]
      /\ ctx'[probing].trid = ctx[probing].trid /\ ctx'[probing].driver = d
      /\ ctx' \in [Client -> [trid : Trid \cup {None}, driver : Driver, done : BOOLEAN]]
  BY <1>1, <1>2 DEF Types
<1>5. Types'
  BY <1>2, <1>3, <1>4 DEF Types
<1>6. Locked' /\ Fresh' /\ Probing'
  BY <1>1, <1>2, <1>3, <1>4 DEF Locked, Fresh, Probing
<1>7. Answers'
  BY <1>1, <1>3, <1>4 DEF Answers, Right
<1>8. OneRequest'
  BY <1>1, <1>2, <1>3 DEF OneRequest, Queued, ThreadsDiffer
<1> QED
  BY <1>5, <1>6, <1>7, <1>8

LEMMA AttachStep ==
  ASSUME ThreadsDiffer, ManagerAssumption, IInv, ProbeAttaches
  PROVE  IInv'
<1>1. PICK at \in Trid :
        /\ probe_cb_asserts(at) /\ do_attach(at)
        /\ shared_driver_datas' = shared_driver_datas \cup {[trid |-> ctx[probing].trid, at |-> at]}
        /\ ProbeAnswers([trid |-> ctx[probing].trid, at |-> at])
  BY DEF ProbeAttaches, Reported
<1>2. at = ctx[probing].trid
  BY <1>1 DEF probe_cb_asserts, do_attach
<1> DEFINE d == [trid |-> at, at |-> at]
<1>3. d \in SharedDriverData /\ d.at = d.trid /\ d \in Driver /\ d \in Right(probing)
  BY <1>2 DEF SharedDriverData, Driver, Right
<1>4. shared_driver_datas' \subseteq {e \in SharedDriverData : e.at = e.trid}
  BY <1>1, <1>2, <1>3 DEF IInv, Types
<1>5. pc[Dpdk] = "probe" /\ UNCHANGED <<lock, probe_queue, got>> /\ ProbeAnswers(d)
  BY <1>1, <1>2 DEF ProbeAttaches
<1> QED
  BY <1>3, <1>4, <1>5, AnswerStep

(* Each action keeps the invariant.                                          *)
LEMMA InvStep ==
  ASSUME ThreadsDiffer, IInv, [Next]_vars
  PROVE  IInv'
<1>t. pc \in [Client \cup {Dpdk, Destructor} -> Places]
  BY DEF IInv, Types
<1>1. ASSUME NEW c \in Client, NEW i \in Trid, Call(c, i) PROVE IInv'
  BY <1>1, CallStep
<1>2. ASSUME NEW c \in Client, Try_get(c) PROVE IInv'
  <2>1. CASE NotDone(c)
    BY <1>t, <2>1, ElsewhereKeeps DEF NotDone
  <2> QED
    BY <1>2, <2>1, FoundStep, NotFoundStep, PushStep, DoneStep DEF Try_get
<1>3. CASE DpdkThread
  <2>1. CASE DpdkStart \/ DpdkWait \/ DpdkWake
    <3>1. UNCHANGED <<probe_queue, ctx, got, probing, shared_driver_datas, lock>>
      BY <2>1 DEF DpdkStart, DpdkWait, DpdkWake
    <3>2. /\ pc' \in [Client \cup {Dpdk, Destructor} -> Places]
          /\ \A c \in Client : pc'[c] = pc[c]
          /\ pc[Dpdk] \notin {"probe", "exited", "dead"}
          /\ pc'[Dpdk] \notin {"probe", "exited", "dead"}
      BY <1>t, <2>1 DEF DpdkStart, DpdkWait, DpdkWake, Goto, Places, ThreadsDiffer
    <3> QED
      BY <3>1, <3>2, ElsewhereKeeps
  <2>2. CASE ProbeFindsNothing
    <3>1. NoDriver \in Driver /\ NoDriver \in Right(probing)
      BY DEF NoDriver, Driver, Right
    <3>2. shared_driver_datas' \subseteq {e \in SharedDriverData : e.at = e.trid}
      BY <2>2 DEF ProbeFindsNothing, IInv, Types
    <3> QED
      BY <2>2, <3>1, <3>2, AnswerStep DEF ProbeFindsNothing
  <2>3. CASE ProbeAsserts
    <3>1. /\ pc' = [x \in Client \cup {Dpdk, Destructor} |-> "dead"]
          /\ UNCHANGED <<probe_queue, ctx, got, probing, shared_driver_datas, lock>>
      BY <1>t, <2>3 DEF ProbeAsserts
    <3>2. pc' \in [Client \cup {Dpdk, Destructor} -> Places]
          /\ \A x \in Client \cup {Dpdk} : pc'[x] = "dead"
      BY <3>1 DEF Places
    <3> QED
      BY <3>1, <3>2 DEF IInv, Types, Locked, Fresh, OneRequest, DpdkEnded, Probing, Answers,
         Right
  <2> QED
    BY <1>3, <2>1, <2>2, <2>3, PopStep, DrainStep, AttachStep, ManagerAssumption
       DEF DpdkThread
<1>4. CASE Destroy \/ DestructorRuns
  <2>1. UNCHANGED <<probe_queue, ctx, got, probing, shared_driver_datas, lock>>
    BY <1>4 DEF Destroy, DestructorRuns, Stop, Join
  <2>2. /\ pc' \in [Client \cup {Dpdk, Destructor} -> Places]
        /\ \A c \in Client : pc'[c] = pc[c]
        /\ pc'[Dpdk] = pc[Dpdk]
    BY <1>t, <1>4 DEF Destroy, DestructorRuns, Stop, Join, Goto, Places, ThreadsDiffer, Dpdk,
       Destructor
  <2> QED
    BY <2>1, <2>2, ElsewhereKeeps
<1>5. ASSUME NEW x \in Client \cup {Dpdk}, SpuriousWakeup(x) PROVE IInv'
  BY <1>5, <1>t, ElsewhereKeeps DEF SpuriousWakeup
<1>6. CASE UNCHANGED vars
  BY <1>6, <1>t, ElsewhereKeeps DEF vars
<1> QED
  BY <1>1, <1>2, <1>3, <1>4, <1>5, <1>6 DEF Next

(* Every reachable state satisfies the invariant.                            *)
THEOREM Requests ==
  ASSUME ThreadsDiffer
  PROVE  Spec => []IInv
<1>1. Init => IInv
  BY InvInit
<1>2. IInv /\ [Next]_vars => IInv'
  BY InvStep
<1> QED
  BY <1>1, <1>2, PTL DEF Spec

----------------------------------------------------------------------------
(* What follows from it.                                                     *)

(* The ProbeContext on the stack of try_get outlives every use the dpdk       *)
(* thread makes of it, and its client holds NVMEManager::lock meanwhile.      *)
THEOREM StackOutlivesRequest ==
  ASSUME ThreadsDiffer
  PROVE  Spec => []ContextIsLive
<1>1. IInv => ContextIsLive
  BY DEF IInv, OneRequest, Locked, Queued, DpdkEnded, ContextIsLive
<1> QED
  BY <1>1, Requests, PTL

(* try_get never returns another device than the one asked for.              *)
THEOREM OwnDevice ==
  ASSUME ThreadsDiffer
  PROVE  Spec => []AnswerIsRight
<1>1. IInv => AnswerIsRight
  BY DEF IInv, Answers, Right, AnswerIsRight
<1> QED
  BY <1>1, Requests, PTL

(* The assertion of register_ctrlr that NVMEManager::lock is locked, though it *)
(* is another thread that has locked it, holds whenever the dpdk thread probes. *)
LockedWhileProbing == pc[Dpdk] = "probe" => lock # None

(* The client of the request is inside try_get's wait and keeps the lock.     *)
THEOREM LockIsHeld ==
  ASSUME ThreadsDiffer
  PROVE  Spec => []LockedWhileProbing
<1>1. ASSUME IInv PROVE LockedWhileProbing
  BY <1>1 DEF IInv, Types, OneRequest, Queued, DpdkEnded, Probing, Locked, ThreadsDiffer,
     LockedWhileProbing
<1> QED
  BY <1>1, Requests, PTL

----------------------------------------------------------------------------
(* The types of what no request depends on, and how long the queue gets.     *)

(* A second request in the queue is one the dpdk thread will not answer: its *)
(* client waits for ever, with NVMEManager::lock.                            *)
Behind ==
  Len(probe_queue) = 2 => \E c \in Client : lock = c /\ pc[c] = "wait" /\ ~ ctx[c].done

QueueBound == Len(probe_queue) <= 2 /\ Behind

Rest ==
  /\ lock \in Client \cup {None}
  /\ probe_queue_lock \in {Dpdk, None}
  /\ waiting \subseteq Client \cup {Dpdk}
  /\ stopping \in BOOLEAN
  /\ trid \in Trid \cup {None}
  /\ QueueBound

(* Steps that leave the queue and whoever waits alone.                       *)
LEMMA BoundKeeps ==
  ASSUME ThreadsDiffer, Rest, UNCHANGED <<probe_queue, lock>>,
         \A c \in Client : lock = c /\ pc[c] = "wait" /\ ~ ctx[c].done
                             => pc'[c] = "wait" /\ ~ ctx'[c].done
  PROVE  QueueBound'
BY DEF Rest, QueueBound, Behind

(* Before the dpdk thread ends there is one request at most.                 *)
LEMMA ShortKeeps ==
  ASSUME IInv, ~ DpdkEnded, probe_queue' = probe_queue \/ probe_queue' = << >>
  PROVE  QueueBound'
<1>1. Len(probe_queue) <= 1 /\ Len(probe_queue) \in Nat /\ Len(<< >>) = 0
  BY DEF IInv, OneRequest, Types
<1>2. Len(probe_queue') <= 1 /\ Len(probe_queue') \in Nat
  BY <1>1
<1> QED
  BY <1>2 DEF QueueBound, Behind

LEMMA PushBound ==
  ASSUME ThreadsDiffer, IInv, Rest, NEW c \in Client, Push(c)
  PROVE  QueueBound'
<1>1. /\ pc[c] = "push" /\ pc' = [pc EXCEPT ![c] = "wait"]
      /\ probe_queue' = Append(probe_queue, c)
      /\ UNCHANGED <<ctx, lock>>
  BY DEF Push, Goto
<1>2. lock = c /\ ~ ctx[c].done /\ pc'[c] = "wait" /\ probe_queue \in Seq(Client)
  BY <1>1 DEF IInv, Locked, Fresh, Types
<1>3. Behind'
  BY <1>1, <1>2 DEF Behind
<1>4. Len(probe_queue') = Len(probe_queue) + 1 /\ Len(probe_queue) \in Nat
  BY <1>1, <1>2
<1>5. Len(probe_queue) # 2 /\ Len(probe_queue) <= 2
  BY <1>1, <1>2 DEF Rest, QueueBound, Behind
<1>6. ASSUME NEW n \in Nat, n # 2, n <= 2 PROVE n + 1 <= 2
  BY <1>6
<1>7. Len(probe_queue') <= 2
  BY <1>4, <1>5, <1>6
<1> QED
  BY <1>3, <1>7 DEF QueueBound

LEMMA RestStep ==
  ASSUME ThreadsDiffer, ManagerAssumption, IInv, Rest, [Next]_vars
  PROVE  Rest'
<1>t. /\ pc \in [Client \cup {Dpdk, Destructor} -> Places]
      /\ ctx \in [Client -> [trid : Trid \cup {None}, driver : Driver, done : BOOLEAN]]
  BY DEF IInv, Types
<1>d. \A c \in Client : c # Dpdk /\ c # Destructor
  BY DEF ThreadsDiffer
<1>1. ASSUME NEW c \in Client, NEW i \in Trid, Call(c, i) PROVE Rest'
  <2>1. \A e \in Client : pc[e] = "wait" => pc'[e] = "wait" /\ ctx'[e] = ctx[e]
    BY <1>1, <1>t DEF Call, Goto
  <2>2. QueueBound'
    BY <1>1, <2>1, BoundKeeps DEF Call
  <2> QED
    BY <1>1, <2>2 DEF Call, Rest
<1>2. ASSUME NEW c \in Client, Try_get(c) PROVE Rest'
  <2>1. CASE Found(c)
    <3>1. \A e \in Client : pc[e] = "wait" => pc'[e] = "wait" /\ ctx'[e] = ctx[e]
      BY <1>t, <2>1 DEF Found, Enters, Goto
    <3>2. QueueBound'
      BY <2>1, <3>1, BoundKeeps DEF Found
    <3> QED
      BY <2>1, <3>2 DEF Found, Rest
  <2>2. CASE NotFound(c)
    <3>1. lock = None /\ UNCHANGED probe_queue /\ None \notin Client
      BY <2>2 DEF NotFound, Enters, ThreadsDiffer
    <3>2. QueueBound'
      BY <3>1 DEF Rest, QueueBound, Behind
    <3>3. trid' \in Trid \cup {None}
      BY <1>t, <2>2 DEF NotFound, Rest
    <3> QED
      BY <2>2, <3>2, <3>3 DEF NotFound, Rest
  <2>3. CASE Push(c)
    BY <2>3, PushBound DEF Push, Rest
  <2>4. CASE Done(c)
    <3>1. lock = c /\ ctx[c].done /\ UNCHANGED probe_queue
      BY <2>4 DEF Done, IInv, Locked
    <3>2. QueueBound'
      BY <3>1 DEF Rest, QueueBound, Behind
    <3> QED
      BY <2>4, <3>2 DEF Done, Rest
  <2>5. CASE NotDone(c)
    <3>1. QueueBound'
      BY <2>5, BoundKeeps DEF NotDone
    <3> QED
      BY <2>5, <3>1 DEF NotDone, Rest
  <2> QED
    BY <1>2, <2>1, <2>2, <2>3, <2>4, <2>5 DEF Try_get
<1>3. CASE DpdkThread
  <2>1. CASE DpdkStart \/ DpdkWait \/ DpdkWake
    <3>1. /\ \A e \in Client : pc'[e] = pc[e]
          /\ UNCHANGED <<probe_queue, lock, ctx, stopping, trid>>
          /\ waiting' \subseteq waiting \cup {Dpdk} /\ probe_queue_lock' \in {Dpdk, None}
      BY <1>t, <1>d, <2>1 DEF DpdkStart, DpdkWait, DpdkWake, Goto
    <3>2. QueueBound'
      BY <3>1, BoundKeeps
    <3> QED
      BY <3>1, <3>2 DEF Rest
  <2>2. CASE DpdkPop
    <3>1. QueueBound'
      <4>1. probe_queue \in Seq(Client) /\ Len(probe_queue) \in Nat /\ probe_queue # << >>
        BY <2>2 DEF DpdkPop, IInv, Types
      <4>2. Len(probe_queue') = Len(probe_queue) - 1
        BY <2>2, <4>1 DEF DpdkPop
      <4> QED
        BY <4>1, <4>2 DEF Rest, QueueBound, Behind
    <3> QED
      BY <2>2, <3>1 DEF DpdkPop, Rest
  <2>3. CASE DpdkDrain \/ ProbeFindsNothing \/ ProbeAttaches \/ ProbeAsserts
    <3>1. /\ UNCHANGED <<probe_queue, lock, stopping, trid>>
          /\ waiting' \subseteq waiting /\ probe_queue_lock' \in {probe_queue_lock, None}
      BY <2>3 DEF DpdkDrain, ProbeFindsNothing, ProbeAttaches, ProbeAsserts, ProbeAnswers,
         notify_all
    <3>2. ~ DpdkEnded
      BY <2>3 DEF DpdkDrain, ProbeFindsNothing, ProbeAttaches, ProbeAsserts, DpdkEnded
    <3>3. QueueBound'
      BY <3>1, <3>2, ShortKeeps
    <3> QED
      BY <3>1, <3>3 DEF Rest
  <2> QED
    BY <1>3, <2>1, <2>2, <2>3 DEF DpdkThread
<1>4. CASE Destroy \/ DestructorRuns
  <2>1. /\ \A e \in Client : pc'[e] = pc[e]
        /\ UNCHANGED <<probe_queue, probe_queue_lock, lock, ctx, trid>>
        /\ waiting' \subseteq waiting /\ stopping' \in {stopping, TRUE}
    BY <1>t, <1>d, <1>4 DEF Destroy, DestructorRuns, Stop, Join, Goto, notify_all
  <2>2. QueueBound'
    BY <2>1, BoundKeeps
  <2> QED
    BY <2>1, <2>2 DEF Rest
<1>5. ASSUME NEW x \in Client \cup {Dpdk}, SpuriousWakeup(x) PROVE Rest'
  <2>1. QueueBound'
    BY <1>5, BoundKeeps DEF SpuriousWakeup
  <2> QED
    BY <1>5, <2>1 DEF SpuriousWakeup, Rest
<1>6. CASE UNCHANGED vars
  BY <1>6 DEF vars, Rest, QueueBound, Behind
<1> QED
  BY <1>1, <1>2, <1>3, <1>4, <1>5, <1>6 DEF Next

(* Every variable keeps its type.  No more than two requests are ever queued: *)
(* the one the dpdk thread answers when it is stopped, and the one it leaves *)
(* unanswered, whose client keeps every other out with NVMEManager::lock.     *)
THEOREM TypeCorrect ==
  ASSUME ThreadsDiffer
  PROVE  Spec => []TypeOK
<1>1. Init => Rest
  <2> SUFFICES ASSUME Init PROVE Rest
    OBVIOUS
  <2>1. Len(probe_queue) = 0
    BY DEF Init
  <2>2. QueueBound
    BY <2>1 DEF QueueBound, Behind
  <2> QED
    BY <2>2 DEF Init, Rest
<1>2. IInv /\ Rest /\ [Next]_vars => Rest'
  BY RestStep, ManagerAssumption
<1>3. IInv /\ Rest => TypeOK
  BY DEF IInv, Types, Places, Rest, QueueBound, TypeOK
<1> QED
  BY <1>1, <1>2, <1>3, Requests, PTL DEF Spec
=============================================================================

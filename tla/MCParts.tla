------------------------------ MODULE MCParts ------------------------------
(***************************************************************************)
(* The smaller modules in one run: a behaviour is one of the part that its *)
(* first state chooses, with the variables of the other parts switched off. *)
(* Variables that several parts name alike (pc, stack, follows,            *)
(* current_maxid) are one variable here.  A property of a part is the      *)
(* part's own, asked of its behaviours.                                    *)
(***************************************************************************)
EXTENDS Integers, TLC

CONSTANTS
  BlockSize, BufferSize, SplitSize, DeviceSize, Modulus,     \* IoGeometry
  Thread, FaultSignal, MaxTroubles,                          \* FatalSignal
  Aio, MaxIoDepth, Attempts, FirstDelay, MaxEvents,          \* AioQueue
  Waiter, MaxTasks,                                          \* IoContext
  SearchLocks,                                               \* DoesFollow
  Mutex, Group, Prioritized, TryReads, MaxReads, MaxRefs,    \* SharedMutexDebug
  LockName, MaxLocks, NrLocks,
  m1, m2                                                     \* two mutexes

MCMutex == {m1, m2}
MCGroup == (m1 :> "a") @@ (m2 :> "b")

VARIABLES
  part,
  pc, stack, follows, current_maxid,
  op, aligned, begin, remain, tmp_off, filled, tasks, segs, sge, child, copy, disk, buf,
  handler_tid, action, troubles, dumped, dumps, interrupted, killed,
  ctx, batch, done, left, attempts, delay, slept, taken, flight, finished,
  priv, num_pending, num_running, lock, spc, pending, wpc, due,
  a, b, value,
  g_lockdep, free_ids_inited, free_ids, last_freed_id, lock_ids, lock_names, lock_refs,
  rows, held, constructed, id, writer, readers, nlock, nrlock, locked_by, want, mode,
  arg, failed

geometry == <<op, aligned, begin, remain, tmp_off, filled, tasks, segs, sge, child, copy,
              disk, buf>>
fatal == <<handler_tid, action, troubles, dumped, dumps, interrupted, killed>>
aio == <<ctx, batch, done, left, attempts, delay, slept, taken, flight, finished>>
context == <<priv, num_pending, num_running, lock, spc, pending, wpc, due>>
search == <<a, b, value>>
rwmutex == <<g_lockdep, free_ids_inited, free_ids, last_freed_id, lock_ids, lock_names,
             lock_refs, rows, held, constructed, id, writer, readers, nlock, nrlock,
             locked_by, want, mode, arg, failed>>
vars == <<part, pc, stack, follows, current_maxid, geometry, fatal, aio, context, search,
          rwmutex>>

Geometry == INSTANCE IoGeometry
Fatal == INSTANCE FatalSignal
Queue == INSTANCE AioQueue
Context == INSTANCE IoContext
Search == INSTANCE DoesFollow WITH MaxLocks <- SearchLocks
Shared == INSTANCE SharedMutexDebug

ASSUME PartsAssumption ==
  /\ Geometry!GeometryAssumption /\ Fatal!FatalAssumption /\ Queue!AioAssumption
  /\ Context!IoContextAssumption /\ SearchLocks \in Nat \ {0}
  /\ Shared!SharedAssumption

----------------------------------------------------------------------------
Off == "off"

PcOff == pc = Off
StackOff == stack = Off
OrderOff == follows = Off /\ current_maxid = Off
GeometryOff ==
  /\ op = Off /\ aligned = Off /\ begin = Off /\ remain = Off /\ tmp_off = Off
  /\ filled = Off /\ tasks = Off /\ segs = Off /\ sge = Off /\ child = Off /\ copy = Off
  /\ disk = Off /\ buf = Off
FatalOff ==
  /\ handler_tid = Off /\ action = Off /\ troubles = Off /\ dumped = Off /\ dumps = Off
  /\ interrupted = Off /\ killed = Off
QueueOff ==
  /\ ctx = Off /\ batch = Off /\ done = Off /\ left = Off /\ attempts = Off
  /\ delay = Off /\ slept = Off /\ taken = Off /\ flight = Off /\ finished = Off
ContextOff ==
  /\ priv = Off /\ num_pending = Off /\ num_running = Off /\ lock = Off /\ spc = Off
  /\ pending = Off /\ wpc = Off /\ due = Off
SearchOff == a = Off /\ b = Off /\ value = Off
SharedOff ==
  /\ g_lockdep = Off /\ free_ids_inited = Off /\ free_ids = Off /\ last_freed_id = Off
  /\ lock_ids = Off /\ lock_names = Off /\ lock_refs = Off /\ rows = Off /\ held = Off
  /\ constructed = Off /\ id = Off /\ writer = Off /\ readers = Off /\ nlock = Off
  /\ nrlock = Off /\ locked_by = Off /\ want = Off /\ mode = Off /\ arg = Off
  /\ failed = Off

Init ==
  \/ /\ part = "geometry" /\ Geometry!Init
     /\ StackOff /\ OrderOff /\ FatalOff /\ QueueOff /\ ContextOff /\ SearchOff /\ SharedOff
  \/ /\ part = "fatal" /\ Fatal!Init
     /\ PcOff /\ OrderOff /\ GeometryOff /\ QueueOff /\ ContextOff /\ SearchOff /\ SharedOff
  \/ /\ part = "aio" /\ Queue!Init
     /\ StackOff /\ OrderOff /\ GeometryOff /\ FatalOff /\ ContextOff /\ SearchOff /\ SharedOff
  \/ /\ part = "context" /\ Context!Init
     /\ PcOff /\ StackOff /\ OrderOff
     /\ GeometryOff /\ FatalOff /\ QueueOff /\ SearchOff /\ SharedOff
  \/ /\ part = "search" /\ Search!Init
     /\ PcOff /\ GeometryOff /\ FatalOff /\ QueueOff /\ ContextOff /\ SharedOff
  \/ /\ part = "shared" /\ Shared!Init
     /\ StackOff /\ GeometryOff /\ FatalOff /\ QueueOff /\ ContextOff /\ SearchOff

----------------------------------------------------------------------------
order == <<follows, current_maxid>>

GeometryOnly == UNCHANGED <<part, stack, order, fatal, aio, context, search, rwmutex>>
FatalOnly == UNCHANGED <<part, pc, order, geometry, aio, context, search, rwmutex>>
QueueOnly == UNCHANGED <<part, stack, order, geometry, fatal, context, search, rwmutex>>
ContextOnly == UNCHANGED <<part, pc, stack, order, geometry, fatal, aio, search, rwmutex>>
SearchOnly == UNCHANGED <<part, pc, geometry, fatal, aio, context, rwmutex>>
SharedOnly == UNCHANGED <<part, stack, geometry, fatal, aio, context, search>>

HandlerStep(th) == part = "fatal" /\ Fatal!Handler(th) /\ FatalOnly
SearchStep == part = "search" /\ Search!Next /\ SearchOnly
CompletionStep ==
  /\ part = "context"
  /\ Context!SubPending \/ Context!CompletePriv \/ Context!FetchSub \/ Context!Notify
       \/ Context!Unlock
  /\ ContextOnly
SubmitStep == part = "aio" /\ Queue!Submitting /\ QueueOnly
WaitStep(w) == part = "context" /\ Context!WaitStep(w) /\ ContextOnly

Next ==
  \/ part = "geometry" /\ Geometry!Next /\ GeometryOnly
  \/ part = "fatal" /\ Fatal!Next /\ FatalOnly
  \/ part = "aio" /\ Queue!Next /\ QueueOnly
  \/ part = "context" /\ Context!Next /\ ContextOnly
  \/ part = "search" /\ Search!Next /\ SearchOnly
  \/ part = "shared" /\ Shared!Next /\ SharedOnly

(* Each part's own fairness.                                                  *)
Fairness ==
  /\ \A th \in Thread : WF_vars(HandlerStep(th))
  /\ WF_vars(SearchStep)
  /\ WF_vars(SubmitStep)
  /\ WF_vars(CompletionStep)
  /\ \A w \in Waiter : WF_vars(WaitStep(w))
  /\ <>[][part = "context" => \A w \in Waiter : ~ Context!SpuriousWakeup(w)]_vars

Spec == Init /\ [][Next]_vars /\ Fairness

----------------------------------------------------------------------------
(* The properties, each stated and explained in the module of its part.       *)

(* What is issued to spdk lies inside the device, whatever the assertions let *)
(* past (write_split, make_read_tasks).                                      *)
IssuedIsInside == part = "geometry" => Geometry!IssuedIsInside

(* Every byte of an I/O goes where it was asked for, and no other is touched  *)
(* (the splitting, copy_to_buf, data_buf_reset_sgl, data_buf_next_sge).       *)
BytesLandWhereAsked == part = "geometry" => Geometry!BytesLandWhereAsked

(* Of all threads with a fatal signal one dumps, once                        *)
(* (handle_oneshot_fatal_signal).                                            *)
DumpsOnce == part = "fatal" => Fatal!DumpsOnce

(* Threads that fault meanwhile do not cut the dump short (the same).         *)
DumpNotCutShort == part = "fatal" => Fatal!DumpNotCutShort

(* A process whose fatal signal has been caught ends (reraise_fatal).         *)
ProcessEnds ==
  (part = "fatal" /\ handler_tid # Fatal!NULL_TID) ~> (killed # Fatal!Alive)

(* submit_batch gives each aio to the kernel once.                            *)
SubmittedOnce == part = "aio" => Queue!SubmittedOnce

(* submit_batch never sleeps long without progress.                           *)
SleepBounded == part = "aio" => Queue!SleepBounded

(* submit_batch comes back, though the kernel may refuse for ever.            *)
SubmitEnds == (part = "aio" /\ pc = "submit") ~> (part = "aio" => pc = "idle")

(* aio_wait comes back when what it waits for is complete.                    *)
WaitMeansDone == part = "context" => Context!WaitMeansDone

(* No thread in aio_wait misses its wakeup: when the batches end, it comes    *)
(* back (try_aio_wake).                                                      *)
WaitersReturn ==
  <>[](part = "context" => num_running = 0) =>
    \A w \in Waiter :
      (part = "context" /\ ~ priv /\ wpc[w] = "lock") ~> (part = "context" => wpc[w] = "returned")

(* does_follow answers whether b is reached from a, ...                       *)
AnswersReachability == part = "search" => Search!AnswersReachability

(* ... and comes back.                                                        *)
SearchEnds == (part = "search") ~> (part = "search" => stack = << >>)

(* The assertions of shared_mutex_debug_impl hold for correct callers.        *)
SharedAssertsHold == part = "shared" => Shared!SharedAssertsHold

(* Readers and writers that lockdep knows of never wait for one another.      *)
SharedDeadlocksDetected == part = "shared" => Shared!SharedDeadlocksDetected

(* lockdep holds a class for a thread only while the thread has a lock of it  *)
(* (lockdep_will_unlock after try_lock_shared).                              *)
SharedHeldIsOwned == part = "shared" => Shared!SharedHeldIsOwned
=============================================================================

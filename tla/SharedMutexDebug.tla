-------------------------- MODULE SharedMutexDebug --------------------------
(***************************************************************************)
(* shared_mutex_debug_impl (src/src/common/mutex_debug.{hpp,cpp}): a       *)
(* pthread rwlock that counts its holders and reports to lockdep (module   *)
(* Lockdep), in threads that lock, lock_shared, try_lock, try_lock_shared  *)
(* and unlock.  lockdep keeps one entry per class and thread, for a writer *)
(* as for a reader.                                                        *)
(*                                                                         *)
(* As in MutexDebug, the id of a mutex is read in the step before the call *)
(* into lockdep, and an assertion is a guard that SharedAssertsHold says   *)
(* never fails.  Callers are correct: they unlock what they hold, in the   *)
(* mode they hold it.  Destruction is the base class's, in MutexDebug, and *)
(* so is what happens when lockdep runs out of ids: here it has enough.    *)
(***************************************************************************)
EXTENDS Lockdep

CONSTANTS
  Mutex,
  Group,        \* the name each mutex is constructed with
  Prioritized,  \* mutexes constructed with prioritize_write
  TryReads,     \* bound: mutexes on which try_lock_shared is called
  MaxReads,     \* bound: read locks of one mutex that a thread has at a time
  MaxRefs       \* bound: references of an id (a lost id is registered anew, and counted)

NoThread == "no thread"
NoMutex == "no mutex"

SharedAssumption ==
  /\ Group \in [Mutex -> LockName] /\ "" \in LockName
  /\ MaxLocks \in Nat \ {0} /\ NrLocks \in Nat \ {0}
  /\ NoThread \notin Thread /\ NoMutex \notin Mutex

VARIABLES
  constructed,
  id,           \* mutex -> lockdep id
  writer,       \* the rwlock: mutex -> its writer,
  readers,      \*   and mutex -> thread -> read locks it has
  nlock,
  nrlock,
  locked_by,
  pc,           \* thread -> where it is
  want,         \* thread -> the mutex it is busy with
  mode,         \* thread -> "lock", "lock_shared", "try_lock_shared" or "none"
  arg,          \* thread -> the id it has read from that mutex
  failed        \* what lockdep ended the process for

rw_vars == <<constructed, id, writer, readers, nlock, nrlock, locked_by, pc, want, mode, arg,
             failed>>
vars == <<lockdep_vars, rw_vars>>
rwlock == <<writer, readers>>
track == <<nlock, nrlock, locked_by>>

Init ==
  /\ LockdepInit
  /\ constructed = {}
  /\ id = [m \in Mutex |-> NoId]
  /\ writer = [m \in Mutex |-> NoThread]
  /\ readers = [m \in Mutex |-> [th \in Thread |-> 0]]
  /\ nlock = [m \in Mutex |-> 0] /\ nrlock = [m \in Mutex |-> 0]
  /\ locked_by = [m \in Mutex |-> NoThread]
  /\ pc = [th \in Thread |-> "idle"]
  /\ want = [th \in Thread |-> NoMutex]
  /\ mode = [th \in Thread |-> "none"]
  /\ arg = [th \in Thread |-> NoId]
  /\ failed = ""

Running == failed = ""

Die(why) ==
  /\ failed' = why
  /\ UNCHANGED <<lockdep_vars, constructed, id, rwlock, track, pc, want, mode, arg>>

GlobalInit ==
  /\ Running /\ lockdep_global_init
  /\ UNCHANGED rw_vars

(* The base class registers the name it has moved from (MutexDebug).         *)
Construct(m) ==
  /\ Running /\ m \notin constructed
  /\ constructed' = constructed \cup {m}
  /\ IF g_lockdep
       THEN /\ \E i \in Id : Register("", i) /\ id' = [id EXCEPT ![m] = i]
            /\ UNCHANGED <<g_lockdep, free_ids_inited, follows, held>>
       ELSE UNCHANGED <<id, lockdep_vars>>
  /\ UNCHANGED <<rwlock, track, pc, want, mode, arg, failed>>

----------------------------------------------------------------------------
(* The pthread rwlock, external: errors that the code throws, and who waits. *)

Reads(th, m) == readers[m][th] > 0
Holds(th, m) == writer[m] = th \/ Reads(th, m)
Waits(th) == pc[th] = "acquire"
Writes(th) == mode[th] = "lock"

(* EDEADLK: only a writer is known by name.                                  *)
Deadlk(th, m) == writer[m] = th

(* Whom a thread that waits is waiting for.                                  *)
Hinders(th) ==
  LET m == want[th]
  IN  {h \in Thread :
        \/ writer[m] = h
        \/ Writes(th) /\ Reads(h, m)
        \/ ~ Writes(th) /\ m \in Prioritized /\ Waits(h) /\ want[h] = m /\ Writes(h)}

Take(th, m, writing) ==
  IF writing THEN writer' = [writer EXCEPT ![m] = th] /\ UNCHANGED readers
             ELSE readers' = [readers EXCEPT ![m][th] = @ + 1] /\ UNCHANGED writer

----------------------------------------------------------------------------
(* lock, lock_shared                                                         *)

Goto(th, l) == pc' = [pc EXCEPT ![th] = l]

Call(th, m, how, l) ==
  /\ Running /\ g_lockdep /\ pc[th] = "idle" /\ m \in constructed
  /\ want' = [want EXCEPT ![th] = m]
  /\ mode' = [mode EXCEPT ![th] = how]
  /\ arg' = [arg EXCEPT ![th] = id[m]]
  /\ Goto(th, l)

Return(th) ==
  /\ Goto(th, "idle")
  /\ want' = [want EXCEPT ![th] = NoMutex]
  /\ mode' = [mode EXCEPT ![th] = "none"]
  /\ arg' = [arg EXCEPT ![th] = NoId]

Lock(th, m) ==
  /\ \/ Call(th, m, "lock", "will_lock")
     \/ Call(th, m, "lock_shared", "will_lock") /\ readers[m][th] < MaxReads
  /\ UNCHANGED <<lockdep_vars, constructed, id, rwlock, track, failed>>

WillLock(th) ==
  /\ Running /\ pc[th] = "will_lock"
  /\ \E i \in Id :
       /\ lockdep_will_lock(Group[want[th]], arg[th], th, i)
       /\ id' = [id EXCEPT ![want[th]] = i]
       /\ lock_refs'[i] <= MaxRefs
  /\ Goto(th, "acquire")
  /\ UNCHANGED <<constructed, rwlock, track, want, mode, arg, failed>>

IdsOf(th) == IF arg[th] = NoId THEN IdsFor(Group[want[th]]) ELSE {arg[th]}

WillLockDies(th) ==
  /\ Running /\ pc[th] = "will_lock"
  /\ \E i \in IdsOf(th) :
       \/ recursive_lock(th, i) /\ Die("recursive lock")
       \/ ~ recursive_lock(th, i) /\ creates_a_cycle(th, i) /\ Die("cycle")

(* pthread_rwlock_wrlock, pthread_rwlock_rdlock                              *)
Acquire(th) ==
  /\ Running /\ Waits(th) /\ Hinders(th) = {}
  /\ Take(th, want[th], Writes(th))
  /\ arg' = [arg EXCEPT ![th] = id[want[th]]]
  /\ Goto(th, "locked")
  /\ UNCHANGED <<lockdep_vars, constructed, id, track, want, mode, failed>>

AcquireThrows(th) ==
  /\ Running /\ Waits(th) /\ Deadlk(th, want[th])
  /\ Return(th)
  /\ UNCHANGED <<lockdep_vars, constructed, id, rwlock, track, failed>>

(* _post_lock and _post_lock_shared; the variant of the latter is the former. *)
post_lock_shared_forgets(m) == UNCHANGED track
post_lock_shared(m) ==
  nrlock' = [nrlock EXCEPT ![m] = @ + 1] /\ UNCHANGED <<nlock, locked_by>>

post_lock(th, m) ==
  /\ nlock[m] = 0
  /\ locked_by' = [locked_by EXCEPT ![m] = th]
  /\ nlock' = [nlock EXCEPT ![m] = @ + 1]
  /\ UNCHANGED nrlock

(* _locked, then the count.                                                  *)
Locked(th) ==
  /\ Running /\ pc[th] = "locked"
  /\ \E i \in Id :
       /\ lockdep_locked(Group[want[th]], arg[th], th, i)
       /\ id' = [id EXCEPT ![want[th]] = i]
       /\ lock_refs'[i] <= MaxRefs
  /\ IF Writes(th) THEN post_lock(th, want[th]) ELSE post_lock_shared(want[th])
  /\ Return(th)
  /\ UNCHANGED <<constructed, rwlock, failed>>

----------------------------------------------------------------------------
(* try_lock: nothing is said to lockdep before the lock is taken.            *)
TryLock(th, m) ==
  /\ Call(th, m, "lock", "locked")
  /\ writer[m] = NoThread /\ \A h \in Thread : ~ Reads(h, m)
  /\ Take(th, m, TRUE)
  /\ UNCHANGED <<lockdep_vars, constructed, id, track, failed>>

(* try_lock_shared: _will_unlock, and then pthread_rwlock_rdlock, which      *)
(* waits.                                                                    *)
TryLockShared(th, m) ==
  /\ m \in TryReads /\ readers[m][th] < MaxReads
  /\ Call(th, m, "try_lock_shared", "try_lock_shared")
  /\ UNCHANGED <<lockdep_vars, constructed, id, rwlock, track, failed>>

WillUnlockFirst(th) ==
  /\ Running /\ pc[th] = "try_lock_shared"
  /\ lockdep_will_unlock(arg[th], th)
  /\ id' = [id EXCEPT ![want[th]] = arg[th]]
  /\ Goto(th, "acquire")
  /\ UNCHANGED <<constructed, rwlock, track, want, mode, arg, failed>>

----------------------------------------------------------------------------
(* unlock, unlock_shared                                                     *)

pre_unlock(th, m) ==
  /\ nlock[m] = 1 /\ locked_by[m] = th
  /\ nlock' = [nlock EXCEPT ![m] = @ - 1]
  /\ locked_by' = [locked_by EXCEPT ![m] = NoThread]
  /\ UNCHANGED nrlock

pre_unlock_shared(m) ==
  /\ nrlock[m] > 0
  /\ nrlock' = [nrlock EXCEPT ![m] = @ - 1]
  /\ UNCHANGED <<nlock, locked_by>>

Unlock(th, m) ==
  /\ \/ Call(th, m, "lock", "will_unlock") /\ writer[m] = th /\ pre_unlock(th, m)
     \/ Call(th, m, "lock_shared", "will_unlock") /\ Reads(th, m) /\ pre_unlock_shared(m)
  /\ UNCHANGED <<lockdep_vars, constructed, id, rwlock, failed>>

WillUnlock(th) ==
  /\ Running /\ pc[th] = "will_unlock"
  /\ lockdep_will_unlock(arg[th], th)
  /\ id' = [id EXCEPT ![want[th]] = arg[th]]
  /\ Goto(th, "unlock")
  /\ UNCHANGED <<constructed, rwlock, track, want, mode, arg, failed>>

(* pthread_rwlock_unlock                                                     *)
UnlockImpl(th) ==
  /\ Running /\ pc[th] = "unlock"
  /\ IF Writes(th)
       THEN writer' = [writer EXCEPT ![want[th]] = NoThread] /\ UNCHANGED readers
       ELSE readers' = [readers EXCEPT ![want[th]][th] = @ - 1] /\ UNCHANGED writer
  /\ Return(th)
  /\ UNCHANGED <<lockdep_vars, constructed, id, track, failed>>

----------------------------------------------------------------------------
ThreadStep(th) ==
  \/ \E m \in Mutex : Lock(th, m) \/ TryLock(th, m) \/ TryLockShared(th, m) \/ Unlock(th, m)
  \/ WillLock(th) \/ WillLockDies(th) \/ Acquire(th) \/ AcquireThrows(th) \/ Locked(th)
  \/ WillUnlockFirst(th) \/ WillUnlock(th) \/ UnlockImpl(th)

Next ==
  \/ GlobalInit
  \/ \E m \in Mutex : Construct(m)
  \/ \E th \in Thread : ThreadStep(th)

Spec == Init /\ [][Next]_vars

----------------------------------------------------------------------------
(* Properties.                                                               *)

(* The assertions of _post_lock, _pre_unlock and _pre_unlock_shared: the      *)
(* counts name the holders whenever a thread may rely on them, though        *)
(* readers come and go together.                                             *)
SharedAssertsHold ==
  \A m \in Mutex, th \in Thread :
    /\ pc[th] = "locked" /\ want[th] = m /\ Writes(th) => nlock[m] = 0
    /\ pc[th] = "idle" /\ writer[m] = th => nlock[m] = 1 /\ locked_by[m] = th
    /\ pc[th] = "idle" /\ Reads(th, m) => nrlock[m] > 0

(* A thread is said to hold a class only while it holds a lock of it.        *)
SharedHeldIsOwned ==
  \A th \in Thread : \A i \in held[th] : \E m \in constructed : Holds(th, m) /\ id[m] = i

Blocked(D) == \A th \in D : Waits(th) /\ ~ Deadlk(th, want[th]) /\ Hinders(th) \cap D # {}

AllKnown(th) == \A m \in Mutex : Holds(th, m) => id[m] \in held[th]

(* Threads that lockdep knows all locks of, and that did not come by         *)
(* try_lock_shared, which says nothing of what it waits for, never wait for  *)
(* one another: readers, writers, or readers behind a writer that goes first. *)
SharedDeadlocksDetected ==
  Running =>
    \A D \in SUBSET Thread :
      D # {} /\ (\A th \in D : AllKnown(th) /\ mode[th] # "try_lock_shared") => ~ Blocked(D)
=============================================================================

----------------------------- MODULE MutexDebug -----------------------------
(***************************************************************************)
(* mutex_debug = mutex_debug_impl<false> (src/src/common/mutex_debug.hpp,  *)
(* mutex_debug.cpp): a pthread mutex that records its holder and reports   *)
(* every lock and unlock to lockdep (module Lockdep).  Threads lock,       *)
(* try_lock and unlock; mutexes are constructed and destroyed meanwhile.   *)
(*                                                                         *)
(* A mutex keeps its lockdep id in a plain int, read before a call into    *)
(* lockdep and written after it: the read is the step before.              *)
(* An assertion is a guard of its action; AssertsHold says that it never   *)
(* fails.                                                                  *)
(* lockdep may be started and shut down at any time, whoever uses a mutex  *)
(* then.  In src/test/test.cpp the static mutexes m1 and m2 are there      *)
(* before the lockdep_guard of main() and after it.  main() starts lockdep *)
(* once (Restarts = FALSE); lockdep_global_destroy clears its state "in    *)
(* case it starts up again" (Restarts = TRUE).                             *)
(***************************************************************************)
EXTENDS Lockdep

CONSTANTS
  Mutex,
  Group,      \* the name each mutex is constructed with
  TryLocks,   \* mutexes that callers also take with try_lock
  Restarts    \* the program starts lockdep again after it shut it down

ASSUME MutexAssumption ==
  /\ IsFiniteSet(Mutex)
  /\ Group \in [Mutex -> LockName \ {""}]
  /\ TryLocks \subseteq Mutex
  /\ Restarts \in BOOLEAN

NoThread == "no thread"
NoMutex == "no mutex"

ASSUME NoThreadAssumption == NoThread \notin Thread /\ NoMutex \notin Mutex

VARIABLES
  constructed,  \* the mutexes that exist
  dying,        \* those whose destructor is about to call lockdep_unregister
  id,           \* mutex -> lockdep id
  owner,        \* mutex -> the holder of the pthread mutex
  nlock,        \* mutex -> times locked
  locked_by,    \* mutex -> the holder it records
  pc,           \* thread -> where it is
  want,         \* thread -> the mutex it is busy with
  arg,          \* thread -> the id it has read from that mutex
  failed        \* what lockdep ended the process for, "" as long as it runs

(* History: what the last start of lockdep found.                            *)
VARIABLES
  carried,      \* the mutexes that had an id from before it
  midway        \* a thread held a mutex or was in the middle of a call

mutex_vars == <<constructed, dying, id, owner, nlock, locked_by, pc, want, arg,
                failed>>
start_vars == <<carried, midway>>
vars == <<lockdep_vars, mutex_vars, start_vars>>

Init ==
  /\ LockdepInit
  /\ constructed = {} /\ dying = {}
  /\ id = [m \in Mutex |-> NoId]
  /\ owner = [m \in Mutex |-> NoThread]
  /\ nlock = [m \in Mutex |-> 0]
  /\ locked_by = [m \in Mutex |-> NoThread]
  /\ pc = [t \in Thread |-> "idle"]
  /\ want = [t \in Thread |-> NoMutex]
  /\ arg = [t \in Thread |-> NoId]
  /\ failed = ""
  /\ carried = {} /\ midway = FALSE

Running == failed = ""

Die(why) ==
  /\ failed' = why
  /\ UNCHANGED <<lockdep_vars, constructed, dying, id, owner, nlock, locked_by, pc, want, arg,
                 start_vars>>

----------------------------------------------------------------------------
(* Construction and destruction.                                             *)

InUse ==
  (\E t \in Thread : pc[t] # "idle") \/ (\E m \in Mutex : owner[m] # NoThread)

(* lockdep_guard()                                                           *)
GlobalInit ==
  /\ Running /\ lockdep_global_init
  /\ free_ids_inited => Restarts
  /\ carried' = {m \in constructed : id[m] # NoId}
  /\ midway' = InUse
  /\ UNCHANGED mutex_vars

(* ~lockdep_guard().  Mutexes that exist keep the ids lockdep has forgotten,  *)
(* and threads in the middle of a call go on.                                *)
GlobalDestroy ==
  /\ Running /\ lockdep_global_destroy
  /\ UNCHANGED <<mutex_vars, start_vars>>

(* mutex_debugging_base(std::string group, ...) : group(std::move(group))     *)
(* registers group.c_str(), the parameter it has just moved from: "".        *)
registered_name(m) == ""

Construct(m) ==
  /\ Running /\ m \notin constructed
  /\ constructed' = constructed \cup {m}
  /\ IF g_lockdep
       THEN /\ \E i \in Id : Register(registered_name(m), i) /\ id' = [id EXCEPT ![m] = i]
            /\ UNCHANGED <<g_lockdep, free_ids_inited, follows, held>>
       ELSE id' = [id EXCEPT ![m] = NoId] /\ UNCHANGED lockdep_vars
  /\ UNCHANGED <<dying, owner, nlock, locked_by, pc, want, arg, failed, start_vars>>

ConstructDies(m) ==
  /\ Running /\ m \notin constructed
  /\ g_lockdep /\ OutOfIds(registered_name(m))
  /\ Die("out of ids")

(* Nobody uses a mutex that is being destroyed.                              *)
Unused(m) == m \in constructed /\ owner[m] = NoThread
             /\ \A t \in Thread : pc[t] # "idle" => want[t] # m

(* ~mutex_debugging_base asks whether lockdep is enabled, ...                 *)
Destroy(m) ==
  /\ Running /\ Unused(m) /\ m \notin dying /\ nlock[m] = 0
  /\ IF g_lockdep
       THEN dying' = dying \cup {m} /\ UNCHANGED <<constructed, carried>>
       ELSE constructed' = constructed \ {m} /\ carried' = carried \ {m} /\ UNCHANGED dying
  /\ UNCHANGED <<lockdep_vars, id, owner, nlock, locked_by, pc, want, arg, failed, midway>>

(* "I think it should never get here!"                                       *)
UnknownId(m) == id[m] # NoId /\ lock_names[id[m]] = NoName

(* ... and calls lockdep_unregister, which asks no more.                      *)
Unregister(m) ==
  /\ Running /\ m \in dying /\ ~ UnknownId(m)
  /\ constructed' = constructed \ {m} /\ dying' = dying \ {m}
  /\ carried' = carried \ {m}
  /\ lockdep_unregister(id[m])
  /\ UNCHANGED <<g_lockdep, free_ids_inited, held,
                 id, owner, nlock, locked_by, pc, want, arg, failed, midway>>

UnregisterDies(m) ==
  /\ Running /\ m \in dying /\ UnknownId(m)
  /\ Die("unknown id")

----------------------------------------------------------------------------
(* lock                                                                      *)

Goto(t, l) == pc' = [pc EXCEPT ![t] = l]

(* The call of lock, try_lock or unlock comes back.                          *)
Return(t) ==
  /\ Goto(t, "idle")
  /\ want' = [want EXCEPT ![t] = NoMutex]
  /\ arg' = [arg EXCEPT ![t] = NoId]

(* lockdep_enabled: t reads the id of its mutex and has a call of lockdep      *)
(* before it, or goes on without one.                                        *)
Report(t, m, call, otherwise) ==
  IF g_lockdep THEN arg' = [arg EXCEPT ![t] = id[m]] /\ Goto(t, call)
               ELSE arg' = [arg EXCEPT ![t] = NoId] /\ Goto(t, otherwise)

(* t turns to m.                                                             *)
Lock(t, m) ==
  /\ Running /\ pc[t] = "idle" /\ m \in constructed \ dying
  /\ want' = [want EXCEPT ![t] = m]
  /\ Report(t, m, "will_lock", "acquire")
  /\ UNCHANGED <<lockdep_vars, constructed, dying, id, owner, nlock, locked_by, failed, start_vars>>

WillLock(t) ==
  /\ Running /\ pc[t] = "will_lock"
  /\ \E i \in Id \cup {NoId} :
       /\ lockdep_is_off(arg[t], i) \/ lockdep_will_lock(Group[want[t]], arg[t], t, i)
       /\ id' = [id EXCEPT ![want[t]] = i]
  /\ Goto(t, "acquire")
  /\ UNCHANGED <<constructed, dying, owner, nlock, locked_by, want, arg, failed, start_vars>>

(* The ids lockdep may come to work with for t's call.                       *)
IdsOf(t) == IF arg[t] = NoId THEN IdsFor(Group[want[t]]) ELSE {arg[t]}

WillLockDies(t) ==
  /\ Running /\ pc[t] = "will_lock" /\ g_lockdep
  /\ \/ arg[t] = NoId /\ OutOfIds(Group[want[t]]) /\ Die("out of ids")
     \/ \E i \in IdsOf(t) : recursive_lock(t, i) /\ Die("recursive lock")
     \/ \E i \in IdsOf(t) : ~ recursive_lock(t, i) /\ creates_a_cycle(t, i) /\ Die("cycle")

(* pthread_mutex_trylock, or pthread_mutex_lock after it failed.             *)
Acquire(t) ==
  /\ Running /\ pc[t] = "acquire" /\ owner[want[t]] = NoThread
  /\ owner' = [owner EXCEPT ![want[t]] = t]
  /\ Report(t, want[t], "locked", "post_lock")
  /\ UNCHANGED <<lockdep_vars, constructed, dying, id, nlock, locked_by, want, failed, start_vars>>

(* PTHREAD_MUTEX_ERRORCHECK: locking one's own mutex throws EDEADLK.         *)
AcquireThrows(t) ==
  /\ Running /\ pc[t] = "acquire" /\ owner[want[t]] = t
  /\ Return(t)
  /\ UNCHANGED <<lockdep_vars, constructed, dying, id, owner, nlock, locked_by, failed, start_vars>>

(* try_lock tells lockdep nothing before it has the mutex.                   *)
TryLock(t, m) ==
  /\ Running /\ pc[t] = "idle" /\ m \in (constructed \ dying) \cap TryLocks
  /\ owner[m] = NoThread
  /\ owner' = [owner EXCEPT ![m] = t]
  /\ want' = [want EXCEPT ![t] = m]
  /\ Report(t, m, "locked", "post_lock")
  /\ UNCHANGED <<lockdep_vars, constructed, dying, id, nlock, locked_by, failed, start_vars>>

(* _post_lock                                                                *)
post_lock(t) ==
  /\ nlock[want[t]] = 0
  /\ locked_by' = [locked_by EXCEPT ![want[t]] = t]
  /\ nlock' = [nlock EXCEPT ![want[t]] = @ + 1]
  /\ Return(t)

(* _locked, then _post_lock.                                                 *)
Locked(t) ==
  /\ Running /\ pc[t] = "locked" /\ post_lock(t)
  /\ \E i \in Id \cup {NoId} :
       /\ lockdep_is_off(arg[t], i) \/ lockdep_locked(Group[want[t]], arg[t], t, i)
       /\ id' = [id EXCEPT ![want[t]] = i]
  /\ UNCHANGED <<constructed, dying, owner, failed, start_vars>>

LockedDies(t) ==
  /\ Running /\ pc[t] = "locked" /\ g_lockdep
  /\ arg[t] = NoId /\ OutOfIds(Group[want[t]])
  /\ Die("out of ids")

(* Without lockdep: _post_lock alone.                                        *)
PostLock(t) ==
  /\ Running /\ pc[t] = "post_lock" /\ post_lock(t)
  /\ UNCHANGED <<lockdep_vars, constructed, dying, id, owner, failed, start_vars>>

----------------------------------------------------------------------------
(* unlock                                                                    *)

(* _pre_unlock.  The variant forgets to count down.                          *)
pre_unlock_keeps(m) ==
  locked_by' = [locked_by EXCEPT ![m] = NoThread] /\ UNCHANGED nlock

pre_unlock(m) ==
  /\ locked_by' = [locked_by EXCEPT ![m] = NoThread]
  /\ nlock' = [nlock EXCEPT ![m] = @ - 1]

(* unlock of a mutex t holds: _pre_unlock and the read of the id, ...        *)
Unlock(t, m) ==
  /\ Running /\ pc[t] = "idle" /\ owner[m] = t
  /\ nlock[m] = 1 /\ locked_by[m] = t /\ pre_unlock(m)
  /\ want' = [want EXCEPT ![t] = m]
  /\ Report(t, m, "will_unlock", "unlock")
  /\ UNCHANGED <<lockdep_vars, constructed, dying, id, owner, failed, start_vars>>

(* ... _will_unlock, ...                                                     *)
WillUnlock(t) ==
  /\ Running /\ pc[t] = "will_unlock"
  /\ lockdep_is_off(arg[t], arg[t]) \/ lockdep_will_unlock(arg[t], t)
  /\ id' = [id EXCEPT ![want[t]] = arg[t]]
  /\ Goto(t, "unlock")
  /\ UNCHANGED <<constructed, dying, owner, nlock, locked_by, want, arg, failed, start_vars>>

(* ... pthread_mutex_unlock.                                                 *)
UnlockImpl(t) ==
  /\ Running /\ pc[t] = "unlock"
  /\ owner' = [owner EXCEPT ![want[t]] = NoThread]
  /\ Return(t)
  /\ UNCHANGED <<lockdep_vars, constructed, dying, id, nlock, locked_by, failed, start_vars>>

----------------------------------------------------------------------------
ThreadStep(t) ==
  \/ \E m \in Mutex : Lock(t, m) \/ TryLock(t, m) \/ Unlock(t, m)
  \/ WillLock(t) \/ WillLockDies(t) \/ Acquire(t) \/ AcquireThrows(t)
  \/ Locked(t) \/ LockedDies(t) \/ PostLock(t) \/ WillUnlock(t) \/ UnlockImpl(t)

Next ==
  \/ GlobalInit \/ GlobalDestroy
  \/ \E m \in Mutex : Construct(m) \/ ConstructDies(m)
  \/ \E m \in Mutex : Destroy(m) \/ Unregister(m) \/ UnregisterDies(m)
  \/ \E t \in Thread : ThreadStep(t)

Spec == Init /\ [][Next]_vars

----------------------------------------------------------------------------
(* Properties.                                                               *)

(* Type correctness.                                                         *)
RegistryTypeOK ==
  /\ free_ids \subseteq Id /\ last_freed_id \in Id \cup {NoId}
  /\ lock_ids \in [LockName -> Id \cup {NoId}]
  /\ lock_names \in [Id -> LockName \cup {NoName}]
  /\ lock_refs \in [Id -> Int]
  /\ current_maxid \in Nat /\ rows \in Nat

LockdepTypeOK ==
  /\ g_lockdep \in BOOLEAN /\ free_ids_inited \in BOOLEAN
  /\ RegistryTypeOK
  /\ follows \subseteq Id \X Id
  /\ held \in [Thread -> SUBSET Id]

TypeOK ==
  /\ LockdepTypeOK
  /\ constructed \subseteq Mutex /\ dying \subseteq constructed
  /\ id \in [Mutex -> Id \cup {NoId}]
  /\ owner \in [Mutex -> Thread \cup {NoThread}]
  /\ nlock \in [Mutex -> Nat]
  /\ locked_by \in [Mutex -> Thread \cup {NoThread}]
  /\ pc \in [Thread -> {"idle", "will_lock", "acquire", "locked", "post_lock", "will_unlock",
                         "unlock"}]
  /\ want \in [Thread -> Mutex \cup {NoMutex}]
  /\ arg \in [Thread -> Id \cup {NoId}]
  /\ failed \in {"", "out of ids", "recursive lock", "cycle", "unknown id"}
  /\ carried \subseteq constructed /\ midway \in BOOLEAN

(* The threads of D wait for mutexes that others of D hold.                   *)
Blocked(D) ==
  \A t \in D : pc[t] = "acquire" /\ owner[want[t]] \in D \ {t}

(* lockdep knows of every mutex a thread holds.                               *)
AllKnown(t) == \A m \in Mutex : owner[m] = t => id[m] \in held[t]

(* Threads that lockdep knows all mutexes of never wait for one another: it   *)
(* ends the process before it comes to that.  Nothing is asked of it if it   *)
(* was started midway: "lockdep may be enabled at any point in time".        *)
KnownDeadlocksDetected ==
  failed = "" /\ ~ midway =>
    \A D \in SUBSET Thread : D # {} /\ (\A t \in D : AllKnown(t)) => ~ Blocked(D)

(* lockdep is there to find the deadlocks in the code from who holds which     *)
(* mutexes (mutex_debug.hpp:16): while it runs, no threads at all ever wait   *)
(* for one another.                                                          *)
NoUndetectedDeadlock ==
  failed = "" /\ g_lockdep /\ ~ midway =>
    \A D \in SUBSET Thread : D # {} => ~ Blocked(D)

(* The order lockdep has recorded has no cycle: "don't add this dependency,   *)
(* or we'll get a cycle in the graph, and does_follow() won't terminate".     *)
NoCycleRecorded == Acyclic(follows)

(* An id is not given back while a mutex uses it, even one that has it from   *)
(* before a shutdown: a mutex that destroys its class under another one would *)
(* hand that one's id, and its edges, to a third.  And lockdep knows every id *)
(* in use, except those that mutexes have carried over a shutdown.           *)
Users(i) == {m \in constructed : id[m] = i}

IdsKept ==
  \A i \in Id : lock_refs[i] >= Cardinality(Users(i)) /\ (Users(i) # {} => i \notin free_ids)

UsedIdsRegistered ==
  /\ IdsKept
  /\ g_lockdep /\ ~ midway =>
       \A m \in constructed \ carried : id[m] # NoId => lock_names[id[m]] # NoName

(* No edge joins an id that is free: an id given out again starts without the *)
(* order its former class had been taken in.                                 *)
NoStaleEdge ==
  ~ midway => \A e \in follows : e[1] \notin free_ids /\ e[2] \notin free_ids

(* What a thread is said to hold is what it holds: an entry left behind would *)
(* make every later lock a false alarm.                                       *)
HeldIsOwned ==
  ~ midway =>
    \A t \in Thread : \A i \in held[t] : \E m \in constructed : owner[m] = t /\ id[m] = i

(* follows[id] exists for every id given out, though it has only NR_LOCKS     *)
(* rows at first for MAX_LOCKS ids.                                           *)
RowsCoverIds ==
  \A i \in Id : lock_names[i] # NoName => i < current_maxid /\ current_maxid <= rows

(* "I think it should never get here!" (lockdep_unregister): while lockdep    *)
(* runs, an id that it does not know is brought to it only after a second    *)
(* start, by the destructor of a mutex that has it from before, or if that   *)
(* start found mutexes in use.                                               *)
NeverGetsHere ==
  failed = "unknown id" /\ g_lockdep =>
    Restarts /\ (midway \/ \E m \in dying \cap carried : UnknownId(m))

(* The assertions of _post_lock, _pre_unlock and the destructor: the mutex    *)
(* says it is locked, and by whom, exactly while a thread that could unlock   *)
(* it holds it.  And lockdep_unregister's, as far as it holds.               *)
AssertsHold ==
  /\ \A m \in Mutex :
       /\ \A t \in Thread :
            /\ pc[t] \in {"locked", "post_lock"} /\ want[t] = m => nlock[m] = 0
            /\ pc[t] = "idle" /\ owner[m] = t => nlock[m] = 1 /\ locked_by[m] = t
       /\ Unused(m) => nlock[m] = 0
  /\ NeverGetsHere

(* "lockdep tracks dependencies between multiple and different instances of   *)
(* locks within a class denoted by `name`" (lockdep.hpp): the process is      *)
(* ended for a recursive lock only if the thread holds a lock of that name.   *)
RecursionIsReal ==
  failed = "recursive lock" =>
    \E t \in Thread : pc[t] = "will_lock"
      /\ \E m \in Mutex : owner[m] = t /\ Group[m] = Group[want[t]]
=============================================================================

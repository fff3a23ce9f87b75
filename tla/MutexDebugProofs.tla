------------------------- MODULE MutexDebugProofs --------------------------
(***************************************************************************)
(* Proofs about mutex_debug and lockdep, for any number of threads,        *)
(* mutexes, classes and ids.                                               *)
(***************************************************************************)
EXTENDS MutexDebug, FiniteSetTheorems, TLAPS

----------------------------------------------------------------------------
(* Type correctness.                                                         *)

(* What _lockdep_register leaves is well typed.                              *)
LEMMA RegisterType ==
  ASSUME RegistryTypeOK, NEW name \in LockName, NEW i \in Id, Register(name, i)
  PROVE  RegistryTypeOK'
<1> USE DEF RegistryTypeOK
<1>1. lock_refs' \in [Id -> Int]
  BY DEF Register, count_ref
<1>2. CASE lock_ids[name] = NoId
  <2>1. /\ free_ids' = free_ids \ {i}
        /\ last_freed_id' = IF last_freed_id \in free_ids THEN NoId ELSE last_freed_id
        /\ current_maxid' = IF current_maxid <= i THEN i + 1 ELSE current_maxid
        /\ rows' = enough_rows(i)
        /\ lock_ids' = [lock_ids EXCEPT ![name] = i]
        /\ lock_names' = [lock_names EXCEPT ![i] = name]
    BY <1>2 DEF Register
  <2>2. current_maxid' \in Nat /\ rows' \in Nat
    BY <2>1 DEF Id, enough_rows
  <2> QED
    BY <1>1, <2>1, <2>2
<1>3. CASE lock_ids[name] # NoId
  BY <1>1, <1>3 DEF Register
<1> QED
  BY <1>2, <1>3

(* lockdep never comes back with -1.                                         *)
LEMMA GivesAnId ==
  ASSUME RegistryTypeOK, NEW name \in LockName, NEW x \in Id \cup {NoId},
         NEW i \in Id \cup {NoId}, RegisterIfNew(name, x, i)
  PROVE  i \in Id
BY DEF RegisterIfNew, Register, IdsFor, lockdep_get_free_id, RegistryTypeOK

(* An id passed by the caller changes nothing; -1 registers.                 *)
LEMMA RegisterIfNewType ==
  ASSUME RegistryTypeOK, NEW name \in LockName, NEW x, NEW i \in Id, RegisterIfNew(name, x, i)
  PROVE  RegistryTypeOK'
<1>1. CASE x = NoId
  BY <1>1, RegisterType DEF RegisterIfNew
<1>2. CASE x # NoId
  BY <1>2 DEF RegisterIfNew, RegistryTypeOK, registry
<1> QED
  BY <1>1, <1>2
(* lockdep_unregister removes edges and frees ids, no more.                  *)
LEMMA UnregisterType ==
  ASSUME RegistryTypeOK, follows \subseteq Id \X Id, NEW x \in Id \cup {NoId},
         lockdep_unregister(x)
  PROVE  RegistryTypeOK' /\ follows' \subseteq follows
<1> USE DEF RegistryTypeOK
<1>1. CASE x = NoId
  BY <1>1 DEF lockdep_unregister, registry
<1>2. CASE x # NoId /\ lock_refs[x] # 1
  <2>1. x \in Id
    BY <1>2
  <2>2. lock_refs' = [lock_refs EXCEPT ![x] = @ - 1] /\ lock_refs' \in [Id -> Int]
    BY <1>2, <2>1 DEF lockdep_unregister
  <2> QED
    BY <1>2, <2>1, <2>2 DEF lockdep_unregister
<1>3. CASE x # NoId /\ lock_refs[x] = 1
  <2>1. x \in Id
    BY <1>3
  <2>2. lock_refs' = [lock_refs EXCEPT ![x] = @ - 1] /\ lock_refs' \in [Id -> Int]
    BY <1>3, <2>1 DEF lockdep_unregister
  <2> QED
    BY <1>3, <2>1, <2>2 DEF lockdep_unregister, without_order_of
<1> QED
  BY <1>1, <1>2, <1>3


(* A thread in a call is busy with a mutex.                                  *)
Wanted == \A t \in Thread : pc[t] # "idle" => want[t] \in Mutex

(* The static state of lockdep.cpp and a process without mutexes.            *)
LEMMA TypeInit == Init => TypeOK /\ Wanted
<1> SUFFICES ASSUME Init PROVE TypeOK /\ Wanted
  OBVIOUS
<1>1. lock_refs \in [Id -> Int] /\ rows \in Nat /\ current_maxid \in Nat
  <2>1. lock_refs = [i \in Id |-> 0] /\ rows = NrLocks /\ current_maxid = 0
    BY DEF Init, LockdepInit
  <2>2. lock_refs \in [Id -> Int]
    BY <2>1
  <2> QED
    BY <2>1, <2>2, LockdepAssumption
<1>2. RegistryTypeOK
  BY <1>1 DEF Init, LockdepInit, RegistryTypeOK
<1>3. LockdepTypeOK
  BY <1>2 DEF Init, LockdepInit, LockdepTypeOK
<1>4. nlock \in [Mutex -> Nat]
  <2>1. nlock = [m \in Mutex |-> 0]
    BY DEF Init
  <2> QED
    BY <2>1
<1> QED
  BY <1>3, <1>4 DEF Init, TypeOK, Wanted

(* Each action keeps the types.                                              *)
LEMMA TypeStep == TypeOK /\ Wanted /\ [Next]_vars => TypeOK' /\ Wanted'
<1> SUFFICES ASSUME TypeOK, Wanted, [Next]_vars PROVE TypeOK' /\ Wanted'
  OBVIOUS
<1>t. /\ RegistryTypeOK /\ follows \subseteq Id \X Id /\ held \in [Thread -> SUBSET Id]
      /\ nlock \in [Mutex -> Nat] /\ id \in [Mutex -> Id \cup {NoId}]
      /\ arg \in [Thread -> Id \cup {NoId}]
  BY DEF TypeOK, LockdepTypeOK
<1>n. nlock \in [Mutex -> Nat]
  BY <1>t
<1>1. CASE GlobalInit
  <2>1. LockdepTypeOK'
    BY <1>t, <1>1 DEF GlobalInit, lockdep_global_init, free_at_start, initially_free,
       LockdepTypeOK, RegistryTypeOK
  <2>2. carried' \subseteq constructed' /\ midway' \in BOOLEAN
    BY <1>1 DEF GlobalInit, mutex_vars, InUse
  <2> QED
    BY <1>1, <2>1, <2>2 DEF GlobalInit, mutex_vars, TypeOK, Wanted
<1>7. CASE GlobalDestroy
  <2>1. LockdepTypeOK'
    <3>1. /\ lock_ids' = [n \in LockName |-> NoId] /\ lock_names' = [i \in Id |-> NoName]
          /\ held' = [t \in Thread |-> {}] /\ follows' = {} /\ g_lockdep' = FALSE
          /\ UNCHANGED <<free_ids_inited, free_ids, last_freed_id, lock_refs,
                         current_maxid, rows>>
      BY <1>7 DEF GlobalDestroy, lockdep_global_destroy, clear_held
    <3>2. /\ lock_ids' \in [LockName -> Id \cup {NoId}]
          /\ lock_names' \in [Id -> LockName \cup {NoName}]
          /\ held' \in [Thread -> SUBSET Id]
      BY <3>1
    <3>3. RegistryTypeOK' /\ free_ids_inited' \in BOOLEAN
      BY <1>t, <3>1, <3>2 DEF RegistryTypeOK, TypeOK, LockdepTypeOK
    <3> QED
      BY <3>1, <3>2, <3>3 DEF LockdepTypeOK
  <2> QED
    BY <1>7, <2>1 DEF GlobalDestroy, mutex_vars, start_vars, TypeOK, Wanted
<1>2. ASSUME NEW m \in Mutex, Construct(m) PROVE TypeOK' /\ Wanted'
  <2>1. LockdepTypeOK' /\ id' \in [Mutex -> Id \cup {NoId}]
    <3>1. CASE g_lockdep
      <4>1. PICK i \in Id : Register("", i) /\ id' = [id EXCEPT ![m] = i]
        BY <1>2, <3>1 DEF Construct, registered_name
      <4>2. RegistryTypeOK'
        BY <1>t, <4>1, RegisterType, LockdepAssumption
      <4>3. id' \in [Mutex -> Id \cup {NoId}]
        BY <1>t, <4>1
      <4> QED
        BY <1>2, <3>1, <4>2, <4>3 DEF Construct, TypeOK, LockdepTypeOK
    <3>2. CASE ~ g_lockdep
      BY <1>t, <1>2, <3>2 DEF Construct, lockdep_vars, TypeOK, LockdepTypeOK, RegistryTypeOK
    <3> QED
      BY <3>1, <3>2
  <2> QED
    BY <1>2, <2>1 DEF Construct, start_vars, TypeOK, Wanted
<1>3. ASSUME NEW why \in {"out of ids", "recursive lock", "cycle", "unknown id"}, Die(why)
      PROVE  TypeOK' /\ Wanted'
  BY <1>3 DEF Die, lockdep_vars, start_vars, TypeOK, LockdepTypeOK, RegistryTypeOK, Wanted
<1>4. ASSUME NEW m \in Mutex, Destroy(m) PROVE TypeOK' /\ Wanted'
  <2>1. LockdepTypeOK'
    BY <1>4 DEF Destroy, lockdep_vars, TypeOK, LockdepTypeOK, RegistryTypeOK
  <2>2. /\ constructed' \subseteq Mutex /\ dying' \subseteq constructed'
        /\ carried' \subseteq constructed'
    <3>1. /\ constructed \subseteq Mutex /\ dying \subseteq constructed
          /\ carried \subseteq constructed
      BY DEF TypeOK
    <3> QED
      BY <1>4, <3>1 DEF Destroy, Unused
  <2> QED
    BY <1>4, <2>1, <2>2 DEF Destroy, TypeOK, Wanted
<1>8. ASSUME NEW m \in Mutex, Unregister(m) PROVE TypeOK' /\ Wanted'
  <2>1. RegistryTypeOK' /\ follows' \subseteq follows
    BY <1>t, <1>8, UnregisterType DEF Unregister
  <2>2. LockdepTypeOK'
    BY <1>8, <2>1 DEF Unregister, TypeOK, LockdepTypeOK
  <2> QED
    BY <1>8, <2>2 DEF Unregister, TypeOK, Wanted
<1>5. ASSUME NEW t \in Thread, ThreadStep(t) PROVE TypeOK' /\ Wanted'
  <2>0. ASSUME UNCHANGED lockdep_vars PROVE LockdepTypeOK'
    BY <2>0 DEF lockdep_vars, TypeOK, LockdepTypeOK, RegistryTypeOK
  <2>1. ASSUME NEW m \in Mutex, Lock(t, m) PROVE TypeOK' /\ Wanted'
    <3>1. /\ want' = [want EXCEPT ![t] = m] /\ arg' \in [Thread -> Id \cup {NoId}]
          /\ \E l \in {"will_lock", "acquire"} : pc' = [pc EXCEPT ![t] = l]
          /\ UNCHANGED <<lockdep_vars, constructed, dying, id, owner, nlock, locked_by, failed,
                         start_vars>>
      BY <1>t, <2>1 DEF Lock, Report, Goto
    <3> QED
      BY <2>0, <3>1 DEF start_vars, TypeOK, Wanted
  <2>2. ASSUME NEW m \in Mutex, TryLock(t, m) PROVE TypeOK' /\ Wanted'
    BY <1>t, <2>0, <2>2 DEF TryLock, Report, Goto, start_vars, TypeOK, Wanted
  <2>3. ASSUME NEW m \in Mutex, Unlock(t, m) PROVE TypeOK' /\ Wanted'
    <3>1. nlock' \in [Mutex -> Nat]
      <4>1. nlock' = [nlock EXCEPT ![m] = @ - 1] /\ nlock[m] = 1
        BY <2>3 DEF Unlock, pre_unlock
      <4> QED
        BY <1>t, <4>1
    <3> QED
      BY <1>t, <2>0, <2>3, <3>1 DEF Unlock, pre_unlock, Report, Goto, start_vars, TypeOK, Wanted
  <2>4. CASE WillLock(t)
    <3>1. PICK i \in Id \cup {NoId} :
            /\ lockdep_is_off(arg[t], i) \/ lockdep_will_lock(Group[want[t]], arg[t], t, i)
            /\ id' = [id EXCEPT ![want[t]] = i]
      BY <2>4 DEF WillLock
    <3>2. Group[want[t]] \in LockName
      BY <2>4, MutexAssumption DEF WillLock, Wanted
    <3>3. LockdepTypeOK'
      <4>1. CASE lockdep_is_off(arg[t], i)
        BY <2>0, <4>1 DEF lockdep_is_off
      <4>2. CASE lockdep_will_lock(Group[want[t]], arg[t], t, i)
        <5>1. i \in Id
          BY <1>t, <3>2, <4>2, GivesAnId DEF lockdep_will_lock
        <5>2. RegistryTypeOK'
          BY <1>t, <3>2, <4>2, <5>1, RegisterIfNewType DEF lockdep_will_lock
        <5>3. follows' \subseteq Id \X Id
          <6>1. follows' = follows \cup {<<h, i>> : h \in held[t]} /\ held[t] \subseteq Id
            BY <1>t, <4>2 DEF lockdep_will_lock, will_lock_edges
          <6> QED
            BY <1>t, <5>1, <6>1
        <5> QED
          BY <4>2, <5>2, <5>3 DEF lockdep_will_lock, TypeOK, LockdepTypeOK
      <4> QED
        BY <3>1, <4>1, <4>2
    <3>4. id' \in [Mutex -> Id \cup {NoId}]
      BY <1>t, <3>1
    <3> QED
      BY <2>4, <3>3, <3>4 DEF WillLock, Goto, start_vars, TypeOK, Wanted
  <2>5. CASE WillLockDies(t)
    BY <2>5, <1>3 DEF WillLockDies
  <2>6. CASE Acquire(t)
    BY <1>t, <2>0, <2>6 DEF Acquire, Report, Goto, start_vars, TypeOK, Wanted
  <2>7. CASE AcquireThrows(t)
    BY <2>0, <2>7 DEF AcquireThrows, Return, Goto, start_vars, TypeOK, Wanted
  <2>c. ASSUME post_lock(t), pc[t] # "idle" PROVE nlock' \in [Mutex -> Nat]
    <3>1. nlock' = [nlock EXCEPT ![want[t]] = @ + 1] /\ want[t] \in Mutex
      BY <2>c DEF post_lock, Wanted
    <3> QED
      BY <1>n, <3>1
  <2>8. CASE Locked(t)
    <3>1. PICK i \in Id \cup {NoId} :
            /\ lockdep_is_off(arg[t], i) \/ lockdep_locked(Group[want[t]], arg[t], t, i)
            /\ id' = [id EXCEPT ![want[t]] = i]
      BY <2>8 DEF Locked
    <3>2. Group[want[t]] \in LockName
      BY <2>8, MutexAssumption DEF Locked, Wanted
    <3>3. LockdepTypeOK'
      <4>1. CASE lockdep_is_off(arg[t], i)
        BY <2>0, <4>1 DEF lockdep_is_off
      <4>2. CASE lockdep_locked(Group[want[t]], arg[t], t, i)
        <5>1. i \in Id
          BY <1>t, <3>2, <4>2, GivesAnId DEF lockdep_locked
        <5>2. RegistryTypeOK'
          BY <1>t, <3>2, <4>2, <5>1, RegisterIfNewType DEF lockdep_locked
        <5>3. held' \in [Thread -> SUBSET Id]
          BY <1>t, <4>2, <5>1 DEF lockdep_locked
        <5> QED
          BY <4>2, <5>2, <5>3 DEF lockdep_locked, TypeOK, LockdepTypeOK
      <4> QED
        BY <3>1, <4>1, <4>2
    <3>4. id' \in [Mutex -> Id \cup {NoId}]
      BY <1>t, <3>1
    <3>5. nlock' \in [Mutex -> Nat]
      BY <2>8, <2>c DEF Locked
    <3> QED
      BY <2>8, <3>3, <3>4, <3>5 DEF Locked, post_lock, Return, Goto, start_vars, TypeOK, Wanted
  <2>9. CASE LockedDies(t)
    BY <2>9, <1>3 DEF LockedDies
  <2>10. CASE WillUnlock(t)
    <3>1. LockdepTypeOK'
      <4>1. CASE lockdep_is_off(arg[t], arg[t])
        BY <2>0, <4>1 DEF lockdep_is_off
      <4>2. CASE lockdep_will_unlock(arg[t], t)
        <5>1. held' \in [Thread -> SUBSET Id]
          BY <1>t, <4>2 DEF lockdep_will_unlock
        <5> QED
          BY <4>2, <5>1 DEF lockdep_will_unlock, registry, TypeOK, LockdepTypeOK, RegistryTypeOK
      <4> QED
        BY <2>10, <4>1, <4>2 DEF WillUnlock
    <3>2. id' \in [Mutex -> Id \cup {NoId}]
      BY <1>t, <2>10 DEF WillUnlock
    <3> QED
      BY <2>10, <3>1, <3>2 DEF WillUnlock, Goto, start_vars, TypeOK, Wanted
  <2>11. CASE UnlockImpl(t)
    BY <2>0, <2>11 DEF UnlockImpl, Return, Goto, start_vars, TypeOK, Wanted
  <2>12. CASE PostLock(t)
    <3>1. nlock' \in [Mutex -> Nat]
      BY <2>12, <2>c DEF PostLock
    <3> QED
      BY <2>0, <2>12, <3>1 DEF PostLock, post_lock, Return, Goto, start_vars, TypeOK, Wanted
  <2> QED
    BY <1>5, <2>1, <2>2, <2>3, <2>4, <2>5, <2>6, <2>7, <2>8, <2>9, <2>10, <2>11, <2>12
       DEF ThreadStep
<1>6. CASE UNCHANGED vars
  BY <1>6 DEF vars, lockdep_vars, mutex_vars, start_vars, TypeOK, LockdepTypeOK, RegistryTypeOK,
     Wanted
<1> QED
  BY <1>1, <1>2, <1>3, <1>4, <1>5, <1>6, <1>7, <1>8 DEF Next, ConstructDies, UnregisterDies

(* Nobody uses a mutex whose destructor runs.                                 *)
DyingUnused == \A m \in dying : Unused(m)

LEMMA DyingStep ==
  ASSUME TypeOK, Wanted, DyingUnused, [Next]_vars
  PROVE  DyingUnused'
<1>t. /\ owner \in [Mutex -> Thread \cup {NoThread}] /\ NoThread \notin Thread
      /\ want \in [Thread -> Mutex \cup {NoMutex}] /\ NoMutex \notin Mutex
      /\ pc \in [Thread -> {"idle", "will_lock", "acquire", "locked", "post_lock",
                             "will_unlock", "unlock"}]
      /\ \A m \in dying : m \in Mutex
  BY NoThreadAssumption DEF TypeOK
<1>0. ASSUME UNCHANGED <<constructed, dying, owner, pc, want>> PROVE DyingUnused'
  BY <1>0 DEF DyingUnused, Unused
<1>1. CASE GlobalInit \/ GlobalDestroy \/ UNCHANGED vars
  BY <1>0, <1>1 DEF GlobalInit, GlobalDestroy, vars, mutex_vars
<1>2. ASSUME NEW m \in Mutex, ConstructDies(m) \/ UnregisterDies(m) PROVE DyingUnused'
  BY <1>0, <1>2 DEF ConstructDies, UnregisterDies, Die
<1>3. ASSUME NEW m \in Mutex, Construct(m) PROVE DyingUnused'
  BY <1>3 DEF Construct, DyingUnused, Unused
<1>4. ASSUME NEW m \in Mutex, Destroy(m) \/ Unregister(m) PROVE DyingUnused'
  BY <1>4 DEF Destroy, Unregister, DyingUnused, Unused
<1>5. ASSUME NEW t \in Thread, ThreadStep(t) PROVE DyingUnused'
  <2>1. ASSUME NEW m \in Mutex, Lock(t, m) \/ TryLock(t, m) PROVE DyingUnused'
    BY <1>t, <2>1 DEF Lock, TryLock, Report, Goto, DyingUnused, Unused
  <2>2. ASSUME NEW m \in Mutex, Unlock(t, m) PROVE DyingUnused'
    BY <1>t, <2>2 DEF Unlock, Report, Goto, DyingUnused, Unused
  <2>3. CASE WillLock(t) \/ WillUnlock(t)
    BY <1>t, <2>3 DEF WillLock, WillUnlock, Goto, DyingUnused, Unused
  <2>4. CASE Acquire(t)
    BY <1>t, <2>4 DEF Acquire, Report, Goto, DyingUnused, Unused, Wanted
  <2>5. CASE AcquireThrows(t) \/ Locked(t) \/ PostLock(t)
    BY <1>t, <2>5 DEF AcquireThrows, Locked, PostLock, post_lock, Return, Goto, DyingUnused, Unused
  <2>6. CASE UnlockImpl(t)
    BY <1>t, <2>6 DEF UnlockImpl, Return, Goto, DyingUnused, Unused, Wanted
  <2>7. CASE WillLockDies(t) \/ LockedDies(t)
    BY <1>0, <2>7 DEF WillLockDies, LockedDies, Die
  <2> QED
    BY <1>5, <2>1, <2>2, <2>3, <2>4, <2>5, <2>6, <2>7 DEF ThreadStep
<1> QED
  BY <1>1, <1>2, <1>3, <1>4, <1>5 DEF Next

(* Every variable keeps its type, whatever the threads do.                   *)
THEOREM TypeCorrect == Spec => [](TypeOK /\ Wanted)
BY TypeInit, TypeStep, PTL DEF Spec
----------------------------------------------------------------------------
(* The inductive invariant behind the safety properties.  Its first part     *)
(* holds whenever lockdep is started and shut down.                          *)

(* Classes and ids are two views of one table, which the free ids are not in. *)
Table ==
  /\ \A n \in LockName, i \in Id : lock_ids[n] = i <=> lock_names[i] = n
  /\ \A i \in free_ids : lock_names[i] = NoName
  /\ ~ free_ids_inited => free_ids = {} /\ \A i \in Id : lock_names[i] = NoName

(* A thread is busy with a mutex that exists, and holds mutexes that exist.   *)
Existing ==
  /\ \A t \in Thread : pc[t] # "idle" => want[t] \in constructed
  /\ \A m \in Mutex : owner[m] # NoThread => m \in constructed
  /\ \A t \in Thread :
       pc[t] \in {"locked", "post_lock", "will_unlock", "unlock"} => owner[want[t]] = t

(* Nothing is recorded while lockdep is off.                                 *)
OffClean == ~ g_lockdep => follows = {} /\ \A t \in Thread : held[t] = {}

(* The mutexes that have an id, or are about to get it back from the thread   *)
(* that has read it.                                                         *)
Reads(t, m, i) == pc[t] # "idle" /\ want[t] = m /\ arg[t] = i
Linked(i) == {m \in constructed : id[m] = i \/ \E t \in Thread : Reads(t, m, i)}

(* A reference is counted for every one of them.                             *)
Kept ==
  \A i \in Id : lock_refs[i] >= Cardinality(Linked(i)) /\ (Linked(i) # {} => i \notin free_ids)

(* Before its first start, and until the next, lockdep knows every id.        *)
Once ==
  /\ g_lockdep => free_ids_inited
  /\ ~ free_ids_inited => \A i \in Id : Linked(i) = {}
  /\ ~ Restarts /\ g_lockdep => \A i \in Id : Linked(i) # {} => lock_names[i] # NoName

Base == Table /\ Existing /\ OffClean /\ Kept /\ Once /\ NoCycleRecorded

(* The second part holds while lockdep runs, if it was not started midway.    *)
Steady == g_lockdep /\ ~ midway

(* The id a thread has read is that of its mutex; if it read none while        *)
(* another thread has registered the mutex since, it will find that one's id. *)
IdsStable ==
  \A t \in Thread : pc[t] # "idle" =>
    /\ pc[t] # "post_lock"
    /\ arg[t] # NoId => arg[t] = id[want[t]]
    /\ arg[t] = NoId => pc[t] \in {"will_lock", "acquire", "locked"}
    /\ arg[t] = NoId /\ id[want[t]] # NoId => lock_ids[Group[want[t]]] = id[want[t]]

(* Every mutex is registered that has not its id from before the last start.  *)
Registered == \A m \in constructed \ carried : id[m] # NoId => lock_names[id[m]] # NoName

(* t holds m and lockdep knows: not between pthread_mutex_lock and _locked, or *)
(* _will_unlock and pthread_mutex_unlock.                                    *)
Holds(t, m) ==
  owner[m] = t /\ ~ (pc[t] \in {"locked", "unlock"} /\ want[t] = m)

Tracked ==
  /\ \A t \in Thread, m \in Mutex : Holds(t, m) => id[m] \in Id
  /\ \A t \in Thread : \A i \in held[t] : \E m \in constructed : Holds(t, m) /\ id[m] = i

(* What a thread holds comes before what it waits for.                       *)
Ordered ==
  \A t \in Thread : pc[t] = "acquire" =>
    /\ id[want[t]] \in Id \ held[t]
    /\ \A h \in held[t] : <<h, id[want[t]]>> \in follows

(* No thread holds two mutexes of one class.                                 *)
OneOfAClass ==
  \A t \in Thread : \A m, n \in Mutex :
    owner[m] = t /\ owner[n] = t /\ id[m] = id[n] => m = n

(* Where nobody calls try_lock, lockdep knows of every mutex held.           *)
LockOnly ==
  TryLocks = {} =>
    /\ \A t \in Thread, m \in Mutex : owner[m] = t => id[m] \in Id
    /\ \A t \in Thread, m \in Mutex : Holds(t, m) => id[m] \in held[t]
    /\ OneOfAClass

(* No edge joins an id that is free.                                         *)
CleanEdges == \A e \in follows : e[1] \notin free_ids /\ e[2] \notin free_ids

Inv == IdsStable /\ Registered /\ Tracked /\ Ordered /\ LockOnly /\ CleanEdges

IInv == TypeOK /\ Wanted /\ DyingUnused /\ Base /\ (Steady => Inv)

----------------------------------------------------------------------------
(* The order of classes.                                                     *)

(* Fewer edges make no cycle.                                                *)
LEMMA AcyclicSubset ==
  ASSUME NEW F, NEW G \in SUBSET F, Acyclic(F)
  PROVE  Acyclic(G)
BY DEF Acyclic

(* Edges from the classes held to one that reaches none of them make no       *)
(* cycle: a cycle through i would stay in what i reaches.                     *)
LEMMA AddingEdgesKeepsAcyclic ==
  ASSUME NEW F \in SUBSET (Id \X Id), NEW i \in Id, NEW H \in SUBSET Id,
         Acyclic(F), i \notin H,
         \A h \in H : <<h, i>> \in F \/ ~ Reaches(F, i, h)
  PROVE  Acyclic(F \cup {<<h, i>> : h \in H})
<1> DEFINE G == F \cup {<<h, i>> : h \in H}
           R == {b \in Id : Reaches(F, i, b)}
<1> SUFFICES ASSUME NEW S \in SUBSET Id, S # {}
             PROVE  \E a \in S : \A b \in S : <<a, b>> \notin G
  BY DEF Acyclic
<1>1. i \in R
  BY DEF Reaches
<1>2. ASSUME NEW a \in R, NEW b \in Id, <<a, b>> \in F PROVE b \in R
  BY <1>2 DEF Reaches, Closed
<1>3. CASE S \cap R # {}
  <2>1. PICK a \in S \cap R : \A b \in S \cap R : <<a, b>> \notin F
    BY <1>3 DEF Acyclic
  <2>2. ASSUME NEW b \in S PROVE <<a, b>> \notin G
    <3>1. <<a, b>> \notin F
      BY <2>1, <1>2
    <3>2. ~ (a \in H /\ b = i)
      BY <3>1, <2>1
    <3> QED
      BY <3>1, <3>2
  <2> QED
    BY <2>1, <2>2
<1>4. CASE S \cap R = {}
  <2>1. PICK a \in S : \A b \in S : <<a, b>> \notin F
    BY DEF Acyclic
  <2>2. \A b \in S : <<a, b>> \notin G
    BY <1>1, <1>4, <2>1
  <2> QED
    BY <2>2
<1> QED
  BY <1>3, <1>4

----------------------------------------------------------------------------
(* Registration.                                                             *)

(* _lockdep_register gives a class one id, which no other class has.         *)
LEMMA RegisterFacts ==
  ASSUME RegistryTypeOK, Table, NEW name \in LockName, NEW i \in Id, Register(name, i)
  PROVE  /\ lock_names[i] \in {NoName, name}
         /\ lock_ids[name] \in {NoId, i}
         /\ lock_ids' = [lock_ids EXCEPT ![name] = i]
         /\ lock_names' = [lock_names EXCEPT ![i] = name]
         /\ lock_refs' = [lock_refs EXCEPT ![i] = @ + 1]
         /\ free_ids' \subseteq free_ids \ {i}
         /\ free_ids_inited
<1> USE DEF RegistryTypeOK
<1>0. NoId \notin Id
  BY DEF NoId, Id
<1>1. CASE lock_ids[name] = NoId
  <2>1. i \in free_ids
    BY <1>1 DEF Register, IdsFor, lockdep_get_free_id
  <2> QED
    BY <1>1, <2>1 DEF Register, count_ref, Table
<1>2. CASE lock_ids[name] # NoId
  <2>1. i = lock_ids[name] /\ lock_names[i] = name /\ UNCHANGED <<free_ids, lock_ids, lock_names>>
    BY <1>2 DEF Register, IdsFor, Table
  <2>2. i \notin free_ids /\ free_ids_inited
    BY <2>1, NoNameAssumption DEF Table
  <2> QED
    BY <2>1, <2>2 DEF Register, count_ref
<1> QED
  BY <1>1, <1>2

(* A registration keeps classes and ids the two views of one table.          *)
LEMMA RegisterTable ==
  ASSUME RegistryTypeOK, Table, NEW name \in LockName, NEW i \in Id, Register(name, i),
         free_ids_inited' = free_ids_inited
  PROVE  Table'
<1> USE DEF RegistryTypeOK
<1>1. /\ lock_names[i] \in {NoName, name} /\ lock_ids[name] \in {NoId, i}
      /\ lock_ids' = [lock_ids EXCEPT ![name] = i]
      /\ lock_names' = [lock_names EXCEPT ![i] = name]
      /\ free_ids' \subseteq free_ids \ {i} /\ free_ids_inited
  BY RegisterFacts
<1>2. ASSUME NEW n \in LockName, NEW j \in Id PROVE lock_ids'[n] = j <=> lock_names'[j] = n
  <2>1. NoId # j /\ NoName # n
    BY NoNameAssumption DEF NoId, Id
  <2> QED
    BY <1>1, <2>1 DEF Table
<1> QED
  BY <1>1, <1>2 DEF Table

(* The mutexes of an id can be counted.                                      *)
LEMMA LinkedFinite ==
  ASSUME TypeOK, NEW i \in Id
  PROVE  /\ IsFiniteSet(Linked(i)) /\ Cardinality(Linked(i)) \in Nat
         /\ Linked(i) \in SUBSET Mutex
<1>1. Linked(i) \subseteq Mutex
  BY DEF Linked, TypeOK
<1>2. IsFiniteSet(Linked(i))
  BY <1>1, MutexAssumption, FS_Subset
<1> QED
  BY <1>1, <1>2, FS_CardinalityType

(* A step that lockdep has no part in, and that links no mutex to an id.      *)
LEMMA BaseQuiet ==
  ASSUME TypeOK, Base, UNCHANGED lockdep_vars, \A i \in Id : Linked(i)' \subseteq Linked(i)
  PROVE  Table' /\ OffClean' /\ Kept' /\ Once' /\ NoCycleRecorded'
<1>1. ASSUME NEW i \in Id PROVE lock_refs[i] >= Cardinality(Linked(i)')
  <2>1. /\ Cardinality(Linked(i)') <= Cardinality(Linked(i))
        /\ Cardinality(Linked(i)') \in Nat /\ Cardinality(Linked(i)) \in Nat
    BY LinkedFinite, FS_Subset, FS_CardinalityType
  <2>2. lock_refs[i] \in Int /\ lock_refs[i] >= Cardinality(Linked(i))
    BY DEF TypeOK, LockdepTypeOK, RegistryTypeOK, Base, Kept
  <2> QED
    BY <2>1, <2>2
<1>2. Kept'
  BY <1>1 DEF Kept, Base, lockdep_vars
<1>3. Once'
  BY DEF Once, Base, lockdep_vars
<1> QED
  BY <1>2, <1>3 DEF Base, Table, OffClean, NoCycleRecorded, lockdep_vars

(* A registration that links at most one mutex to its id.                    *)
LEMMA RegisterKeeps ==
  ASSUME TypeOK, TypeOK', Base, g_lockdep, UNCHANGED <<g_lockdep, free_ids_inited>>,
         NEW name \in LockName, NEW i \in Id, NEW m \in Mutex, Register(name, i),
         \A j \in Id : Linked(j)' \subseteq IF j = i THEN Linked(j) \cup {m} ELSE Linked(j)
  PROVE  Kept' /\ Once'
<1>1. /\ lock_names[i] \in {NoName, name} /\ lock_names' = [lock_names EXCEPT ![i] = name]
      /\ lock_refs' = [lock_refs EXCEPT ![i] = @ + 1]
      /\ free_ids' \subseteq free_ids \ {i}
  BY RegisterFacts DEF TypeOK, LockdepTypeOK, Base
<1>t. /\ lock_refs \in [Id -> Int] /\ lock_names \in [Id -> LockName \cup {NoName}]
  BY DEF TypeOK, LockdepTypeOK, RegistryTypeOK
<1>2. ASSUME NEW j \in Id PROVE lock_refs'[j] >= Cardinality(Linked(j)')
  <2>1. lock_refs[j] >= Cardinality(Linked(j)) /\ lock_refs[j] \in Int
    BY <1>t DEF Base, Kept
  <2>2. IsFiniteSet(Linked(j)) /\ Cardinality(Linked(j)) \in Nat
    BY LinkedFinite
  <2>3. CASE j = i
    <3>1. Linked(j)' \subseteq Linked(j) \cup {m} /\ IsFiniteSet(Linked(j) \cup {m})
      BY <2>2, <2>3, FS_AddElement
    <3>2. Cardinality(Linked(j) \cup {m}) = IF m \in Linked(j) THEN Cardinality(Linked(j))
                                            ELSE Cardinality(Linked(j)) + 1
      BY <2>2, FS_AddElement
    <3>3. /\ Cardinality(Linked(j)') <= Cardinality(Linked(j) \cup {m})
          /\ Cardinality(Linked(j)') \in Nat
      BY <3>1, FS_Subset, FS_CardinalityType
    <3>4. lock_refs'[j] = lock_refs[j] + 1
      BY <1>1, <1>t, <2>3
    <3> QED
      BY <2>1, <2>2, <3>2, <3>3, <3>4
  <2>4. CASE j # i
    <3>1. lock_refs'[j] = lock_refs[j] /\ Linked(j)' \subseteq Linked(j)
      BY <1>1, <1>t, <2>4
    <3>2. Cardinality(Linked(j)') <= Cardinality(Linked(j)) /\ Cardinality(Linked(j)') \in Nat
      BY <2>2, <3>1, FS_Subset, FS_CardinalityType
    <3> QED
      BY <2>1, <2>2, <3>1, <3>2
  <2> QED
    BY <2>3, <2>4
<1>3. Kept'
  <2>1. ASSUME NEW j \in Id, Linked(j)' # {} PROVE j \notin free_ids'
    BY <1>1, <2>1 DEF Base, Kept
  <2> QED
    BY <1>2, <2>1 DEF Kept
<1>4. Once'
  <2>1. ASSUME NEW j \in Id, ~ Restarts, Linked(j)' # {} PROVE lock_names'[j] # NoName
    <3>1. CASE j = i
      BY <1>1, <1>t, <3>1, NoNameAssumption
    <3>2. CASE j # i
      BY <1>1, <1>t, <2>1, <3>2 DEF Base, Once
    <3> QED
      BY <3>1, <3>2
  <2> QED
    BY <2>1 DEF Base, Once
<1> QED
  BY <1>3, <1>4

(* A call of lockdep that gives the mutex its id: registered on the way, or   *)
(* read before.                                                              *)
LEMMA CallKeeps ==
  ASSUME TypeOK, TypeOK', Wanted, Base, g_lockdep, UNCHANGED <<g_lockdep, free_ids_inited>>,
         NEW t \in Thread, pc[t] # "idle", NEW i \in Id,
         RegisterIfNew(Group[want[t]], arg[t], i),
         id' = [id EXCEPT ![want[t]] = i], constructed' = constructed,
         \A u \in Thread, n \in Mutex, j \in Id : Reads(u, n, j)' => Reads(u, n, j)
  PROVE  Table' /\ Kept' /\ Once'
<1> DEFINE m == want[t]
<1>t. /\ m \in Mutex /\ Group[m] \in LockName /\ id \in [Mutex -> Id \cup {NoId}]
      /\ m \in constructed /\ constructed \subseteq Mutex /\ RegistryTypeOK
  BY MutexAssumption DEF TypeOK, LockdepTypeOK, Wanted, Base, Existing
<1>1. \A j \in Id : Linked(j)' \subseteq IF j = i THEN Linked(j) \cup {m} ELSE Linked(j)
  BY <1>t DEF Linked
<1>2. CASE arg[t] = NoId
  <2>1. Register(Group[m], i)
    BY <1>2 DEF RegisterIfNew
  <2>2. Table'
    BY <1>t, <2>1, RegisterTable DEF Base
  <2>3. Kept' /\ Once'
    BY <1>1, <1>t, <2>1, RegisterKeeps
  <2> QED
    BY <2>2, <2>3
<1>3. CASE arg[t] # NoId
  <2>1. UNCHANGED registry /\ arg[t] = i
    BY <1>3 DEF RegisterIfNew
  <2>2. m \in Linked(i)
    BY <1>t, <2>1 DEF Linked, Reads
  <2>3. \A j \in Id : Linked(j)' \subseteq Linked(j)
    BY <1>1, <2>2
  <2>4. ASSUME NEW j \in Id PROVE lock_refs[j] >= Cardinality(Linked(j)')
    <3>1. /\ Cardinality(Linked(j)') <= Cardinality(Linked(j))
          /\ Cardinality(Linked(j)') \in Nat /\ Cardinality(Linked(j)) \in Nat
      BY <2>3, LinkedFinite, FS_Subset, FS_CardinalityType
    <3>2. lock_refs[j] \in Int /\ lock_refs[j] >= Cardinality(Linked(j))
      BY DEF TypeOK, LockdepTypeOK, RegistryTypeOK, Base, Kept
    <3> QED
      BY <3>1, <3>2
  <2>5. Kept' /\ Once'
    BY <2>1, <2>3, <2>4 DEF Base, Kept, Once, registry
  <2>6. Table'
    BY <2>1 DEF Base, Table, registry
  <2> QED
    BY <2>5, <2>6
<1> QED
  BY <1>2, <1>3

(* The class goes with the last mutex that has its id, and nothing does with  *)
(* another one.                                                              *)
LastReference(m) == id[m] # NoId /\ lock_refs[id[m]] = 1

LEMMA UnregisterFacts ==
  ASSUME TypeOK, Base, NEW m \in constructed, lockdep_unregister(id[m]),
         UNCHANGED <<g_lockdep, free_ids_inited>>, id[m] # NoId => lock_names[id[m]] # NoName,
         \A i \in Id : Linked(i)' = Linked(i) \ {m}
  PROVE  /\ Table' /\ Kept' /\ Once' /\ follows' \subseteq follows
         /\ LastReference(m) =>
              /\ Linked(id[m]) \subseteq {m}
              /\ follows' = without_order_of(id[m])
              /\ lock_ids' = [lock_ids EXCEPT ![lock_names[id[m]]] = NoId]
              /\ lock_names' = [lock_names EXCEPT ![id[m]] = NoName]
              /\ free_ids' = free_ids \cup {id[m]}
         /\ ~ LastReference(m) => UNCHANGED <<follows, lock_ids, lock_names, free_ids>>
<1>t. /\ lock_refs \in [Id -> Int] /\ lock_names \in [Id -> LockName \cup {NoName}]
      /\ lock_ids \in [LockName -> Id \cup {NoId}]
      /\ id \in [Mutex -> Id \cup {NoId}] /\ m \in Mutex
  BY DEF TypeOK, LockdepTypeOK, RegistryTypeOK
<1>u. ASSUME NEW j \in Id
      PROVE  /\ Linked(j)' = Linked(j) \ {m}
             /\ IsFiniteSet(Linked(j)) /\ Cardinality(Linked(j)) \in Nat
             /\ IsFiniteSet(Linked(j) \ {m})
             /\ Cardinality(Linked(j)') = IF m \in Linked(j) THEN Cardinality(Linked(j)) - 1
                                          ELSE Cardinality(Linked(j))
  <2>1. IsFiniteSet(Linked(j)) /\ Cardinality(Linked(j)) \in Nat
    BY LinkedFinite
  <2>2. /\ IsFiniteSet(Linked(j) \ {m})
        /\ Cardinality(Linked(j) \ {m}) = IF m \in Linked(j) THEN Cardinality(Linked(j)) - 1
                                          ELSE Cardinality(Linked(j))
    BY <2>1, FS_RemoveElement
  <2> QED
    BY <2>1, <2>2
<1>c. \A j \in Id : /\ lock_refs[j] >= Cardinality(Linked(j))
                    /\ Linked(j) # {} => j \notin free_ids
  BY DEF Base, Kept
<1>o. /\ g_lockdep => free_ids_inited
      /\ ~ free_ids_inited => \A i \in Id : Linked(i) = {}
      /\ ~ Restarts /\ g_lockdep => \A i \in Id : Linked(i) # {} => lock_names[i] # NoName
  BY DEF Base, Once
<1>1. CASE id[m] = NoId
  <2>1. UNCHANGED <<registry, follows>> /\ ~ LastReference(m)
    BY <1>1 DEF lockdep_unregister, LastReference
  <2>2. \A j \in Id : lock_refs'[j] >= Cardinality(Linked(j)')
    <3>1. ASSUME NEW j \in Id PROVE lock_refs'[j] >= Cardinality(Linked(j)')
      <4>1. lock_refs'[j] = lock_refs[j] /\ lock_refs[j] \in Int
        BY <1>t, <2>1 DEF registry
      <4> QED
        BY <1>c, <1>u, <4>1
    <3> QED
      BY <3>1
  <2>3. Kept' /\ Once'
    BY <1>c, <1>o, <1>u, <2>1, <2>2 DEF Kept, Once, registry
  <2> QED
    BY <2>1, <2>3 DEF registry, Table, Base
<1>2. CASE id[m] # NoId
  <2>0. PICK x \in Id : x = id[m]
    BY <1>2, <1>t
  <2>1. m \in Linked(x) /\ lock_names[x] \in LockName
    BY <1>2, <1>t, <2>0 DEF Linked
  <2>2. lock_refs' = [lock_refs EXCEPT ![x] = @ - 1]
    BY <1>2, <2>0 DEF lockdep_unregister
  <2>3. ASSUME NEW j \in Id PROVE lock_refs'[j] >= Cardinality(Linked(j)')
    <3>1. CASE j = x
      <4>1. Cardinality(Linked(x)') = Cardinality(Linked(x)) - 1 /\ Cardinality(Linked(x)) \in Nat
        BY <1>u, <2>1
      <4>2. lock_refs'[x] = lock_refs[x] - 1 /\ lock_refs[x] \in Int
        BY <1>t, <2>1, <2>2
      <4>3. lock_refs[x] >= Cardinality(Linked(x))
        BY <1>c, <2>1
      <4> QED
        BY <3>1, <4>1, <4>2, <4>3
    <3>2. CASE j # x
      <4>1. lock_refs'[j] = lock_refs[j] /\ lock_refs[j] \in Int
        BY <1>t, <2>2, <3>2
      <4>2. lock_refs[j] >= Cardinality(Linked(j)) /\ Cardinality(Linked(j)) \in Nat
        BY <1>c, <1>u
      <4>3. Linked(j)' \subseteq Linked(j) /\ IsFiniteSet(Linked(j))
        BY <1>u
      <4>4. Cardinality(Linked(j)') <= Cardinality(Linked(j)) /\ Cardinality(Linked(j)') \in Nat
        BY <4>3, FS_Subset, FS_CardinalityType
      <4> QED
        BY <4>1, <4>2, <4>4
    <3> QED
      BY <3>1, <3>2
  <2>4. CASE lock_refs[x] = 1
    <3>1. /\ follows' = without_order_of(x)
          /\ lock_ids' = [lock_ids EXCEPT ![lock_names[x]] = NoId]
          /\ lock_names' = [lock_names EXCEPT ![x] = NoName]
          /\ free_ids' = free_ids \cup {x}
      BY <1>2, <2>0, <2>4 DEF lockdep_unregister
    <3>2. Linked(x) \ {m} = {}
      <4>1. Cardinality(Linked(x)') = 0
        <5>1. Cardinality(Linked(x)') = Cardinality(Linked(x)) - 1
              /\ Cardinality(Linked(x)) \in Nat
          BY <1>u, <2>1
        <5>2. Cardinality(Linked(x)) <= 1
          BY <1>c, <2>1, <2>4
        <5>3. IsFiniteSet(Linked(x) \ {m}) /\ Linked(x)' = Linked(x) \ {m}
          BY <1>u, <2>1
        <5>4. Cardinality(Linked(x)') \in Nat
          BY <5>3, FS_CardinalityType
        <5> QED
          BY <5>1, <5>2, <5>4
      <4>2. IsFiniteSet(Linked(x) \ {m}) /\ Linked(x)' = Linked(x) \ {m}
        BY <1>u, <2>1
      <4> QED
        BY <4>1, <4>2, FS_EmptySet
    <3>3. Table'
      <4>1. ASSUME NEW n \in LockName, NEW j \in Id PROVE lock_ids'[n] = j <=> lock_names'[j] = n
        <5>1. NoId # j /\ NoName # n
          BY NoNameAssumption DEF NoId, Id
        <5> QED
          BY <1>t, <2>1, <3>1, <5>1 DEF Base, Table
      <4>2. free_ids_inited
        BY <2>1, NoNameAssumption DEF Base, Table
      <4> QED
        BY <1>t, <2>1, <3>1, <4>1, <4>2 DEF Base, Table
    <3>4. Kept'
      <4>1. ASSUME NEW j \in Id, Linked(j)' # {} PROVE j \notin free_ids'
        BY <1>c, <1>u, <3>1, <3>2, <4>1
      <4> QED
        BY <2>3, <4>1 DEF Kept
    <3>5. Once'
      <4>1. ASSUME NEW j \in Id, ~ Restarts, g_lockdep, Linked(j)' # {}
            PROVE  lock_names'[j] # NoName
        BY <1>o, <1>t, <1>u, <3>1, <3>2, <4>1
      <4>2. ASSUME NEW j \in Id, ~ free_ids_inited PROVE Linked(j)' = {}
        BY <1>o, <1>u, <4>2
      <4> QED
        BY <1>o, <4>1, <4>2 DEF Once
    <3> QED
      BY <1>2, <2>0, <2>4, <3>1, <3>2, <3>3, <3>4, <3>5 DEF LastReference, without_order_of
  <2>5. CASE lock_refs[x] # 1
    <3>1. UNCHANGED <<follows, lock_ids, lock_names, free_ids>>
      BY <1>2, <2>0, <2>5 DEF lockdep_unregister
    <3>2. Kept' /\ Once'
      BY <1>c, <1>o, <1>u, <2>3, <3>1 DEF Kept, Once
    <3> QED
      BY <2>0, <2>5, <3>1, <3>2 DEF LastReference, Base, Table
  <2> QED
    BY <2>4, <2>5
<1> QED
  BY <1>1, <1>2

----------------------------------------------------------------------------
(* Every step preserves the first part.                                      *)

(* Any step of a thread.                                                     *)
LEMMA BaseThread ==
  ASSUME TypeOK, TypeOK', Wanted, Base, NEW t \in Thread, ThreadStep(t)
  PROVE  Base'
<1>t. /\ want \in [Thread -> Mutex \cup {NoMutex}] /\ arg \in [Thread -> Id \cup {NoId}]
      /\ pc \in [Thread -> {"idle", "will_lock", "acquire", "locked", "post_lock",
                             "will_unlock", "unlock"}]
      /\ owner \in [Mutex -> Thread \cup {NoThread}] /\ id \in [Mutex -> Id \cup {NoId}]
      /\ constructed \subseteq Mutex /\ held \in [Thread -> SUBSET Id]
      /\ follows \subseteq Id \X Id /\ RegistryTypeOK
  BY DEF TypeOK, LockdepTypeOK
<1>n. NoThread \notin Thread /\ NoId \notin Id
  BY NoThreadAssumption DEF NoId, Id
<1>e. /\ \A u \in Thread : pc[u] # "idle" => want[u] \in constructed
      /\ \A m \in Mutex : owner[m] # NoThread => m \in constructed
      /\ \A u \in Thread :
           pc[u] \in {"locked", "post_lock", "will_unlock", "unlock"} => owner[want[u]] = u
  BY DEF Base, Existing
<1>0. ASSUME UNCHANGED lockdep_vars, Existing', \A i \in Id : Linked(i)' \subseteq Linked(i)
      PROVE  Base'
  BY <1>0, BaseQuiet DEF Base
<1>1. ASSUME NEW m \in Mutex, Lock(t, m) \/ TryLock(t, m) \/ Unlock(t, m) PROVE Base'
  <2>1. /\ UNCHANGED <<lockdep_vars, id, constructed>> /\ pc[t] = "idle" /\ m \in constructed
        /\ want' = [want EXCEPT ![t] = m]
        /\ arg' = [arg EXCEPT ![t] = id[m]] \/ arg' = [arg EXCEPT ![t] = NoId]
        /\ \/ UNCHANGED owner /\ \E l \in {"will_lock", "acquire"} : pc' = [pc EXCEPT ![t] = l]
           \/ /\ owner[m] = NoThread /\ owner' = [owner EXCEPT ![m] = t]
              /\ \E l \in {"locked", "post_lock"} : pc' = [pc EXCEPT ![t] = l]
           \/ /\ owner[m] = t /\ UNCHANGED owner
              /\ \E l \in {"will_unlock", "unlock"} : pc' = [pc EXCEPT ![t] = l]
    BY <1>1, <1>e, <1>n, <1>t DEF Lock, TryLock, Unlock, Report, Goto
  <2>2. Existing'
    BY <1>e, <1>n, <1>t, <2>1 DEF Existing
  <2>3. \A i \in Id : Linked(i)' \subseteq Linked(i)
    BY <1>n, <1>t, <2>1 DEF Linked, Reads
  <2> QED
    BY <1>0, <2>1, <2>2, <2>3
<1>2. CASE Acquire(t)
  <2>1. /\ UNCHANGED <<lockdep_vars, id, constructed, want>> /\ pc[t] = "acquire"
        /\ owner[want[t]] = NoThread /\ owner' = [owner EXCEPT ![want[t]] = t]
        /\ arg' = [arg EXCEPT ![t] = id[want[t]]] \/ arg' = [arg EXCEPT ![t] = NoId]
        /\ \E l \in {"locked", "post_lock"} : pc' = [pc EXCEPT ![t] = l]
    BY <1>2 DEF Acquire, Report, Goto
  <2>2. Existing'
    BY <1>e, <1>n, <1>t, <2>1 DEF Existing
  <2>3. \A i \in Id : Linked(i)' \subseteq Linked(i)
    BY <1>n, <1>t, <2>1 DEF Linked, Reads
  <2> QED
    BY <1>0, <2>1, <2>2, <2>3
<1>3. CASE AcquireThrows(t) \/ PostLock(t) \/ UnlockImpl(t)
  <2>1. /\ UNCHANGED <<lockdep_vars, id, constructed>>
        /\ want' = [want EXCEPT ![t] = NoMutex] /\ arg' = [arg EXCEPT ![t] = NoId]
        /\ pc' = [pc EXCEPT ![t] = "idle"]
        /\ \/ UNCHANGED owner
           \/ /\ pc[t] = "unlock" /\ want[t] \in Mutex
              /\ owner' = [owner EXCEPT ![want[t]] = NoThread]
    BY <1>3 DEF AcquireThrows, PostLock, post_lock, UnlockImpl, Return, Goto, Wanted
  <2>2. Existing'
    BY <1>e, <1>n, <1>t, <2>1 DEF Existing
  <2>3. \A i \in Id : Linked(i)' \subseteq Linked(i)
    BY <1>n, <1>t, <2>1 DEF Linked, Reads
  <2> QED
    BY <1>0, <2>1, <2>2, <2>3
<1>4. CASE WillLock(t)
  <2>1. PICK i \in Id \cup {NoId} :
          /\ lockdep_is_off(arg[t], i) \/ lockdep_will_lock(Group[want[t]], arg[t], t, i)
          /\ id' = [id EXCEPT ![want[t]] = i]
    BY <1>4 DEF WillLock
  <2>2. /\ UNCHANGED <<constructed, owner, want, arg>>
        /\ pc[t] = "will_lock" /\ pc' = [pc EXCEPT ![t] = "acquire"]
    BY <1>4 DEF WillLock, Goto
  <2>3. Existing'
    BY <1>e, <1>n, <1>t, <2>2 DEF Existing
  <2>4. CASE lockdep_is_off(arg[t], i)
    <3>1. \A j \in Id : Linked(j)' \subseteq Linked(j)
      BY <1>n, <1>t, <2>1, <2>2, <2>4 DEF lockdep_is_off, Linked, Reads
    <3> QED
      BY <1>0, <2>3, <2>4, <3>1 DEF lockdep_is_off
  <2>5. CASE lockdep_will_lock(Group[want[t]], arg[t], t, i)
    <3>1. /\ g_lockdep /\ UNCHANGED <<g_lockdep, free_ids_inited>>
          /\ RegisterIfNew(Group[want[t]], arg[t], i)
          /\ ~ recursive_lock(t, i) /\ ~ creates_a_cycle(t, i)
          /\ follows' = follows \cup {<<h, i>> : h \in held[t]}
      BY <2>5 DEF lockdep_will_lock, will_lock_edges
    <3>2. i \in Id
      <4>1. Group[want[t]] \in LockName
        BY <2>2, MutexAssumption DEF Wanted
      <4> QED
        BY <1>n, <1>t, <3>1, <4>1, GivesAnId
    <3>3. \A u \in Thread, n \in Mutex, j \in Id : Reads(u, n, j)' => Reads(u, n, j)
      BY <1>n, <1>t, <2>2 DEF Reads
    <3>4. Table' /\ Kept' /\ Once'
      BY <2>1, <2>2, <3>1, <3>2, <3>3, CallKeeps
    <3>5. NoCycleRecorded'
      <4>1. \A h \in held[t] : <<h, i>> \in follows \/ ~ Reaches(follows, i, h)
        BY <3>1 DEF recursive_lock, creates_a_cycle
      <4>2. Acyclic(follows) /\ i \notin held[t] /\ held[t] \in SUBSET Id
        BY <1>n, <1>t, <3>1 DEF Base, NoCycleRecorded, recursive_lock
      <4>3. Acyclic(follows \cup {<<h, i>> : h \in held[t]})
        BY <1>n, <1>t, <3>2, <4>1, <4>2, AddingEdgesKeepsAcyclic
      <4>4. Acyclic(follows')
        BY <3>1, <4>3
      <4> QED
        BY <4>4 DEF NoCycleRecorded, Acyclic
    <3>6. OffClean'
      BY <3>1 DEF OffClean
    <3> QED
      BY <2>3, <3>4, <3>5, <3>6 DEF Base
  <2> QED
    BY <2>1, <2>4, <2>5
<1>5. CASE Locked(t)
  <2>1. PICK i \in Id \cup {NoId} :
          /\ lockdep_is_off(arg[t], i) \/ lockdep_locked(Group[want[t]], arg[t], t, i)
          /\ id' = [id EXCEPT ![want[t]] = i]
    BY <1>5 DEF Locked
  <2>2. /\ UNCHANGED <<constructed, owner>> /\ pc[t] = "locked"
        /\ want' = [want EXCEPT ![t] = NoMutex] /\ arg' = [arg EXCEPT ![t] = NoId]
        /\ pc' = [pc EXCEPT ![t] = "idle"]
    BY <1>5 DEF Locked, post_lock, Return, Goto
  <2>3. Existing'
    BY <1>e, <1>n, <1>t, <2>2 DEF Existing
  <2>4. CASE lockdep_is_off(arg[t], i)
    <3>1. \A j \in Id : Linked(j)' \subseteq Linked(j)
      BY <1>n, <1>t, <2>1, <2>2, <2>4 DEF lockdep_is_off, Linked, Reads
    <3> QED
      BY <1>0, <2>3, <2>4, <3>1 DEF lockdep_is_off
  <2>5. CASE lockdep_locked(Group[want[t]], arg[t], t, i)
    <3>1. /\ g_lockdep /\ UNCHANGED <<g_lockdep, free_ids_inited, follows>>
          /\ RegisterIfNew(Group[want[t]], arg[t], i)
      BY <2>5 DEF lockdep_locked
    <3>2. i \in Id
      <4>1. Group[want[t]] \in LockName
        BY <2>2, MutexAssumption DEF Wanted
      <4> QED
        BY <1>n, <1>t, <3>1, <4>1, GivesAnId
    <3>3. \A u \in Thread, n \in Mutex, j \in Id : Reads(u, n, j)' => Reads(u, n, j)
      BY <1>n, <1>t, <2>2 DEF Reads
    <3>4. Table' /\ Kept' /\ Once'
      BY <2>1, <2>2, <3>1, <3>2, <3>3, CallKeeps
    <3> QED
      BY <2>3, <3>1, <3>4 DEF Base, OffClean, NoCycleRecorded
  <2> QED
    BY <2>1, <2>4, <2>5
<1>6. CASE WillUnlock(t)
  <2>1. /\ UNCHANGED <<constructed, owner, want, arg>> /\ pc[t] = "will_unlock"
        /\ pc' = [pc EXCEPT ![t] = "unlock"] /\ id' = [id EXCEPT ![want[t]] = arg[t]]
    BY <1>6 DEF WillUnlock, Goto
  <2>2. Existing'
    BY <1>e, <1>n, <1>t, <2>1 DEF Existing
  <2>3. \A j \in Id : Linked(j)' \subseteq Linked(j)
    BY <1>n, <1>t, <2>1 DEF Linked, Reads
  <2>4. CASE lockdep_is_off(arg[t], arg[t])
    BY <1>0, <2>2, <2>3, <2>4 DEF lockdep_is_off
  <2>5. CASE lockdep_will_unlock(arg[t], t)
    <3>1. /\ g_lockdep
          /\ UNCHANGED <<g_lockdep, free_ids_inited, follows, free_ids, lock_ids, lock_names,
                         lock_refs>>
      BY <2>5 DEF lockdep_will_unlock, registry
    <3>2. ASSUME NEW i \in Id PROVE lock_refs[i] >= Cardinality(Linked(i)')
      <4>1. /\ Cardinality(Linked(i)') <= Cardinality(Linked(i))
            /\ Cardinality(Linked(i)') \in Nat /\ Cardinality(Linked(i)) \in Nat
        BY <2>3, LinkedFinite, FS_Subset, FS_CardinalityType
      <4>2. lock_refs[i] \in Int /\ lock_refs[i] >= Cardinality(Linked(i))
        BY DEF TypeOK, LockdepTypeOK, RegistryTypeOK, Base, Kept
      <4> QED
        BY <4>1, <4>2
    <3>3. Kept'
      BY <2>3, <3>1, <3>2 DEF Base, Kept
    <3>4. Once'
      BY <2>3, <3>1 DEF Base, Once
    <3> QED
      BY <2>2, <3>1, <3>3, <3>4 DEF Base, Table, OffClean, NoCycleRecorded
  <2> QED
    BY <1>6, <2>4, <2>5 DEF WillUnlock
<1>7. CASE WillLockDies(t) \/ LockedDies(t)
  <2>1. \E why \in {"out of ids", "recursive lock", "cycle"} : Die(why)
    BY <1>7 DEF WillLockDies, LockedDies
  <2>2. Existing'
    BY <2>1 DEF Die, Base, Existing
  <2>3. \A i \in Id : Linked(i)' \subseteq Linked(i)
    BY <2>1 DEF Die, Linked, Reads
  <2> QED
    BY <1>0, <2>1, <2>2, <2>3 DEF Die
<1> QED
  BY <1>1, <1>2, <1>3, <1>4, <1>5, <1>6, <1>7 DEF ThreadStep

(* Nobody is busy with a mutex that does not exist yet.                      *)
LEMMA BaseConstruct ==
  ASSUME TypeOK, TypeOK', Wanted, Base, NEW m \in Mutex, Construct(m)
  PROVE  Base'
<1>t. id \in [Mutex -> Id \cup {NoId}] /\ constructed \subseteq Mutex /\ RegistryTypeOK
  BY DEF TypeOK, LockdepTypeOK
<1>n. NoId \notin Id
  BY DEF NoId, Id
<1>0. /\ m \notin constructed /\ constructed' = constructed \cup {m}
      /\ UNCHANGED <<owner, pc, want, arg>>
  BY DEF Construct
<1>1. Existing' /\ \A u \in Thread, j \in Id : ~ Reads(u, m, j)
  BY <1>0 DEF Base, Existing, Reads
<1>2. CASE ~ g_lockdep
  <2>1. UNCHANGED lockdep_vars /\ id' = [id EXCEPT ![m] = NoId]
    BY <1>2 DEF Construct
  <2>2. \A j \in Id : Linked(j)' \subseteq Linked(j)
    BY <1>0, <1>1, <1>n, <1>t, <2>1 DEF Linked, Reads
  <2> QED
    BY <1>1, <2>1, <2>2, BaseQuiet DEF Base
<1>3. CASE g_lockdep
  <2>1. PICK i \in Id : Register("", i) /\ id' = [id EXCEPT ![m] = i]
    BY <1>3 DEF Construct, registered_name
  <2>2. UNCHANGED <<g_lockdep, free_ids_inited, follows, held>> /\ "" \in LockName
    BY <1>3, LockdepAssumption DEF Construct
  <2>3. \A j \in Id : Linked(j)' \subseteq IF j = i THEN Linked(j) \cup {m} ELSE Linked(j)
    BY <1>0, <1>1, <1>n, <1>t, <2>1 DEF Linked, Reads
  <2>4. Kept' /\ Once'
    BY <1>3, <2>1, <2>2, <2>3, RegisterKeeps
  <2>5. Table'
    BY <1>t, <2>1, <2>2, RegisterTable DEF Base
  <2> QED
    BY <1>1, <1>3, <2>2, <2>4, <2>5 DEF Base, OffClean, NoCycleRecorded
<1> QED
  BY <1>2, <1>3

(* Nobody is busy with a mutex that is being destroyed, ...                   *)
LEMMA BaseGone ==
  ASSUME TypeOK, Base, NEW m \in Mutex, Unused(m), constructed' = constructed \ {m},
         UNCHANGED <<owner, pc, want, arg, held, id, free_ids_inited, g_lockdep>>
  PROVE  Existing' /\ \A j \in Id : Linked(j)' = Linked(j) \ {m}
<1>1. Existing'
  BY DEF Unused, Base, Existing
<1>2. \A j \in Id : Linked(j)' = Linked(j) \ {m}
  BY DEF Unused, Linked, Reads
<1> QED
  BY <1>1, <1>2

LEMMA BaseDestroy ==
  ASSUME TypeOK, Wanted, Base, NEW m \in Mutex, Destroy(m)
  PROVE  Base'
<1>0. /\ UNCHANGED <<lockdep_vars, id, owner, pc, want, arg>> /\ Unused(m)
      /\ constructed' = constructed \/ constructed' = constructed \ {m}
  BY DEF Destroy
<1>1. Existing' /\ \A j \in Id : Linked(j)' \subseteq Linked(j)
  BY <1>0 DEF Unused, Base, Existing, Linked, Reads
<1> QED
  BY <1>0, <1>1, BaseQuiet DEF Base

(* ... nor when its id is given up.                                          *)
LEMMA BaseUnregister ==
  ASSUME TypeOK, Wanted, DyingUnused, Base, NEW m \in Mutex, Unregister(m)
  PROVE  Base'
<1>0. /\ m \in constructed /\ constructed' = constructed \ {m} /\ Unused(m)
      /\ UNCHANGED <<owner, pc, want, arg, held, id, free_ids_inited, g_lockdep>>
      /\ lockdep_unregister(id[m]) /\ (id[m] # NoId => lock_names[id[m]] # NoName)
  BY DEF Unregister, DyingUnused, Unused, UnknownId
<1>1. Existing' /\ \A j \in Id : Linked(j)' = Linked(j) \ {m}
  BY <1>0, BaseGone
<1>2. Table' /\ Kept' /\ Once' /\ follows' \subseteq follows
  BY <1>0, <1>1, UnregisterFacts
<1>3. NoCycleRecorded'
  <2>1. Acyclic(follows')
    BY <1>2, AcyclicSubset DEF Base, NoCycleRecorded
  <2> QED
    BY <2>1 DEF NoCycleRecorded, Acyclic
<1> QED
  BY <1>0, <1>1, <1>2, <1>3 DEF Base, OffClean

(* The start and the shutdown of lockdep change no mutex.                    *)
LEMMA BaseGlobal ==
  ASSUME TypeOK, Base, GlobalInit \/ GlobalDestroy
  PROVE  Base'
<1>0. UNCHANGED mutex_vars /\ UNCHANGED lock_refs
  BY DEF GlobalInit, GlobalDestroy, lockdep_global_init, lockdep_global_destroy, clear_held
<1>1. Existing' /\ \A i \in Id : Linked(i)' = Linked(i)
  BY <1>0 DEF Base, Existing, Linked, Reads, mutex_vars
<1>2. CASE GlobalInit
  <2>1. /\ UNCHANGED <<lock_ids, lock_names, follows, held>> /\ ~ g_lockdep
        /\ free_ids_inited' /\ free_ids' = IF free_ids_inited THEN free_ids ELSE Id
        /\ free_ids_inited => Restarts
    BY <1>2 DEF GlobalInit, lockdep_global_init, free_at_start, initially_free
  <2>2. Table' /\ OffClean' /\ NoCycleRecorded'
    BY <2>1 DEF Base, Table, OffClean, NoCycleRecorded
  <2>3. Kept'
    <3>1. ASSUME NEW i \in Id
          PROVE  lock_refs'[i] >= Cardinality(Linked(i)') /\ (Linked(i)' # {} => i \notin free_ids')
      BY <1>0, <1>1, <2>1 DEF Base, Kept, Once
    <3> QED
      BY <3>1 DEF Kept
  <2>4. Once'
    <3>1. ASSUME NEW i \in Id, ~ Restarts PROVE Linked(i)' = {}
      BY <1>1, <2>1, <3>1 DEF Base, Once
    <3> QED
      BY <2>1, <3>1 DEF Once
  <2> QED
    BY <1>1, <2>2, <2>3, <2>4 DEF Base
<1>3. CASE GlobalDestroy
  <2>1. /\ ~ g_lockdep' /\ UNCHANGED <<free_ids, free_ids_inited>>
        /\ lock_ids' = [n \in LockName |-> NoId] /\ lock_names' = [i \in Id |-> NoName]
        /\ held' = [t \in Thread |-> {}] /\ follows' = {}
    BY <1>3 DEF GlobalDestroy, lockdep_global_destroy, clear_held
  <2>2. Table'
    <3>1. \A n \in LockName : n # NoName
      BY NoNameAssumption
    <3>2. \A i \in Id : i # NoId
      BY DEF NoId, Id
    <3>3. free_ids \subseteq Id
      BY DEF TypeOK, LockdepTypeOK, RegistryTypeOK
    <3> QED
      BY <2>1, <3>1, <3>2, <3>3 DEF Base, Table
  <2>3. OffClean' /\ NoCycleRecorded'
    BY <2>1 DEF OffClean, NoCycleRecorded, Acyclic
  <2>4. Kept'
    <3>1. ASSUME NEW i \in Id
          PROVE  lock_refs'[i] >= Cardinality(Linked(i)') /\ (Linked(i)' # {} => i \notin free_ids')
      BY <1>0, <1>1, <2>1 DEF Base, Kept
    <3> QED
      BY <3>1 DEF Kept
  <2>5. Once'
    BY <1>1, <2>1 DEF Base, Once
  <2> QED
    BY <1>1, <2>2, <2>3, <2>4, <2>5 DEF Base
<1> QED
  BY <1>2, <1>3

(* A process that has ended stays as it was, and so does one that stutters.   *)
LEMMA BaseSame ==
  ASSUME TypeOK, Base,
         UNCHANGED <<lockdep_vars, constructed, id, owner, pc, want, arg>>
  PROVE  Base'
<1>1. Existing' /\ \A i \in Id : Linked(i)' \subseteq Linked(i)
  BY DEF Base, Existing, Linked, Reads
<1> QED
  BY <1>1, BaseQuiet DEF Base

LEMMA BaseStep ==
  ASSUME TypeOK, TypeOK', Wanted, DyingUnused, Base, [Next]_vars
  PROVE  Base'
<1>1. CASE GlobalInit \/ GlobalDestroy
  BY <1>1, BaseGlobal
<1>2. ASSUME NEW m \in Mutex, Construct(m) PROVE Base'
  BY <1>2, BaseConstruct
<1>3. ASSUME NEW m \in Mutex, Destroy(m) \/ Unregister(m) PROVE Base'
  BY <1>3, BaseDestroy, BaseUnregister
<1>4. ASSUME NEW m \in Mutex, ConstructDies(m) \/ UnregisterDies(m) PROVE Base'
  BY <1>4, BaseSame DEF ConstructDies, UnregisterDies, Die
<1>5. ASSUME NEW t \in Thread, ThreadStep(t) PROVE Base'
  BY <1>5, BaseThread
<1>6. CASE UNCHANGED vars
  BY <1>6, BaseSame DEF vars, mutex_vars
<1> QED
  BY <1>1, <1>2, <1>3, <1>4, <1>5, <1>6 DEF Next

(* Nothing is registered, recorded or constructed at first.                  *)
LEMMA BaseInit == Init => Base
<1> SUFFICES ASSUME Init PROVE Base
  OBVIOUS
<1>0. /\ lock_ids = [n \in LockName |-> NoId] /\ lock_names = [i \in Id |-> NoName]
      /\ lock_refs = [i \in Id |-> 0] /\ free_ids = {} /\ follows = {}
      /\ held = [t \in Thread |-> {}] /\ constructed = {}
      /\ owner = [m \in Mutex |-> NoThread] /\ pc = [t \in Thread |-> "idle"]
      /\ ~ g_lockdep
  BY DEF Init, LockdepInit
<1>1. Table
  <2>1. \A n \in LockName : n # NoName
    BY NoNameAssumption
  <2>2. \A i \in Id : i # NoId
    BY DEF NoId, Id
  <2> QED
    BY <1>0, <2>1, <2>2 DEF Table
<1>2. \A i \in Id : Linked(i) = {}
  BY <1>0 DEF Linked
<1>3. Kept
  <2>1. \A i \in Id : lock_refs[i] = 0
    BY <1>0
  <2>2. \A i \in Id : Cardinality(Linked(i)) = 0
    BY <1>2, FS_EmptySet
  <2>3. \A i \in Id : lock_refs[i] >= Cardinality(Linked(i))
    BY <2>1, <2>2
  <2> QED
    BY <1>2, <2>3 DEF Kept
<1> QED
  BY <1>0, <1>1, <1>2, <1>3 DEF Base, Existing, OffClean, Once, NoCycleRecorded, Acyclic

----------------------------------------------------------------------------
(* Every step preserves the second part, while lockdep runs.                 *)

(* A step that lockdep and the ids have no part in.                          *)
LEMMA Quiet ==
  ASSUME Inv, UNCHANGED <<lockdep_vars, id, constructed, carried>>
  PROVE  Registered' /\ CleanEdges'
BY DEF Inv, lockdep_vars, Registered, CleanEdges

(* lock reads the id of the mutex: nothing has changed yet.                  *)
LEMMA LockStep ==
  ASSUME TypeOK, Wanted, Base, Inv, Steady, NEW t \in Thread, NEW m \in Mutex, Lock(t, m)
  PROVE  Inv'
<1>1. /\ UNCHANGED <<lockdep_vars, id, constructed, carried, owner>>
      /\ pc[t] = "idle" /\ m \in constructed
      /\ want' = [want EXCEPT ![t] = m] /\ arg' = [arg EXCEPT ![t] = id[m]]
      /\ pc' = [pc EXCEPT ![t] = "will_lock"]
  BY DEF Lock, Report, Goto, Steady, start_vars
<1>t. /\ want \in [Thread -> Mutex \cup {NoMutex}] /\ arg \in [Thread -> Id \cup {NoId}]
      /\ pc \in [Thread -> {"idle", "will_lock", "acquire", "locked", "post_lock",
                             "will_unlock", "unlock"}]
  BY DEF TypeOK
<1>2. IdsStable'
  BY <1>1, <1>t DEF Base, Existing, Inv, IdsStable, lockdep_vars
<1>3. \A u \in Thread, n \in Mutex : Holds(u, n)' <=> Holds(u, n)
  BY <1>1, <1>t DEF Holds
<1>4. Tracked' /\ LockOnly'
  <2>1. constructed \subseteq Mutex
    BY DEF TypeOK
  <2> QED
    BY <1>1, <1>3, <2>1 DEF Inv, Tracked, LockOnly, OneOfAClass, lockdep_vars
<1>5. Ordered'
  BY <1>1, <1>t DEF Inv, Ordered, lockdep_vars
<1> QED
  BY <1>1, <1>2, <1>4, <1>5, Quiet DEF Inv

(* An acquired mutex is no other that t holds, and lockdep has not recorded   *)
(* it yet.                                                                   *)
LEMMA AcquireStep ==
  ASSUME TypeOK, Wanted, Base, Inv, Steady, NEW t \in Thread, Acquire(t)
  PROVE  Inv'
<1> DEFINE m == want[t]
<1>1. /\ UNCHANGED <<lockdep_vars, id, constructed, carried, want>> /\ pc[t] = "acquire"
      /\ owner[m] = NoThread /\ owner' = [owner EXCEPT ![m] = t]
      /\ arg' = [arg EXCEPT ![t] = id[m]] /\ pc' = [pc EXCEPT ![t] = "locked"]
  BY DEF Acquire, Report, Goto, Steady, start_vars
<1>t. /\ owner \in [Mutex -> Thread \cup {NoThread}] /\ arg \in [Thread -> Id \cup {NoId}]
      /\ pc \in [Thread -> {"idle", "will_lock", "acquire", "locked", "post_lock",
                             "will_unlock", "unlock"}]
      /\ m \in constructed /\ m \in Mutex /\ constructed \subseteq Mutex
  BY <1>1 DEF TypeOK, Wanted, Base, Existing
<1>2. id[m] \in Id \ held[t] /\ NoId \notin Id
  BY <1>1 DEF Inv, Ordered, NoId, Id
<1>3. IdsStable'
  BY <1>1, <1>t, <1>2, NoThreadAssumption DEF Base, Existing, Inv, IdsStable, lockdep_vars
<1>4. \A u \in Thread, n \in Mutex : Holds(u, n)' <=> Holds(u, n)
  BY <1>1, <1>t, NoThreadAssumption DEF Holds
<1>5. Tracked'
  BY <1>1, <1>t, <1>4 DEF Inv, Tracked, lockdep_vars
<1>6. LockOnly'
  <2> SUFFICES ASSUME TryLocks = {}
               PROVE  /\ \A u \in Thread, n \in Mutex : owner'[n] = u => id[n] \in Id
                      /\ \A u \in Thread, n \in Mutex : Holds(u, n)' => id[n] \in held[u]
                      /\ OneOfAClass'
    BY <1>1 DEF LockOnly, lockdep_vars
  <2>1. \A n \in Mutex : owner[n] = t => id[n] \in held[t]
    BY <1>1 DEF Inv, LockOnly, Holds
  <2>2. OneOfAClass'
    BY <1>1, <1>t, <1>2, <2>1 DEF Inv, LockOnly, OneOfAClass
  <2> QED
    BY <1>1, <1>2, <1>4, <1>t, <2>2 DEF Inv, LockOnly
<1>7. Ordered'
  BY <1>1, <1>t DEF Inv, Ordered, lockdep_vars
<1> QED
  BY <1>1, <1>3, <1>5, <1>6, <1>7, Quiet DEF Inv

(* A thread that waits for a mutex it took with try_lock is turned away, and  *)
(* holds what it held.                                                       *)
LEMMA AcquireThrowsStep ==
  ASSUME TypeOK, Wanted, Base, Inv, Steady, NEW t \in Thread, AcquireThrows(t)
  PROVE  Inv'
<1>1. /\ UNCHANGED <<lockdep_vars, id, constructed, carried, owner>> /\ pc[t] = "acquire"
      /\ want' = [want EXCEPT ![t] = NoMutex] /\ arg' = [arg EXCEPT ![t] = NoId]
      /\ pc' = [pc EXCEPT ![t] = "idle"]
  BY DEF AcquireThrows, Return, Goto, start_vars
<1>t. /\ want \in [Thread -> Mutex \cup {NoMutex}] /\ arg \in [Thread -> Id \cup {NoId}]
      /\ pc \in [Thread -> {"idle", "will_lock", "acquire", "locked", "post_lock",
                             "will_unlock", "unlock"}]
      /\ constructed \subseteq Mutex
  BY DEF TypeOK
<1>2. IdsStable'
  BY <1>1, <1>t DEF Base, Existing, Inv, IdsStable, lockdep_vars
<1>3. \A u \in Thread, n \in Mutex : Holds(u, n)' <=> Holds(u, n)
  BY <1>1, <1>t DEF Holds
<1>4. Tracked' /\ LockOnly'
  BY <1>1, <1>t, <1>3 DEF Inv, Tracked, LockOnly, OneOfAClass, lockdep_vars
<1>5. Ordered'
  BY <1>1, <1>t DEF Inv, Ordered, lockdep_vars
<1> QED
  BY <1>1, <1>2, <1>4, <1>5, Quiet DEF Inv

(* try_lock reads the id of the mutex it has taken; lockdep has not recorded   *)
(* that yet.                                                                 *)
LEMMA TryLockStep ==
  ASSUME TypeOK, Wanted, Base, Inv, Steady, NEW t \in Thread, NEW m \in Mutex, TryLock(t, m)
  PROVE  Inv'
<1>1. /\ UNCHANGED <<lockdep_vars, id, constructed, carried>> /\ pc[t] = "idle"
      /\ m \in constructed /\ TryLocks # {}
      /\ owner[m] = NoThread /\ owner' = [owner EXCEPT ![m] = t]
      /\ want' = [want EXCEPT ![t] = m] /\ arg' = [arg EXCEPT ![t] = id[m]]
      /\ pc' = [pc EXCEPT ![t] = "locked"]
  BY DEF TryLock, Report, Goto, Steady, start_vars
<1>t. /\ want \in [Thread -> Mutex \cup {NoMutex}] /\ arg \in [Thread -> Id \cup {NoId}]
      /\ pc \in [Thread -> {"idle", "will_lock", "acquire", "locked", "post_lock",
                             "will_unlock", "unlock"}]
      /\ owner \in [Mutex -> Thread \cup {NoThread}] /\ constructed \subseteq Mutex
  BY DEF TypeOK
<1>2. IdsStable'
  BY <1>1, <1>t, NoThreadAssumption DEF Base, Existing, Inv, IdsStable, lockdep_vars
<1>3. \A u \in Thread, n \in Mutex : Holds(u, n)' <=> Holds(u, n)
  BY <1>1, <1>t, NoThreadAssumption DEF Holds
<1>4. Tracked'
  BY <1>1, <1>t, <1>3 DEF Inv, Tracked, lockdep_vars
<1>5. Ordered' /\ LockOnly'
  BY <1>1, <1>t DEF Inv, Ordered, LockOnly, lockdep_vars
<1> QED
  BY <1>1, <1>2, <1>4, <1>5, Quiet DEF Inv

(* unlock reads the id of a mutex that lockdep knows to be held.             *)
LEMMA UnlockStep ==
  ASSUME TypeOK, Wanted, Base, Inv, Steady, NEW t \in Thread, NEW m \in Mutex, Unlock(t, m)
  PROVE  Inv'
<1>1. /\ UNCHANGED <<lockdep_vars, id, constructed, carried, owner>>
      /\ pc[t] = "idle" /\ owner[m] = t
      /\ want' = [want EXCEPT ![t] = m] /\ arg' = [arg EXCEPT ![t] = id[m]]
      /\ pc' = [pc EXCEPT ![t] = "will_unlock"]
  BY DEF Unlock, Report, Goto, Steady, start_vars
<1>t. /\ want \in [Thread -> Mutex \cup {NoMutex}] /\ arg \in [Thread -> Id \cup {NoId}]
      /\ pc \in [Thread -> {"idle", "will_lock", "acquire", "locked", "post_lock",
                             "will_unlock", "unlock"}]
      /\ held \in [Thread -> SUBSET Id] /\ constructed \subseteq Mutex
  BY DEF TypeOK, LockdepTypeOK
<1>2. id[m] \in Id /\ NoId \notin Id /\ m \in constructed
  BY <1>1, <1>t, NoThreadAssumption DEF Base, Existing, Inv, Tracked, Holds, NoId, Id
<1>3. IdsStable'
  BY <1>1, <1>t, <1>2 DEF Base, Existing, Inv, IdsStable, lockdep_vars
<1>4. \A u \in Thread, n \in Mutex : Holds(u, n)' <=> Holds(u, n)
  BY <1>1, <1>t DEF Holds
<1>5. Tracked' /\ LockOnly'
  BY <1>1, <1>t, <1>4 DEF Inv, Tracked, LockOnly, OneOfAClass, lockdep_vars
<1>6. Ordered'
  BY <1>1, <1>t DEF Inv, Ordered, lockdep_vars
<1> QED
  BY <1>1, <1>3, <1>5, <1>6, Quiet DEF Inv

(* pthread_mutex_unlock: lockdep has forgotten the mutex already.            *)
LEMMA UnlockImplStep ==
  ASSUME TypeOK, Wanted, Base, Inv, Steady, NEW t \in Thread, UnlockImpl(t)
  PROVE  Inv'
<1> DEFINE m == want[t]
<1>1. /\ UNCHANGED <<lockdep_vars, id, constructed, carried>> /\ pc[t] = "unlock"
      /\ owner' = [owner EXCEPT ![m] = NoThread]
      /\ want' = [want EXCEPT ![t] = NoMutex] /\ arg' = [arg EXCEPT ![t] = NoId]
      /\ pc' = [pc EXCEPT ![t] = "idle"]
  BY DEF UnlockImpl, Return, Goto, start_vars
<1>t. /\ want \in [Thread -> Mutex \cup {NoMutex}] /\ arg \in [Thread -> Id \cup {NoId}]
      /\ pc \in [Thread -> {"idle", "will_lock", "acquire", "locked", "post_lock",
                             "will_unlock", "unlock"}]
      /\ owner \in [Mutex -> Thread \cup {NoThread}] /\ constructed \subseteq Mutex
      /\ m \in Mutex /\ owner[m] = t
  BY <1>1 DEF TypeOK, Wanted, Base, Existing
<1>2. IdsStable'
  BY <1>1, <1>t, NoThreadAssumption DEF Base, Existing, Inv, IdsStable, lockdep_vars
<1>3. \A u \in Thread, n \in Mutex : Holds(u, n)' <=> Holds(u, n)
  BY <1>1, <1>t, NoThreadAssumption DEF Holds
<1>4. Tracked' /\ LockOnly'
  BY <1>1, <1>t, <1>3, NoThreadAssumption DEF Inv, Tracked, LockOnly, OneOfAClass, lockdep_vars
<1>5. Ordered'
  BY <1>1, <1>t DEF Inv, Ordered, lockdep_vars
<1> QED
  BY <1>1, <1>2, <1>4, <1>5, Quiet DEF Inv

(* The id _will_lock or _locked comes back with is the one the mutex has, if   *)
(* it has any, and no class loses its id.                                    *)
LEMMA CallId ==
  ASSUME TypeOK, Wanted, Base, Inv, Steady, NEW t \in Thread, pc[t] # "idle", NEW i \in Id,
         RegisterIfNew(Group[want[t]], arg[t], i), free_ids_inited' = free_ids_inited
  PROVE  /\ id[want[t]] \in {NoId, i}
         /\ \A n \in LockName : lock_ids[n] # NoId => lock_ids'[n] = lock_ids[n]
         /\ \A j \in Id : lock_names[j] # NoName => lock_names'[j] = lock_names[j]
         /\ arg[t] = NoId => lock_ids'[Group[want[t]]] = i
         /\ Table'
<1> DEFINE m == want[t]
<1>t. /\ RegistryTypeOK /\ m \in Mutex /\ m \in constructed
      /\ Group[m] \in LockName /\ id \in [Mutex -> Id \cup {NoId}]
      /\ lock_ids \in [LockName -> Id \cup {NoId}]
      /\ lock_names \in [Id -> LockName \cup {NoName}]
  BY MutexAssumption DEF TypeOK, LockdepTypeOK, RegistryTypeOK, Wanted, Base, Existing
<1>1. CASE arg[t] = NoId
  <2>1. Register(Group[m], i)
    BY <1>1 DEF RegisterIfNew
  <2>2. /\ lock_names[i] \in {NoName, Group[m]} /\ lock_ids[Group[m]] \in {NoId, i}
        /\ lock_ids' = [lock_ids EXCEPT ![Group[m]] = i]
        /\ lock_names' = [lock_names EXCEPT ![i] = Group[m]]
    BY <1>t, <2>1, RegisterFacts DEF Base
  <2>3. Table'
    BY <1>t, <2>1, RegisterTable DEF Base
  <2>4. id[m] # NoId => id[m] = i
    BY <1>1, <1>t, <2>2 DEF Inv, IdsStable
  <2> QED
    BY <1>t, <2>2, <2>3, <2>4, NoNameAssumption
<1>2. CASE arg[t] # NoId
  <2>1. i = arg[t] /\ UNCHANGED registry
    BY <1>2 DEF RegisterIfNew
  <2>2. id[m] = i
    BY <1>2, <2>1 DEF Inv, IdsStable
  <2> QED
    BY <1>2, <1>t, <2>1, <2>2 DEF registry, Base, Table, NoId, Id
<1> QED
  BY <1>1, <1>2

(* The mutex it gives the id to is registered, if it had none from before.    *)
LEMMA CallRegistered ==
  ASSUME TypeOK, Wanted, Base, Inv, Steady, NEW t \in Thread, pc[t] # "idle", NEW i \in Id,
         RegisterIfNew(Group[want[t]], arg[t], i), free_ids_inited' = free_ids_inited,
         id' = [id EXCEPT ![want[t]] = i], UNCHANGED <<constructed, carried>>
  PROVE  Registered' /\ free_ids' \subseteq free_ids
<1> DEFINE m == want[t]
<1>t. /\ m \in Mutex /\ Group[m] \in LockName /\ id \in [Mutex -> Id \cup {NoId}]
      /\ constructed \subseteq Mutex /\ RegistryTypeOK
      /\ lock_names \in [Id -> LockName \cup {NoName}] /\ NoName \notin LockName
  BY MutexAssumption, NoNameAssumption DEF TypeOK, LockdepTypeOK, RegistryTypeOK, Wanted
<1>r. \A n \in constructed \ carried : id[n] # NoId => lock_names[id[n]] # NoName
  BY DEF Inv, Registered
<1>1. CASE arg[t] = NoId
  <2>1. Register(Group[m], i)
    BY <1>1 DEF RegisterIfNew
  <2>2. lock_names' = [lock_names EXCEPT ![i] = Group[m]] /\ free_ids' \subseteq free_ids
    BY <1>t, <2>1, RegisterFacts DEF Base
  <2>3. ASSUME NEW n \in constructed \ carried, id'[n] # NoId PROVE lock_names'[id'[n]] # NoName
    BY <1>r, <1>t, <2>2, <2>3
  <2> QED
    BY <2>2, <2>3 DEF Registered
<1>2. CASE arg[t] # NoId
  <2>1. UNCHANGED registry /\ i = arg[t] /\ arg[t] = id[m]
    BY <1>2 DEF RegisterIfNew, Inv, IdsStable
  <2>2. id' = id
    BY <1>t, <2>1
  <2> QED
    BY <1>r, <2>1, <2>2 DEF Registered, registry
<1> QED
  BY <1>1, <1>2

(* What another thread has read of its mutex stays right.                    *)
LEMMA CallStable ==
  ASSUME TypeOK, Wanted, Base, Inv, Steady, NEW t \in Thread, pc[t] # "idle", NEW i \in Id,
         RegisterIfNew(Group[want[t]], arg[t], i), free_ids_inited' = free_ids_inited,
         id' = [id EXCEPT ![want[t]] = i], NEW u \in Thread, pc[u] # "idle"
  PROVE  /\ arg[u] # NoId => arg[u] = id'[want[u]]
         /\ arg[u] = NoId /\ id'[want[u]] # NoId => lock_ids'[Group[want[u]]] = id'[want[u]]
<1> DEFINE m == want[t]
<1>t. /\ m \in Mutex /\ want[u] \in Mutex /\ Group[want[u]] \in LockName
      /\ id \in [Mutex -> Id \cup {NoId}] /\ arg \in [Thread -> Id \cup {NoId}]
  BY MutexAssumption DEF TypeOK, Wanted
<1>1. /\ id[m] \in {NoId, i}
      /\ \A n \in LockName : lock_ids[n] # NoId => lock_ids'[n] = lock_ids[n]
      /\ arg[t] = NoId => lock_ids'[Group[m]] = i
  BY CallId
<1>2. NoId \notin Id /\ \A n \in Mutex : id[n] \in Id => id'[n] = id[n]
  BY <1>1, <1>t DEF NoId, Id
<1>3. /\ arg[u] # NoId => arg[u] = id[want[u]]
      /\ arg[u] = NoId /\ id[want[u]] # NoId => lock_ids[Group[want[u]]] = id[want[u]]
  BY DEF Inv, IdsStable
<1>4. arg[u] # NoId => arg[u] = id'[want[u]]
  BY <1>2, <1>3, <1>t
<1>5. ASSUME arg[u] = NoId, id'[want[u]] # NoId
      PROVE  lock_ids'[Group[want[u]]] = id'[want[u]]
  <2>1. CASE id[want[u]] # NoId
    BY <1>1, <1>2, <1>3, <1>5, <1>t, <2>1
  <2>2. CASE id[want[u]] = NoId
    <3>1. want[u] = m /\ id'[m] = i
      BY <1>t, <1>5, <2>2
    <3>2. arg[t] = NoId
      BY <2>2, <3>1 DEF Inv, IdsStable
    <3> QED
      BY <1>1, <3>1, <3>2
  <2> QED
    BY <2>1, <2>2
<1> QED
  BY <1>4, <1>5

(* _locked records the mutex under the id that _will_lock gave it.           *)
LEMMA LockedStep ==
  ASSUME TypeOK, Wanted, Base, Inv, Steady, TypeOK', Base', NEW t \in Thread, Locked(t)
  PROVE  Inv'
<1> DEFINE m == want[t]
<1>t. /\ want \in [Thread -> Mutex \cup {NoMutex}] /\ arg \in [Thread -> Id \cup {NoId}]
      /\ pc \in [Thread -> {"idle", "will_lock", "acquire", "locked", "post_lock",
                             "will_unlock", "unlock"}]
      /\ id \in [Mutex -> Id \cup {NoId}] /\ held \in [Thread -> SUBSET Id]
      /\ constructed \subseteq Mutex /\ follows \subseteq Id \X Id
  BY DEF TypeOK, LockdepTypeOK
<1>0. /\ pc[t] = "locked" /\ m \in Mutex /\ m \in constructed /\ owner[m] = t
  <2>1. pc[t] = "locked"
    BY DEF Locked
  <2> QED
    BY <1>t, <2>1 DEF Wanted, Base, Existing
<1>1. PICK i \in Id :
        /\ RegisterIfNew(Group[m], arg[t], i)
        /\ held' = [held EXCEPT ![t] = @ \cup {i}]
        /\ UNCHANGED <<g_lockdep, free_ids_inited, follows>>
        /\ id' = [id EXCEPT ![m] = i]
  <2>1. PICK i \in Id \cup {NoId} :
          /\ lockdep_is_off(arg[t], i) \/ lockdep_locked(Group[m], arg[t], t, i)
          /\ id' = [id EXCEPT ![m] = i]
    BY DEF Locked
  <2>2. lockdep_locked(Group[m], arg[t], t, i)
    BY <2>1 DEF lockdep_is_off, Steady
  <2>3. i \in Id
    <3>1. RegistryTypeOK /\ Group[m] \in LockName
      BY <1>0, MutexAssumption DEF TypeOK, LockdepTypeOK
    <3> QED
      BY <1>t, <2>2, <3>1, GivesAnId DEF lockdep_locked
  <2> QED
    BY <2>1, <2>2, <2>3 DEF lockdep_locked
<1>2. /\ UNCHANGED <<constructed, carried, owner>>
      /\ want' = [want EXCEPT ![t] = NoMutex] /\ arg' = [arg EXCEPT ![t] = NoId]
      /\ pc' = [pc EXCEPT ![t] = "idle"]
  BY DEF Locked, post_lock, Return, Goto, start_vars
<1>3. /\ id[m] \in {NoId, i}
  BY <1>0, <1>1, CallId
<1>4. NoId \notin Id /\ \A n \in Mutex : id[n] \in Id => id'[n] = id[n]
  BY <1>0, <1>1, <1>3, <1>t DEF NoId, Id
<1>5. Registered' /\ free_ids' \subseteq free_ids
  BY <1>0, <1>1, <1>2, CallRegistered
<1>7. IdsStable'
  <2> SUFFICES ASSUME NEW u \in Thread, pc'[u] # "idle"
               PROVE  /\ pc'[u] # "post_lock"
                      /\ arg'[u] # NoId => arg'[u] = id'[want'[u]]
                      /\ arg'[u] = NoId => pc'[u] \in {"will_lock", "acquire", "locked"}
                      /\ arg'[u] = NoId /\ id'[want'[u]] # NoId =>
                           lock_ids'[Group[want'[u]]] = id'[want'[u]]
    BY DEF IdsStable
  <2>1. /\ u # t /\ pc[u] # "idle" /\ pc'[u] = pc[u] /\ arg'[u] = arg[u] /\ want'[u] = want[u]
    BY <1>2, <1>t
  <2>2. /\ arg[u] # NoId => arg[u] = id'[want[u]]
        /\ arg[u] = NoId /\ id'[want[u]] # NoId => lock_ids'[Group[want[u]]] = id'[want[u]]
    BY <1>0, <1>1, <2>1, CallStable
  <2>3. pc[u] # "post_lock" /\ (arg[u] = NoId => pc[u] \in {"will_lock", "acquire", "locked"})
    BY <2>1 DEF Inv, IdsStable
  <2> QED
    BY <2>1, <2>2, <2>3
<1>8. \A u \in Thread, n \in Mutex : Holds(u, n)' <=> Holds(u, n) \/ (u = t /\ n = m)
  BY <1>0, <1>2, <1>t DEF Holds
<1>9. Tracked'
  <2>1. ASSUME NEW u \in Thread, NEW n \in Mutex, Holds(u, n)' PROVE id'[n] \in Id
    BY <1>0, <1>1, <1>4, <1>8, <1>t, <2>1 DEF Inv, Tracked
  <2>2. ASSUME NEW u \in Thread, NEW j \in held'[u]
        PROVE  \E n \in constructed' : Holds(u, n)' /\ id'[n] = j
    <3>1. CASE j \in held[u]
      <4>1. PICK n \in constructed : Holds(u, n) /\ id[n] = j
        BY <3>1 DEF Inv, Tracked
      <4>2. id'[n] = j
        BY <1>4, <1>t, <3>1, <4>1
      <4> QED
        BY <1>2, <1>8, <1>t, <4>1, <4>2
    <3>2. CASE u = t /\ j = i
      BY <1>0, <1>1, <1>2, <1>8, <1>t, <3>2
    <3> QED
      BY <1>1, <1>t, <2>2, <3>1, <3>2
  <2> QED
    BY <2>1, <2>2 DEF Tracked
<1>10. Ordered'
  <2> SUFFICES ASSUME NEW u \in Thread, pc'[u] = "acquire"
               PROVE  /\ id'[want'[u]] \in Id \ held'[u]
                      /\ \A h \in held'[u] : <<h, id'[want'[u]]>> \in follows'
    BY DEF Ordered
  <2>1. u # t /\ pc[u] = "acquire" /\ want'[u] = want[u] /\ held'[u] = held[u]
    BY <1>1, <1>2, <1>t
  <2>2. /\ want[u] \in Mutex /\ id[want[u]] \in Id \ held[u]
        /\ \A h \in held[u] : <<h, id[want[u]]>> \in follows
    BY <2>1 DEF Inv, Ordered, Wanted
  <2> QED
    BY <1>1, <1>4, <2>1, <2>2
<1>11. CleanEdges'
  BY <1>1, <1>5 DEF Inv, CleanEdges
<1>12. LockOnly'
  <2> SUFFICES ASSUME TryLocks = {}
               PROVE  /\ \A u \in Thread, n \in Mutex : owner'[n] = u => id'[n] \in Id
                      /\ \A u \in Thread, n \in Mutex : Holds(u, n)' => id'[n] \in held'[u]
                      /\ OneOfAClass'
    BY DEF LockOnly
  <2>1. /\ \A u \in Thread, n \in Mutex : owner[n] = u => id[n] \in Id /\ id'[n] = id[n]
        /\ \A u \in Thread, n \in Mutex : Holds(u, n) => id[n] \in held[u]
        /\ OneOfAClass
    BY <1>4 DEF Inv, LockOnly
  <2>2. ASSUME NEW u \in Thread, NEW n \in Mutex, Holds(u, n)' PROVE id'[n] \in held'[u]
    <3>1. CASE u = t /\ n = m
      BY <1>0, <1>1, <1>t, <3>1
    <3>2. CASE ~ (u = t /\ n = m)
      <4>1. Holds(u, n)
        BY <1>8, <2>2, <3>2
      <4>2. id'[n] = id[n] /\ id[n] \in held[u]
        BY <2>1, <4>1 DEF Holds
      <4> QED
        BY <1>1, <1>t, <4>2
    <3> QED
      BY <3>1, <3>2
  <2>3. OneOfAClass'
    BY <1>2, <2>1 DEF OneOfAClass
  <2> QED
    BY <1>2, <2>1, <2>2, <2>3
<1> QED
  BY <1>5, <1>7, <1>9, <1>10, <1>11, <1>12 DEF Inv

(* What is erased from held is the entry of this mutex and of no other.       *)
LEMMA WillUnlockStep ==
  ASSUME TypeOK, Wanted, Base, Inv, Steady, NEW t \in Thread, WillUnlock(t)
  PROVE  Inv'
<1> DEFINE m == want[t]
<1>t. /\ want \in [Thread -> Mutex \cup {NoMutex}] /\ arg \in [Thread -> Id \cup {NoId}]
      /\ pc \in [Thread -> {"idle", "will_lock", "acquire", "locked", "post_lock",
                             "will_unlock", "unlock"}]
      /\ id \in [Mutex -> Id \cup {NoId}] /\ held \in [Thread -> SUBSET Id]
      /\ constructed \subseteq Mutex
  BY DEF TypeOK, LockdepTypeOK
<1>0. /\ pc[t] = "will_unlock" /\ m \in Mutex /\ owner[m] = t
      /\ arg[t] # NoId /\ arg[t] = id[m] /\ id[m] \in Id
  <2>1. pc[t] = "will_unlock"
    BY DEF WillUnlock
  <2> QED
    BY <1>t, <2>1 DEF Wanted, Base, Existing, Inv, IdsStable
<1>1. /\ UNCHANGED <<registry, follows, g_lockdep, free_ids_inited, id, constructed, carried,
                    owner, want, arg>>
      /\ held' = [held EXCEPT ![t] = @ \ {id[m]}]
      /\ pc' = [pc EXCEPT ![t] = "unlock"]
  BY <1>0, <1>t DEF WillUnlock, lockdep_is_off, lockdep_will_unlock, Goto, Steady, start_vars
<1>2. Registered' /\ CleanEdges'
  BY <1>1 DEF Inv, registry, Registered, CleanEdges
<1>3. IdsStable'
  BY <1>0, <1>1, <1>t DEF Base, Existing, Inv, IdsStable, registry
<1>4. \A u \in Thread, n \in Mutex : Holds(u, n)' <=> Holds(u, n) /\ ~ (u = t /\ n = m)
  BY <1>0, <1>1, <1>t DEF Holds
<1>5. Tracked'
  <2>1. ASSUME NEW u \in Thread, NEW j \in held'[u]
        PROVE  \E n \in constructed' : Holds(u, n)' /\ id'[n] = j
    <3>1. j \in held[u] /\ ~ (u = t /\ j = id[m])
      BY <1>1, <1>t, <2>1
    <3>2. PICK n \in constructed : Holds(u, n) /\ id[n] = j
      BY <3>1 DEF Inv, Tracked
    <3> QED
      BY <1>1, <1>4, <1>t, <3>1, <3>2
  <2> QED
    BY <1>1, <1>4, <2>1 DEF Inv, Tracked
<1>6. LockOnly'
  <2> SUFFICES ASSUME TryLocks = {}, NEW u \in Thread, NEW n \in Mutex, Holds(u, n)'
               PROVE  id'[n] \in held'[u]
    BY <1>1 DEF Inv, LockOnly, OneOfAClass
  <2>1. id[n] \in held[u] /\ owner[n] = u
    BY <1>4 DEF Inv, LockOnly, Holds
  <2>2. CASE u = t
    <3>1. n # m
      BY <1>4, <2>2
    <3>2. id[n] # id[m]
      BY <1>0, <2>1, <2>2, <3>1 DEF Inv, LockOnly, OneOfAClass
    <3> QED
      BY <1>1, <1>t, <2>1, <2>2, <3>2
  <2>3. CASE u # t
    BY <1>1, <1>t, <2>1, <2>3
  <2> QED
    BY <2>2, <2>3
<1>7. Ordered'
  BY <1>1, <1>t DEF Inv, Ordered
<1> QED
  BY <1>2, <1>3, <1>5, <1>6, <1>7 DEF Inv

(* _will_lock puts what t holds before what it is about to wait for.         *)
LEMMA WillLockStep ==
  ASSUME TypeOK, Wanted, Base, Inv, Steady, TypeOK', Base', NEW t \in Thread, WillLock(t)
  PROVE  Inv'
<1> DEFINE m == want[t]
<1>t. /\ want \in [Thread -> Mutex \cup {NoMutex}] /\ arg \in [Thread -> Id \cup {NoId}]
      /\ pc \in [Thread -> {"idle", "will_lock", "acquire", "locked", "post_lock",
                             "will_unlock", "unlock"}]
      /\ id \in [Mutex -> Id \cup {NoId}] /\ held \in [Thread -> SUBSET Id]
      /\ constructed \subseteq Mutex /\ follows \subseteq Id \X Id
  BY DEF TypeOK, LockdepTypeOK
<1>0. pc[t] = "will_lock" /\ m \in Mutex /\ m \in constructed /\ Group[m] \in LockName
  BY <1>t, MutexAssumption DEF WillLock, Wanted, Base, Existing
<1>1. PICK i \in Id :
        /\ RegisterIfNew(Group[m], arg[t], i)
        /\ ~ recursive_lock(t, i) /\ ~ creates_a_cycle(t, i)
        /\ follows' = follows \cup {<<h, i>> : h \in held[t]}
        /\ UNCHANGED <<g_lockdep, free_ids_inited, held>>
        /\ id' = [id EXCEPT ![m] = i]
  <2>1. PICK i \in Id \cup {NoId} :
          /\ lockdep_is_off(arg[t], i) \/ lockdep_will_lock(Group[m], arg[t], t, i)
          /\ id' = [id EXCEPT ![m] = i]
    BY DEF WillLock
  <2>2. lockdep_will_lock(Group[m], arg[t], t, i)
    BY <2>1 DEF lockdep_is_off, Steady
  <2>3. i \in Id
    <3>1. RegistryTypeOK
      BY DEF TypeOK, LockdepTypeOK
    <3> QED
      BY <1>0, <1>t, <2>2, <3>1, GivesAnId DEF lockdep_will_lock
  <2> QED
    BY <2>1, <2>2, <2>3 DEF lockdep_will_lock, will_lock_edges
<1>2. /\ UNCHANGED <<constructed, carried, owner, want, arg>>
      /\ pc' = [pc EXCEPT ![t] = "acquire"]
  BY DEF WillLock, Goto, start_vars
<1>3. /\ id[m] \in {NoId, i}
  BY <1>0, <1>1, CallId
<1>4. NoId \notin Id /\ \A n \in Mutex : id[n] \in Id => id'[n] = id[n]
  BY <1>1, <1>3, <1>t DEF NoId, Id
<1>5. Registered' /\ free_ids' \subseteq free_ids
  BY <1>0, <1>1, <1>2, CallRegistered
<1>7. IdsStable'
  <2> SUFFICES ASSUME NEW u \in Thread, pc'[u] # "idle"
               PROVE  /\ pc'[u] # "post_lock"
                      /\ arg[u] # NoId => arg[u] = id'[want[u]]
                      /\ arg[u] = NoId => pc'[u] \in {"will_lock", "acquire", "locked"}
                      /\ arg[u] = NoId /\ id'[want[u]] # NoId =>
                           lock_ids'[Group[want[u]]] = id'[want[u]]
    BY <1>2 DEF IdsStable
  <2>1. pc[u] # "idle"
    BY <1>0, <1>2, <1>t
  <2>2. /\ arg[u] # NoId => arg[u] = id'[want[u]]
        /\ arg[u] = NoId /\ id'[want[u]] # NoId => lock_ids'[Group[want[u]]] = id'[want[u]]
    BY <1>0, <1>1, <2>1, CallStable
  <2>3. pc'[u] # "post_lock" /\ (arg[u] = NoId => pc'[u] \in {"will_lock", "acquire", "locked"})
    BY <1>2, <1>t, <2>1 DEF Inv, IdsStable
  <2> QED
    BY <2>2, <2>3
<1>8. \A u \in Thread, n \in Mutex : Holds(u, n)' <=> Holds(u, n)
  BY <1>0, <1>2, <1>t DEF Holds
<1>9. Tracked'
  <2>1. \A u \in Thread, n \in Mutex : Holds(u, n) => id[n] \in Id /\ id'[n] = id[n]
    BY <1>4 DEF Inv, Tracked
  <2> QED
    BY <1>1, <1>2, <1>8, <1>t, <2>1 DEF Inv, Tracked
<1>10. LockOnly'
  <2> SUFFICES ASSUME TryLocks = {}
               PROVE  /\ \A u \in Thread, n \in Mutex : owner'[n] = u => id'[n] \in Id
                      /\ \A u \in Thread, n \in Mutex : Holds(u, n)' => id'[n] \in held'[u]
                      /\ OneOfAClass'
    BY DEF LockOnly
  <2>1. /\ \A u \in Thread, n \in Mutex : owner[n] = u => id[n] \in Id /\ id'[n] = id[n]
        /\ \A u \in Thread, n \in Mutex : Holds(u, n) => id[n] \in held[u]
        /\ OneOfAClass
    BY <1>4 DEF Inv, LockOnly
  <2>2. OneOfAClass'
    BY <1>2, <2>1 DEF OneOfAClass
  <2>3. \A u \in Thread, n \in Mutex : Holds(u, n)' => id'[n] \in held'[u]
    BY <1>1, <1>8, <2>1 DEF Holds
  <2> QED
    BY <1>2, <2>1, <2>2, <2>3
<1>11. Ordered'
  <2> SUFFICES ASSUME NEW u \in Thread, pc'[u] = "acquire"
               PROVE  /\ id'[want[u]] \in Id \ held[u]
                      /\ \A h \in held[u] : <<h, id'[want[u]]>> \in follows'
    BY <1>1, <1>2 DEF Ordered
  <2>1. CASE u = t
    BY <1>0, <1>1, <1>t, <2>1 DEF recursive_lock
  <2>2. CASE u # t
    <3>1. /\ want[u] \in Mutex /\ id[want[u]] \in Id \ held[u]
          /\ \A h \in held[u] : <<h, id[want[u]]>> \in follows
      BY <1>2, <1>t, <2>2 DEF Inv, Ordered, Wanted
    <3> QED
      BY <1>1, <1>4, <3>1
  <2> QED
    BY <2>1, <2>2
<1>12. i \notin free_ids' /\ \A h \in held[t] : h \notin free_ids
  <2>1. \A h \in held[t] : h \in Id /\ Linked(h) # {}
    BY <1>t DEF Inv, Tracked, Linked
  <2>2. Linked(i)' # {}
    BY <1>0, <1>1, <1>2, <1>t DEF Linked
  <2> QED
    BY <2>1, <2>2 DEF Base, Kept
<1>13. CleanEdges'
  <2>1. ASSUME NEW e \in follows' PROVE e[1] \notin free_ids' /\ e[2] \notin free_ids'
    <3>1. CASE e \in follows
      BY <1>5, <3>1 DEF Inv, CleanEdges
    <3>2. ASSUME NEW h \in held[t], e = <<h, i>>
          PROVE  e[1] \notin free_ids' /\ e[2] \notin free_ids'
      BY <1>5, <1>12, <3>2
    <3> QED
      BY <1>1, <2>1, <3>1, <3>2
  <2> QED
    BY <2>1 DEF CleanEdges
<1> QED
  BY <1>5, <1>7, <1>9, <1>10, <1>11, <1>13 DEF Inv

(* Nobody holds, or is busy with, a mutex that does not exist yet.           *)
LEMMA ConstructStep ==
  ASSUME TypeOK, Wanted, Base, Inv, Steady, NEW m \in Mutex, Construct(m)
  PROVE  Inv'
<1>t. /\ want \in [Thread -> Mutex \cup {NoMutex}]
      /\ id \in [Mutex -> Id \cup {NoId}] /\ held \in [Thread -> SUBSET Id]
      /\ constructed \subseteq Mutex /\ RegistryTypeOK
      /\ lock_names \in [Id -> LockName \cup {NoName}]
      /\ lock_ids \in [LockName -> Id \cup {NoId}]
  BY DEF TypeOK, LockdepTypeOK, RegistryTypeOK
<1>0. /\ m \notin constructed /\ constructed' = constructed \cup {m}
      /\ UNCHANGED <<owner, pc, want, arg, held, follows, carried>>
      /\ \A n \in Mutex \ {m} : id'[n] = id[n]
  BY <1>t DEF Construct, Steady, start_vars
<1>1. /\ \A t \in Thread : owner[m] # t /\ ~ Holds(t, m)
      /\ \A t \in Thread : pc[t] # "idle" => want[t] # m /\ want[t] \in Mutex
  BY <1>0, NoThreadAssumption DEF Base, Existing, Holds, Wanted
<1>2. /\ \A n \in LockName : lock_ids[n] # NoId => lock_ids'[n] = lock_ids[n]
      /\ free_ids' \subseteq free_ids /\ Registered'
  <2>1. PICK i \in Id : Register("", i) /\ id' = [id EXCEPT ![m] = i]
    BY DEF Construct, registered_name, Steady
  <2>2. /\ lock_names[i] \in {NoName, ""} /\ lock_ids[""] \in {NoId, i}
        /\ lock_ids' = [lock_ids EXCEPT ![""] = i]
        /\ lock_names' = [lock_names EXCEPT ![i] = ""]
        /\ free_ids' \subseteq free_ids
    BY <1>t, <2>1, LockdepAssumption, RegisterFacts DEF Base
  <2>3. ASSUME NEW n \in constructed' \ carried', id'[n] # NoId PROVE lock_names'[id'[n]] # NoName
    <3>1. CASE n = m
      BY <1>t, <2>1, <2>2, <3>1, LockdepAssumption, NoNameAssumption
    <3>2. CASE n # m
      <4>1. n \in constructed \ carried /\ id'[n] = id[n] /\ id[n] \in Id
        BY <1>0, <1>t, <2>3, <3>2
      <4>2. lock_names[id[n]] # NoName
        BY <2>3, <4>1 DEF Inv, Registered
      <4> QED
        BY <1>t, <2>2, <4>1, <4>2, LockdepAssumption, NoNameAssumption
    <3> QED
      BY <3>1, <3>2
  <2> QED
    BY <1>t, <2>2, <2>3 DEF Registered
<1>3. IdsStable'
  <2> SUFFICES ASSUME NEW t \in Thread, pc[t] # "idle"
               PROVE  /\ pc[t] # "post_lock"
                      /\ arg[t] # NoId => arg[t] = id'[want[t]]
                      /\ arg[t] = NoId => pc[t] \in {"will_lock", "acquire", "locked"}
                      /\ arg[t] = NoId /\ id'[want[t]] # NoId =>
                           lock_ids'[Group[want[t]]] = id'[want[t]]
    BY <1>0 DEF IdsStable
  <2>1. id'[want[t]] = id[want[t]] /\ Group[want[t]] \in LockName
    BY <1>0, <1>1, MutexAssumption
  <2> QED
    BY <1>2, <2>1 DEF Inv, IdsStable
<1>4. \A t \in Thread, n \in Mutex : Holds(t, n)' <=> Holds(t, n)
  BY <1>0 DEF Holds
<1>5. Tracked'
  <2>1. \A t \in Thread, n \in Mutex : Holds(t, n) => id'[n] = id[n]
    BY <1>0, <1>1
  <2> QED
    BY <1>0, <1>4, <1>t, <2>1 DEF Inv, Tracked
<1>6. LockOnly'
  <2>1. \A t \in Thread, n \in Mutex : owner[n] = t => id'[n] = id[n]
    BY <1>0, <1>1
  <2> QED
    BY <1>0, <1>4, <2>1 DEF Inv, LockOnly, OneOfAClass, Holds
<1>7. Ordered'
  BY <1>0, <1>1 DEF Inv, Ordered
<1>8. CleanEdges'
  BY <1>0, <1>2 DEF Inv, CleanEdges
<1> QED
  BY <1>2, <1>3, <1>5, <1>6, <1>7, <1>8 DEF Inv

(* A destructor that has not called lockdep_unregister has changed nothing.   *)
LEMMA DestroyStep ==
  ASSUME TypeOK, Wanted, Base, Inv, Steady, NEW m \in Mutex, Destroy(m)
  PROVE  Inv'
<1>0. UNCHANGED <<lockdep_vars, constructed, id, owner, pc, want, arg, carried>>
  BY DEF Destroy, Steady
<1>1. Registered' /\ CleanEdges'
  BY <1>0, Quiet
<1>2. IdsStable' /\ Ordered'
  BY <1>0 DEF lockdep_vars, Inv, IdsStable, Ordered
<1>3. Tracked' /\ LockOnly'
  BY <1>0 DEF lockdep_vars, Inv, Tracked, Holds, LockOnly, OneOfAClass
<1> QED
  BY <1>1, <1>2, <1>3 DEF Inv

(* The edges a thread relies on are between classes of mutexes in use.        *)
LEMMA UnregisterStep ==
  ASSUME TypeOK, Wanted, DyingUnused, Base, Inv, Steady, NEW m \in Mutex, Unregister(m)
  PROVE  Inv'
<1>t. /\ want \in [Thread -> Mutex \cup {NoMutex}]
      /\ id \in [Mutex -> Id \cup {NoId}] /\ held \in [Thread -> SUBSET Id]
      /\ constructed \subseteq Mutex /\ follows \subseteq Id \X Id
      /\ lock_names \in [Id -> LockName \cup {NoName}]
      /\ lock_ids \in [LockName -> Id \cup {NoId}]
  BY DEF TypeOK, LockdepTypeOK, RegistryTypeOK
<1>0. /\ m \in constructed /\ constructed' = constructed \ {m} /\ carried' = carried \ {m}
      /\ UNCHANGED <<owner, pc, want, arg, held, id, free_ids_inited, g_lockdep>>
      /\ owner[m] = NoThread /\ \A t \in Thread : pc[t] # "idle" => want[t] # m
      /\ lockdep_unregister(id[m]) /\ (id[m] # NoId => lock_names[id[m]] # NoName)
  BY DEF Unregister, DyingUnused, Unused, UnknownId
<1>l. \A j \in Id : Linked(j)' = Linked(j) \ {m}
  BY <1>0 DEF Linked, Reads
<1>1. \/ UNCHANGED <<follows, lock_ids, lock_names, free_ids>>
      \/ /\ \A n \in constructed \ {m} : id[n] # id[m]
         /\ id[m] \in Id
         /\ follows' = without_order_of(id[m])
         /\ lock_ids' = [lock_ids EXCEPT ![lock_names[id[m]]] = NoId]
         /\ lock_names' = [lock_names EXCEPT ![id[m]] = NoName]
         /\ free_ids' = free_ids \cup {id[m]}
  <2>1. CASE LastReference(m)
    <3>1. /\ Linked(id[m]) \subseteq {m}
          /\ follows' = without_order_of(id[m])
          /\ lock_ids' = [lock_ids EXCEPT ![lock_names[id[m]]] = NoId]
          /\ lock_names' = [lock_names EXCEPT ![id[m]] = NoName]
          /\ free_ids' = free_ids \cup {id[m]}
      BY <1>0, <1>l, <2>1, UnregisterFacts
    <3>2. id[m] \in Id
      BY <1>0, <1>t, <2>1 DEF LastReference
    <3>3. \A n \in constructed \ {m} : id[n] # id[m]
      BY <3>1 DEF Linked
    <3> QED
      BY <3>1, <3>2, <3>3
  <2>2. CASE ~ LastReference(m)
    BY <1>0, <1>l, <2>2, UnregisterFacts
  <2> QED
    BY <2>1, <2>2
<1>2. Registered'
  BY <1>0, <1>1, <1>t DEF Inv, Registered
<1>3. IdsStable'
  <2> SUFFICES ASSUME NEW t \in Thread, pc[t] # "idle", arg[t] = NoId, id[want[t]] # NoId
               PROVE  lock_ids'[Group[want[t]]] = id[want[t]]
    BY <1>0 DEF Inv, IdsStable
  <2>0. want[t] \in constructed \ {m}
    BY <1>0 DEF Base, Existing
  <2>1. /\ Group[want[t]] \in LockName
        /\ id[want[t]] \in Id /\ lock_ids[Group[want[t]]] = id[want[t]]
    BY <1>0, <1>t, <2>0, MutexAssumption DEF Inv, IdsStable
  <2>2. \A n \in LockName : lock_names[id[m]] = n /\ id[m] \in Id => lock_ids[n] = id[m]
    BY DEF Base, Table
  <2> QED
    BY <1>1, <1>t, <2>0, <2>1, <2>2
<1>4. \A t \in Thread, n \in Mutex : Holds(t, n)' <=> Holds(t, n)
  BY <1>0 DEF Holds
<1>5. Tracked'
  <2>1. \A t \in Thread : ~ Holds(t, m)
    BY <1>0, NoThreadAssumption DEF Holds
  <2> QED
    BY <1>0, <1>4, <1>t, <2>1 DEF Inv, Tracked
<1>6. LockOnly'
  BY <1>0, <1>4 DEF Inv, LockOnly, OneOfAClass
<1>7. Ordered'
  <2> SUFFICES ASSUME NEW t \in Thread, pc[t] = "acquire", NEW h \in held[t]
               PROVE  <<h, id[want[t]]>> \in follows'
    BY <1>0 DEF Inv, Ordered
  <2>1. <<h, id[want[t]]>> \in follows /\ want[t] \in constructed \ {m}
    BY <1>0 DEF Base, Existing, Inv, Ordered
  <2>2. \E n \in constructed \ {m} : id[n] = h
    BY <1>0, NoThreadAssumption DEF Inv, Tracked, Holds
  <2> QED
    BY <1>1, <2>1, <2>2 DEF without_order_of
<1>8. CleanEdges'
  BY <1>1, <1>t DEF Inv, CleanEdges, without_order_of
<1> QED
  BY <1>2, <1>3, <1>5, <1>6, <1>7, <1>8 DEF Inv

(* Nobody uses a mutex when lockdep is started, and nothing is recorded.      *)
LEMMA GlobalInitStep ==
  ASSUME TypeOK, Base, GlobalInit, ~ midway'
  PROVE  Inv'
<1>1. /\ UNCHANGED <<constructed, id, owner, pc, follows, held>>
      /\ carried' = {m \in constructed : id[m] # NoId} /\ ~ InUse
      /\ follows = {} /\ \A t \in Thread : held[t] = {}
  BY DEF GlobalInit, lockdep_global_init, mutex_vars, Base, OffClean
<1>2. \A t \in Thread : pc[t] = "idle" /\ \A m \in Mutex : owner[m] # t
  BY <1>1, NoThreadAssumption DEF InUse
<1> QED
  BY <1>1, <1>2 DEF Inv, IdsStable, Registered, Tracked, Holds, Ordered, LockOnly, OneOfAClass,
     CleanEdges

(* A process that has ended stays as it was, and so does one that stutters.   *)
LEMMA SameStep ==
  ASSUME Inv, UNCHANGED <<lockdep_vars, constructed, id, owner, pc, want, arg, carried>>
  PROVE  Inv'
<1>1. Registered' /\ CleanEdges'
  BY Quiet
<1>2. IdsStable' /\ Ordered'
  BY DEF lockdep_vars, Inv, IdsStable, Ordered
<1>3. Tracked' /\ LockOnly'
  BY DEF lockdep_vars, Inv, Tracked, Holds, LockOnly, OneOfAClass
<1> QED
  BY <1>1, <1>2, <1>3 DEF Inv

(* A step of a thread.                                                       *)
LEMMA InvThread ==
  ASSUME TypeOK, TypeOK', Wanted, Base, Base', Inv, Steady, NEW t \in Thread, ThreadStep(t)
  PROVE  Inv'
<1>1. ASSUME NEW m \in Mutex, Lock(t, m) PROVE Inv'
  BY <1>1, LockStep
<1>2. ASSUME NEW m \in Mutex, Unlock(t, m) PROVE Inv'
  BY <1>2, UnlockStep
<1>3. ASSUME NEW m \in Mutex, TryLock(t, m) PROVE Inv'
  BY <1>3, TryLockStep
<1>4. CASE WillLock(t)
  BY <1>4, WillLockStep
<1>5. CASE WillLockDies(t) \/ LockedDies(t)
  BY <1>5, SameStep DEF WillLockDies, LockedDies, Die, start_vars
<1>6. CASE Acquire(t)
  BY <1>6, AcquireStep
<1>7. CASE AcquireThrows(t)
  BY <1>7, AcquireThrowsStep
<1>8. CASE Locked(t)
  BY <1>8, LockedStep
<1>9. CASE PostLock(t)
  <2>1. pc[t] # "post_lock"
    BY <1>9 DEF PostLock, Inv, IdsStable
  <2> QED
    BY <1>9, <2>1 DEF PostLock
<1>10. CASE WillUnlock(t)
  BY <1>10, WillUnlockStep
<1>11. CASE UnlockImpl(t)
  BY <1>11, UnlockImplStep
<1> QED
  BY <1>1, <1>2, <1>3, <1>4, <1>5, <1>6, <1>7, <1>8, <1>9, <1>10, <1>11 DEF ThreadStep

(* Each action keeps the invariant.                                          *)
LEMMA InvStep ==
  ASSUME IInv, [Next]_vars
  PROVE  IInv'
<1>1. TypeOK' /\ Wanted' /\ DyingUnused'
  BY TypeStep, DyingStep DEF IInv
<1>2. Base'
  BY <1>1, BaseStep DEF IInv
<1> SUFFICES ASSUME Steady' PROVE Inv'
  BY <1>1, <1>2 DEF IInv
<1>3. CASE GlobalInit
  BY <1>3, GlobalInitStep DEF IInv, Steady
<1>4. CASE GlobalDestroy
  BY <1>4 DEF GlobalDestroy, lockdep_global_destroy, clear_held, Steady
<1>5. ASSUME NEW m \in Mutex, Construct(m) PROVE Inv'
  <2>1. Steady
    BY <1>5 DEF Construct, lockdep_vars, start_vars, Steady
  <2> QED
    BY <1>5, <2>1, ConstructStep DEF IInv
<1>6. ASSUME NEW m \in Mutex, Destroy(m) \/ Unregister(m) PROVE Inv'
  <2>1. Steady
    <3>1. UNCHANGED <<g_lockdep, midway>>
      BY <1>6 DEF Destroy, Unregister, lockdep_vars
    <3> QED
      BY <3>1 DEF Steady
  <2> QED
    BY <1>6, <2>1, DestroyStep, UnregisterStep DEF IInv
<1>7. ASSUME NEW m \in Mutex, ConstructDies(m) \/ UnregisterDies(m) PROVE Inv'
  <2>1. UNCHANGED <<lockdep_vars, constructed, id, owner, pc, want, arg, start_vars>>
    BY <1>7 DEF ConstructDies, UnregisterDies, Die
  <2> QED
    BY <2>1, SameStep DEF IInv, Steady, lockdep_vars, start_vars
<1>8. ASSUME NEW t \in Thread, ThreadStep(t) PROVE Inv'
  <2>1. UNCHANGED <<g_lockdep, midway>>
    BY <1>8 DEF ThreadStep, Lock, TryLock, Unlock, WillLock, WillLockDies, Acquire, AcquireThrows,
       Locked, LockedDies, PostLock, WillUnlock, UnlockImpl, Die, lockdep_vars, start_vars,
       lockdep_is_off, lockdep_will_lock, lockdep_locked, lockdep_will_unlock
  <2> QED
    BY <1>1, <1>2, <1>8, <2>1, InvThread DEF IInv, Steady
<1>9. CASE UNCHANGED vars
  <2>1. UNCHANGED <<lockdep_vars, constructed, id, owner, pc, want, arg, start_vars>>
    BY <1>9 DEF vars, mutex_vars
  <2> QED
    BY <2>1, SameStep DEF IInv, Steady, lockdep_vars, start_vars
<1> QED
  BY <1>3, <1>4, <1>5, <1>6, <1>7, <1>8, <1>9 DEF Next

----------------------------------------------------------------------------
(* What follows from it.                                                     *)

(* The bookkeeping of lockdep and of the mutexes.                            *)
THEOREM Bookkeeping == Spec => []IInv
<1>1. Init => IInv
  <2>1. Init => ~ Steady
    BY DEF Init, LockdepInit, Steady
  <2> QED
    BY <2>1, TypeInit, BaseInit DEF IInv, Init, DyingUnused
<1>2. IInv /\ [Next]_vars => IInv'
  BY InvStep
<1> QED
  BY <1>1, <1>2, PTL DEF Spec

(* Threads that wait for one another would have closed a cycle in the order:  *)
(* the class one waits for is held by the next, and so comes before the class *)
(* the next waits for.  While lockdep is off, it knows of no mutex.          *)
LEMMA OrderedNeverBlocks ==
  ASSUME IInv
  PROVE  KnownDeadlocksDetected
<1> SUFFICES ASSUME NEW D \in SUBSET Thread, D # {}, \A t \in D : AllKnown(t), Blocked(D),
                    ~ midway
             PROVE  FALSE
  BY DEF KnownDeadlocksDetected
<1>0. \A t \in D : pc[t] = "acquire" /\ owner[want[t]] \in D /\ want[t] \in Mutex
  BY DEF Blocked, IInv, Wanted
<1>1. CASE ~ g_lockdep
  <2>1. PICK t \in D : TRUE
    OBVIOUS
  <2>2. id[want[t]] \in held[owner[want[t]]] /\ owner[want[t]] \in Thread
    BY <1>0, <2>1 DEF AllKnown
  <2> QED
    BY <1>1, <2>2 DEF IInv, Base, OffClean
<1>2. CASE g_lockdep
  <2> DEFINE S == {id[want[t]] : t \in D}
  <2>0. Inv
    BY <1>2 DEF IInv, Steady
  <2>1. \A t \in D : id[want[t]] \in Id
    BY <1>0, <2>0 DEF Inv, Ordered
  <2>2. S \in SUBSET Id /\ S # {}
    BY <2>1
  <2>3. PICK a \in S : \A b \in S : <<a, b>> \notin follows
    BY <2>2 DEF IInv, Base, NoCycleRecorded, Acyclic
  <2>4. PICK t \in D : a = id[want[t]]
    BY <2>3
  <2>5. PICK u \in D : u = owner[want[t]]
    BY <1>0
  <2>6. a \in held[u]
    BY <1>0, <2>4, <2>5 DEF AllKnown
  <2>7. <<a, id[want[u]]>> \in follows
    BY <1>0, <2>0, <2>6 DEF Inv, Ordered
  <2> QED
    BY <2>3, <2>7
<1> QED
  BY <1>1, <1>2

(* lockdep_will_lock lets no deadlock of mutexes that lockdep knows of pass,  *)
(* whenever it is started while no mutex is in use.                          *)
THEOREM DeadlocksDetected == Spec => []KnownDeadlocksDetected
BY Bookkeeping, OrderedNeverBlocks, PTL

(* And it knows of all of them where nobody calls try_lock: no deadlock at    *)
(* all is let pass while it runs.                                            *)
THEOREM LockNeverDeadlocks ==
  ASSUME TryLocks = {}
  PROVE  Spec => []NoUndetectedDeadlock
<1>1. ASSUME IInv PROVE NoUndetectedDeadlock
  <2> SUFFICES ASSUME NEW D \in SUBSET Thread, D # {}, Blocked(D), failed = "",
                      g_lockdep, ~ midway
               PROVE  FALSE
    BY DEF NoUndetectedDeadlock
  <2>1. \A t \in D : pc[t] = "acquire"
    BY DEF Blocked
  <2>2. \A t \in D : AllKnown(t)
    BY <1>1, <2>1 DEF IInv, Steady, Inv, LockOnly, Holds, AllKnown
  <2> QED
    BY <1>1, <2>2, OrderedNeverBlocks DEF KnownDeadlocksDetected
<1> QED
  BY <1>1, Bookkeeping, PTL

(* An id is not given back while a mutex has it, through any number of starts *)
(* and shutdowns with mutexes that outlive them (the references of           *)
(* _lockdep_register and lockdep_unregister); and lockdep knows the id of     *)
(* every mutex that did not bring it from before its last start.             *)
THEOREM IdsOutliveUsers == Spec => []UsedIdsRegistered
<1>1. ASSUME IInv PROVE UsedIdsRegistered
  <2>1. ASSUME NEW i \in Id
        PROVE  lock_refs[i] >= Cardinality(Users(i)) /\ (Users(i) # {} => i \notin free_ids)
    <3>1. Users(i) \subseteq Linked(i)
      BY DEF Users, Linked
    <3>2. /\ IsFiniteSet(Linked(i)) /\ Cardinality(Linked(i)) \in Nat
          /\ lock_refs[i] \in Int
      BY <1>1, LinkedFinite DEF IInv, TypeOK, LockdepTypeOK, RegistryTypeOK
    <3>3. Cardinality(Users(i)) <= Cardinality(Linked(i)) /\ Cardinality(Users(i)) \in Nat
      BY <3>1, <3>2, FS_Subset, FS_CardinalityType
    <3>4. lock_refs[i] >= Cardinality(Linked(i)) /\ (Linked(i) # {} => i \notin free_ids)
      BY <1>1 DEF IInv, Base, Kept
    <3> QED
      BY <3>1, <3>2, <3>3, <3>4
  <2>2. IdsKept
    BY <2>1 DEF IdsKept
  <2> QED
    BY <1>1, <2>2 DEF UsedIdsRegistered, IInv, Steady, Inv, Registered
<1> QED
  BY <1>1, Bookkeeping, PTL

(* held lists what the thread holds (lockdep_locked, lockdep_will_unlock).    *)
THEOREM NoFalseHolder == Spec => []HeldIsOwned
<1>1. IInv => HeldIsOwned
  BY DEF IInv, Base, OffClean, Steady, Inv, Tracked, Holds, HeldIsOwned
<1> QED
  BY <1>1, Bookkeeping, PTL

(* lockdep_unregister leaves no edge of the id it frees.                      *)
THEOREM ReusedIdsAreClean == Spec => []NoStaleEdge
<1>1. IInv => NoStaleEdge
  BY DEF IInv, Base, OffClean, Steady, Inv, CleanEdges, NoStaleEdge
<1> QED
  BY <1>1, Bookkeeping, PTL

(* "I think it should never get here!": lockdep_unregister does not while     *)
(* lockdep runs, in a program that starts it once, whatever mutexes there are *)
(* before and after; after a second start only a mutex that outlived the      *)
(* shutdown brings an unknown id, if no mutex was in use at that start.       *)
THEOREM UnregisterKnowsId == Spec => []NeverGetsHere
<1>1. ASSUME IInv, NEW m \in dying, UnknownId(m), g_lockdep
      PROVE  Restarts /\ (midway \/ m \in carried)
  <2>1. /\ id[m] \in Id /\ id[m] # NoId /\ m \in constructed /\ m \in Linked(id[m])
        /\ lock_names[id[m]] = NoName
    BY <1>1 DEF UnknownId, Linked, IInv, TypeOK
  <2>2. Restarts
    BY <1>1, <2>1 DEF IInv, Base, Once
  <2>3. ~ midway => m \in carried
    BY <1>1, <2>1 DEF IInv, Steady, Inv, Registered
  <2> QED
    BY <2>2, <2>3
<1>2. Init => NeverGetsHere
  BY DEF Init, NeverGetsHere
<1>3. IInv /\ NeverGetsHere /\ [Next]_vars => NeverGetsHere'
  <2> SUFFICES ASSUME IInv, NeverGetsHere, [Next]_vars, failed' = "unknown id"
               PROVE  NeverGetsHere'
    BY DEF NeverGetsHere
  <2>1. CASE UNCHANGED vars
    BY <2>1 DEF vars, mutex_vars, lockdep_vars, start_vars, NeverGetsHere, UnknownId
  <2>2. CASE GlobalInit \/ GlobalDestroy
    BY <2>2 DEF GlobalInit, GlobalDestroy, mutex_vars, Running
  <2>3. ASSUME NEW m \in Mutex,
               Construct(m) \/ ConstructDies(m) \/ Destroy(m) \/ Unregister(m)
        PROVE  FALSE
    BY <2>3 DEF Construct, ConstructDies, Destroy, Unregister, Die, Running
  <2>4. ASSUME NEW m \in Mutex, UnregisterDies(m) PROVE NeverGetsHere'
    <3>1. /\ UNCHANGED <<g_lockdep, lock_names, id, dying, carried, midway>>
          /\ m \in dying /\ UnknownId(m)
      BY <2>4 DEF UnregisterDies, Die, lockdep_vars, registry, start_vars
    <3>2. g_lockdep => Restarts /\ (midway \/ m \in carried)
      BY <1>1, <3>1
    <3> QED
      BY <3>1, <3>2 DEF NeverGetsHere, UnknownId
  <2>5. ASSUME NEW t \in Thread, ThreadStep(t) PROVE FALSE
    BY <2>5 DEF ThreadStep, Lock, TryLock, Unlock, WillLock, WillLockDies, Acquire,
       AcquireThrows, Locked, LockedDies, PostLock, WillUnlock, UnlockImpl, Die, Running
  <2> QED
    BY <2>1, <2>2, <2>3, <2>4, <2>5 DEF Next
<1> QED
  BY <1>2, <1>3, Bookkeeping, PTL DEF Spec

(* The order never has a cycle: does_follow always ends.                      *)
THEOREM OrderAcyclic == Spec => []NoCycleRecorded
<1>1. IInv => NoCycleRecorded
  BY DEF IInv, Base
<1> QED
  BY <1>1, Bookkeeping, PTL

----------------------------------------------------------------------------
(* The rows of `follows`.                                                    *)

(* No id at or above current_maxid has been given out, and the table is       *)
(* always longer than current_maxid.                                         *)
RowsInv ==
  /\ current_maxid < rows
  /\ last_freed_id < current_maxid
  /\ \A i \in Id : lock_names[i] # NoName => i < current_maxid
  /\ free_ids_inited => \A i \in Id : i >= current_maxid => i \in free_ids
  /\ ~ free_ids_inited => current_maxid = 0

(* lockdep_get_free_id never skips an id that was not given out, ...          *)
LEMMA FreeIdIsNext ==
  ASSUME RegistryTypeOK, RowsInv, free_ids_inited, NEW i \in Id, i \in lockdep_get_free_id
  PROVE  i <= current_maxid
<1>t. current_maxid \in Nat /\ i \in Nat /\ i < MaxLocks /\ MaxLocks \in Nat
      /\ last_freed_id < current_maxid
  BY MaxLocksAssumption DEF RegistryTypeOK, RowsInv, Id
<1>1. CASE last_freed_id \in free_ids
  BY <1>1, <1>t DEF lockdep_get_free_id
<1>2. CASE last_freed_id \notin free_ids
  <2> SUFFICES ASSUME i > current_maxid PROVE FALSE
    BY <1>t
  <2>1. current_maxid \in Id
    BY <1>t DEF Id
  <2>2. current_maxid \in free_ids
    BY <1>t, <2>1 DEF RowsInv
  <2>3. i <= current_maxid
    BY <1>2, <2>2 DEF lockdep_get_free_id
  <2> QED
    BY <1>t, <2>3
<1> QED
  BY <1>1, <1>2

(* ... so _lockdep_register needs one more row at most, and adds it.          *)
LEMMA RegisterRows ==
  ASSUME RegistryTypeOK, Table, RowsInv, NEW name \in LockName, NEW i \in Id,
         Register(name, i), UNCHANGED free_ids_inited
  PROVE  RowsInv'
<1>1. CASE lock_ids[name] # NoId
  BY <1>1 DEF Register, RowsInv
<1>2. CASE lock_ids[name] = NoId
  <2>1. /\ i \in lockdep_get_free_id
        /\ free_ids' = free_ids \ {i}
        /\ last_freed_id' = IF last_freed_id \in free_ids THEN NoId ELSE last_freed_id
        /\ current_maxid' = IF current_maxid <= i THEN i + 1 ELSE current_maxid
        /\ rows' = IF current_maxid <= i /\ i + 1 = rows THEN i + 2 ELSE rows
        /\ lock_names' = [lock_names EXCEPT ![i] = name]
    BY <1>2 DEF Register, IdsFor, enough_rows
  <2>2. i \in free_ids /\ free_ids_inited
    BY <2>1 DEF lockdep_get_free_id, Table
  <2>3. i <= current_maxid
    BY <2>1, <2>2, FreeIdIsNext
  <2>4. current_maxid \in Nat /\ rows \in Nat /\ i \in Nat /\ Id \subseteq Nat
        /\ last_freed_id \in Id \cup {NoId} /\ NoId = -1
    BY DEF RegistryTypeOK, Id, NoId
  <2>5. current_maxid' < rows' /\ last_freed_id' < current_maxid'
        /\ current_maxid <= current_maxid' /\ i < current_maxid'
    BY <2>1, <2>3, <2>4 DEF RowsInv
  <2>6. current_maxid' \in Nat
    BY <2>1, <2>4
  <2>7. \A j \in Id : lock_names'[j] # NoName => j < current_maxid'
    <3> SUFFICES ASSUME NEW j \in Id, lock_names'[j] # NoName PROVE j < current_maxid'
      OBVIOUS
    <3>1. CASE j = i
      BY <2>5, <3>1
    <3>2. CASE j # i
      <4>1. lock_names[j] # NoName
        BY <2>1, <3>2
      <4>2. j < current_maxid
        BY <4>1 DEF RowsInv
      <4> QED
        BY <2>4, <2>5, <2>6, <4>2
    <3> QED
      BY <3>1, <3>2
  <2>8. \A j \in Id : j >= current_maxid' => j \in free_ids'
    BY <2>1, <2>2, <2>4, <2>5, <2>6 DEF RowsInv
  <2> QED
    BY <2>2, <2>5, <2>7, <2>8 DEF RowsInv
<1> QED
  BY <1>1, <1>2

(* An id passed by the caller changes nothing; -1 registers.                 *)
LEMMA RegisterIfNewRows ==
  ASSUME RegistryTypeOK, Table, RowsInv, NEW name \in LockName, NEW x, NEW i \in Id,
         RegisterIfNew(name, x, i), UNCHANGED free_ids_inited
  PROVE  RowsInv'
<1>1. CASE x = NoId
  BY <1>1, RegisterRows DEF RegisterIfNew
<1>2. CASE x # NoId
  BY <1>2 DEF RegisterIfNew, RowsInv, registry
<1> QED
  BY <1>1, <1>2

(* Only an id that was given out is freed.                                   *)
LEMMA UnregisterRows ==
  ASSUME RegistryTypeOK, RowsInv, NEW x \in Id \cup {NoId},
         x # NoId => lock_names[x] # NoName,
         lockdep_unregister(x), UNCHANGED free_ids_inited
  PROVE  RowsInv'
<1>1. CASE x = NoId
  BY <1>1 DEF lockdep_unregister, registry, RowsInv
<1>2. CASE x # NoId /\ lock_refs[x] # 1
  BY <1>2 DEF lockdep_unregister, RowsInv
<1>3. CASE x # NoId /\ lock_refs[x] = 1
  <2>1. /\ lock_names' = [lock_names EXCEPT ![x] = NoName]
        /\ free_ids' = free_ids \cup {x} /\ last_freed_id' = x
        /\ UNCHANGED <<current_maxid, rows>>
    BY <1>3 DEF lockdep_unregister
  <2>2. x \in Id /\ x < current_maxid
    BY <1>3 DEF RowsInv
  <2> QED
    BY <2>1, <2>2 DEF RowsInv, RegistryTypeOK
<1> QED
  BY <1>1, <1>2, <1>3

(* Each action keeps it.                                                     *)
LEMMA RowsStep ==
  ASSUME IInv, RowsInv, [Next]_vars
  PROVE  RowsInv'
<1>t. /\ RegistryTypeOK /\ Table /\ NoName \notin LockName
      /\ id \in [Mutex -> Id \cup {NoId}] /\ arg \in [Thread -> Id \cup {NoId}]
  BY NoNameAssumption DEF IInv, Base, TypeOK, LockdepTypeOK
<1>0. ASSUME UNCHANGED lockdep_vars PROVE RowsInv'
  BY <1>0 DEF lockdep_vars, RowsInv
<1>1. CASE GlobalInit
  <2>1. UNCHANGED <<last_freed_id, lock_names, current_maxid, rows>> /\ free_ids_inited'
        /\ free_ids' = IF free_ids_inited THEN free_ids ELSE Id
    BY <1>1 DEF GlobalInit, lockdep_global_init, free_at_start, initially_free
  <2> QED
    BY <2>1 DEF RowsInv
<1>2. CASE GlobalDestroy
  <2>1. /\ lock_names' = [i \in Id |-> NoName]
        /\ UNCHANGED <<free_ids_inited, free_ids, last_freed_id, current_maxid, rows>>
    BY <1>2 DEF GlobalDestroy, lockdep_global_destroy, clear_held
  <2> QED
    BY <2>1 DEF RowsInv
<1>3. ASSUME NEW m \in Mutex, Construct(m) PROVE RowsInv'
  <2>1. CASE g_lockdep
    <3>1. PICK i \in Id : Register("", i)
      BY <1>3, <2>1 DEF Construct, registered_name
    <3>2. UNCHANGED free_ids_inited
      BY <1>3, <2>1 DEF Construct
    <3> QED
      BY <1>t, <3>1, <3>2, RegisterRows, LockdepAssumption
  <2>2. CASE ~ g_lockdep
    BY <1>0, <1>3, <2>2 DEF Construct
  <2> QED
    BY <2>1, <2>2
<1>4. ASSUME NEW why, Die(why) PROVE RowsInv'
  BY <1>0, <1>4 DEF Die, lockdep_vars
<1>5. ASSUME NEW m \in Mutex, Destroy(m) PROVE RowsInv'
  BY <1>0, <1>5 DEF Destroy
<1>8. ASSUME NEW m \in Mutex, Unregister(m) PROVE RowsInv'
  <2>1. lockdep_unregister(id[m]) /\ UNCHANGED free_ids_inited
    BY <1>8 DEF Unregister
  <2>2. id[m] # NoId => lock_names[id[m]] # NoName
    BY <1>8 DEF Unregister, UnknownId
  <2>3. id[m] \in Id \cup {NoId}
    BY <1>t
  <2> QED
    BY <1>t, <2>1, <2>2, <2>3, UnregisterRows
<1>6. ASSUME NEW t \in Thread, ThreadStep(t) PROVE RowsInv'
  <2>1. CASE WillLock(t)
    <3>1. Group[want[t]] \in LockName
      BY <2>1, MutexAssumption DEF WillLock, IInv, Wanted
    <3>2. PICK i \in Id \cup {NoId} :
            lockdep_is_off(arg[t], i) \/ lockdep_will_lock(Group[want[t]], arg[t], t, i)
      BY <2>1 DEF WillLock
    <3>3. CASE lockdep_is_off(arg[t], i)
      BY <1>0, <3>3 DEF lockdep_is_off
    <3>4. CASE lockdep_will_lock(Group[want[t]], arg[t], t, i)
      <4>1. i \in Id
        BY <1>t, <3>1, <3>4, GivesAnId DEF lockdep_will_lock
      <4> QED
        BY <1>t, <3>1, <3>4, <4>1, RegisterIfNewRows DEF lockdep_will_lock
    <3> QED
      BY <3>2, <3>3, <3>4
  <2>2. CASE Locked(t)
    <3>1. Group[want[t]] \in LockName
      BY <2>2, MutexAssumption DEF Locked, IInv, Wanted
    <3>2. PICK i \in Id \cup {NoId} :
            lockdep_is_off(arg[t], i) \/ lockdep_locked(Group[want[t]], arg[t], t, i)
      BY <2>2 DEF Locked
    <3>3. CASE lockdep_is_off(arg[t], i)
      BY <1>0, <3>3 DEF lockdep_is_off
    <3>4. CASE lockdep_locked(Group[want[t]], arg[t], t, i)
      <4>1. i \in Id
        BY <1>t, <3>1, <3>4, GivesAnId DEF lockdep_locked
      <4> QED
        BY <1>t, <3>1, <3>4, <4>1, RegisterIfNewRows DEF lockdep_locked
    <3> QED
      BY <3>2, <3>3, <3>4
  <2>3. CASE WillUnlock(t)
    BY <1>0, <2>3 DEF WillUnlock, lockdep_is_off, lockdep_will_unlock, registry, RowsInv
  <2>4. CASE WillLockDies(t) \/ LockedDies(t)
    BY <1>4, <2>4 DEF WillLockDies, LockedDies
  <2>5. CASE Acquire(t) \/ AcquireThrows(t) \/ PostLock(t) \/ UnlockImpl(t)
    BY <1>0, <2>5 DEF Acquire, AcquireThrows, PostLock, UnlockImpl
  <2>6. ASSUME NEW m \in Mutex, Lock(t, m) \/ TryLock(t, m) \/ Unlock(t, m) PROVE RowsInv'
    BY <1>0, <2>6 DEF Lock, TryLock, Unlock
  <2> QED
    BY <1>6, <2>1, <2>2, <2>3, <2>4, <2>5, <2>6 DEF ThreadStep
<1>7. CASE UNCHANGED vars
  BY <1>0, <1>7 DEF vars
<1> QED
  BY <1>1, <1>2, <1>3, <1>4, <1>5, <1>6, <1>7, <1>8 DEF Next, ConstructDies, UnregisterDies

(* follows.resize(current_maxid + 1): every id given out has its row, and so  *)
(* has the one that _lockdep_register clears for a new id.                   *)
THEOREM RowsSuffice == Spec => []RowsCoverIds
<1>1. Init => RowsInv
  <2> SUFFICES ASSUME Init PROVE RowsInv
    OBVIOUS
  <2>1. /\ current_maxid = 0 /\ rows = NrLocks /\ last_freed_id = -1
        /\ lock_names = [i \in Id |-> NoName] /\ ~ free_ids_inited
    BY DEF Init, LockdepInit, NoId
  <2>2. \A i \in Id : lock_names[i] = NoName
    BY <2>1
  <2>3. 0 < NrLocks
    <3>1. NrLocks \in Nat /\ NrLocks # 0
      BY LockdepAssumption
    <3> QED
      BY <3>1
  <2>4. current_maxid < rows /\ last_freed_id < current_maxid
    BY <2>1, <2>3
  <2> QED
    BY <2>1, <2>2, <2>4 DEF RowsInv
<1>2. IInv /\ RowsInv /\ [Next]_vars => RowsInv'
  BY RowsStep
<1>3. IInv /\ RowsInv => RowsCoverIds
  <2>1. IInv => current_maxid \in Nat /\ rows \in Nat
    BY DEF IInv, TypeOK, LockdepTypeOK, RegistryTypeOK
  <2> QED
    BY <2>1 DEF RowsInv, RowsCoverIds
<1> QED
  BY <1>1, <1>2, <1>3, Bookkeeping, PTL DEF Spec

----------------------------------------------------------------------------
(* nlock and locked_by.                                                      *)

(* Between pthread_mutex_lock and _post_lock, and between _pre_unlock and      *)
(* pthread_mutex_unlock, the mutex does not say that t has it.                *)
Between(t, m) ==
  pc[t] \in {"locked", "post_lock", "will_unlock", "unlock"} /\ want[t] = m

LockCountInv ==
  \A m \in Mutex :
    /\ owner[m] = NoThread => nlock[m] = 0
    /\ \A t \in Thread : owner[m] = t =>
         /\ Between(t, m) => nlock[m] = 0
         /\ ~ Between(t, m) => nlock[m] = 1 /\ locked_by[m] = t

(* Each action keeps it.                                                     *)
LEMMA LockCountStep ==
  ASSUME IInv, LockCountInv, [Next]_vars
  PROVE  LockCountInv'
<1>t. /\ owner \in [Mutex -> Thread \cup {NoThread}] /\ nlock \in [Mutex -> Nat]
      /\ locked_by \in [Mutex -> Thread \cup {NoThread}] /\ NoThread \notin Thread
      /\ pc \in [Thread -> {"idle", "will_lock", "acquire", "locked", "post_lock",
                             "will_unlock", "unlock"}]
      /\ want \in [Thread -> Mutex \cup {NoMutex}]
      /\ \A t \in Thread : pc[t] # "idle" => want[t] \in Mutex
      /\ \A t \in Thread :
           pc[t] \in {"locked", "post_lock", "will_unlock", "unlock"} => owner[want[t]] = t
  BY NoThreadAssumption DEF IInv, TypeOK, Wanted, Base, Existing
<1>0. ASSUME UNCHANGED <<owner, nlock, locked_by, pc, want>> PROVE LockCountInv'
  BY <1>0 DEF LockCountInv, Between
<1>1. CASE GlobalInit \/ GlobalDestroy \/ UNCHANGED vars
  BY <1>0, <1>1 DEF GlobalInit, GlobalDestroy, vars, mutex_vars
<1>2. ASSUME NEW m \in Mutex,
             Construct(m) \/ ConstructDies(m) \/ Destroy(m) \/ Unregister(m)
               \/ UnregisterDies(m)
      PROVE  LockCountInv'
  BY <1>0, <1>2 DEF Construct, ConstructDies, Die, Destroy, Unregister, UnregisterDies
<1>3. ASSUME NEW t \in Thread, ThreadStep(t) PROVE LockCountInv'
  <2>1. ASSUME NEW m \in Mutex, Lock(t, m) PROVE LockCountInv'
    BY <1>t, <2>1 DEF Lock, Report, Goto, LockCountInv, Between
  <2>2. ASSUME NEW m \in Mutex, TryLock(t, m) PROVE LockCountInv'
    BY <1>t, <2>2 DEF TryLock, Report, Goto, LockCountInv, Between
  <2>3. ASSUME NEW m \in Mutex, Unlock(t, m) PROVE LockCountInv'
    <3>1. /\ pc[t] = "idle" /\ owner[m] = t /\ UNCHANGED owner
          /\ \E l \in {"will_unlock", "unlock"} : pc' = [pc EXCEPT ![t] = l]
          /\ want' = [want EXCEPT ![t] = m]
          /\ locked_by' = [locked_by EXCEPT ![m] = NoThread]
          /\ nlock' = [nlock EXCEPT ![m] = 0]
      BY <1>t, <2>3 DEF Unlock, pre_unlock, Report, Goto
    <3> QED
      BY <1>t, <3>1 DEF LockCountInv, Between
  <2>4. CASE WillLock(t) \/ WillUnlock(t)
    BY <1>t, <2>4 DEF WillLock, WillUnlock, Goto, LockCountInv, Between
  <2>5. CASE WillLockDies(t) \/ LockedDies(t)
    BY <1>0, <2>5 DEF WillLockDies, LockedDies, Die
  <2>6. CASE Acquire(t)
    BY <1>t, <2>6 DEF Acquire, Report, Goto, LockCountInv, Between
  <2>7. CASE AcquireThrows(t)
    BY <1>t, <2>7 DEF AcquireThrows, Return, Goto, LockCountInv, Between
  <2>8. CASE Locked(t) \/ PostLock(t)
    <3>1. /\ pc[t] \in {"locked", "post_lock"} /\ want[t] \in Mutex /\ owner[want[t]] = t
          /\ UNCHANGED owner
          /\ pc' = [pc EXCEPT ![t] = "idle"]
          /\ want' = [want EXCEPT ![t] = NoMutex]
          /\ locked_by' = [locked_by EXCEPT ![want[t]] = t]
          /\ nlock' = [nlock EXCEPT ![want[t]] = 1]
      BY <1>t, <2>8 DEF Locked, PostLock, post_lock, Return, Goto
    <3> QED
      BY <1>t, <3>1 DEF LockCountInv, Between
  <2>9. CASE UnlockImpl(t)
    <3>1. /\ pc[t] = "unlock" /\ want[t] \in Mutex /\ owner[want[t]] = t
          /\ UNCHANGED <<nlock, locked_by>>
          /\ pc' = [pc EXCEPT ![t] = "idle"]
          /\ want' = [want EXCEPT ![t] = NoMutex]
          /\ owner' = [owner EXCEPT ![want[t]] = NoThread]
      BY <1>t, <2>9 DEF UnlockImpl, Return, Goto
    <3>2. nlock[want[t]] = 0
      BY <3>1 DEF LockCountInv, Between
    <3> QED
      BY <1>t, <3>1, <3>2 DEF LockCountInv, Between
  <2> QED
    BY <1>3, <2>1, <2>2, <2>3, <2>4, <2>5, <2>6, <2>7, <2>8, <2>9 DEF ThreadStep
<1> QED
  BY <1>1, <1>2, <1>3 DEF Next

(* The assertions on nlock and locked_by of _post_lock, _pre_unlock and        *)
(* ~mutex_debug_impl hold: no thread can read a count that another one's lock *)
(* or unlock has left.  (lockdep's own assertions are not among them.)       *)
THEOREM AssertionsNeverFail == Spec => []AssertsHold
<1>1. Init => LockCountInv
  <2> SUFFICES ASSUME Init PROVE LockCountInv
    OBVIOUS
  <2>1. /\ owner = [m \in Mutex |-> NoThread] /\ nlock = [m \in Mutex |-> 0]
    BY DEF Init
  <2> QED
    BY <2>1, NoThreadAssumption DEF LockCountInv
<1>2. IInv /\ LockCountInv /\ [Next]_vars => LockCountInv'
  BY LockCountStep
<1>3. IInv /\ LockCountInv /\ NeverGetsHere => AssertsHold
  BY DEF LockCountInv, Between, AssertsHold, Unused, IInv, Base, Existing
<1> QED
  BY <1>1, <1>2, <1>3, Bookkeeping, UnregisterKnowsId, PTL DEF Spec
=============================================================================

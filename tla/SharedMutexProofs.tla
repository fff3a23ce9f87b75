------------------------- MODULE SharedMutexProofs -------------------------
(***************************************************************************)
(* Proofs about shared_mutex_debug_impl, as MCParts has it, for any number *)
(* of threads, rwlocks, classes and ids: its assertions never fail, and    *)
(* lockdep lets no deadlock of readers and writers pass that it can know   *)
(* of.  An invariant is one of the behaviours of that part.                *)
(***************************************************************************)
EXTENDS MCParts, Sequences, FiniteSets, FiniteSetTheorems, TLAPS

LEMMA SharedMoves ==
  ASSUME [Next]_vars
  PROVE  part' = part /\ (part = "shared" => [Shared!Next]_(Shared!vars))
<1>1. CASE UNCHANGED vars
  BY <1>1 DEF vars, rwmutex, Shared!vars, Shared!lockdep_vars, Shared!rw_vars
<1>2. CASE Next
  BY <1>2 DEF Next, GeometryOnly, FatalOnly, QueueOnly, ContextOnly, SearchOnly, SharedOnly
<1> QED
  BY <1>1, <1>2

----------------------------------------------------------------------------
(* Types; a thread in a call is busy with an rwlock that exists.  (That no     *)
(* count of readers is negative belongs to the counts, below.)               *)

Places == {"idle", "will_lock", "acquire", "locked", "try_lock_shared", "will_unlock", "unlock"}

SharedTypes ==
  /\ lock_ids \in [LockName -> Shared!Id \cup {Shared!NoId}]
  /\ free_ids \in SUBSET Shared!Id
  /\ held \in [Thread -> SUBSET Shared!Id]
  /\ follows \in SUBSET (Shared!Id \X Shared!Id)
  /\ constructed \in SUBSET Mutex
  /\ id \in [Mutex -> Shared!Id \cup {Shared!NoId}]
  /\ arg \in [Thread -> Shared!Id \cup {Shared!NoId}]
  /\ writer \in [Mutex -> Thread \cup {Shared!NoThread}]
  /\ readers \in [Mutex -> [Thread -> Int]]
  /\ nlock \in [Mutex -> Nat] /\ nrlock \in [Mutex -> Nat]
  /\ locked_by \in [Mutex -> Thread \cup {Shared!NoThread}]
  /\ pc \in [Thread -> Places]
  /\ want \in [Thread -> Mutex \cup {Shared!NoMutex}]
  /\ mode \in [Thread -> {"none", "lock", "lock_shared", "try_lock_shared"}]
  /\ \A th \in Thread : IF pc[th] = "idle" THEN want[th] = Shared!NoMutex
                        ELSE want[th] \in constructed
  /\ \A th \in Thread : pc[th] = "try_lock_shared" => mode[th] = "try_lock_shared"

LEMMA IdsAreIds ==
  ASSUME Shared!SharedAssumption
  PROVE  \A i \in Shared!Id : i # Shared!NoId
<1>1. MaxLocks \in Nat
  BY DEF Shared!SharedAssumption
<1> QED
  BY <1>1 DEF Shared!Id, Shared!NoId

(* Registration gives a name an id and leaves the ids of other names.        *)
LEMMA RegisterFacts ==
  ASSUME SharedTypes, NEW name \in LockName, NEW i \in Shared!Id, Shared!Register(name, i)
  PROVE  /\ lock_ids' \in [LockName -> Shared!Id \cup {Shared!NoId}]
         /\ free_ids' \in SUBSET Shared!Id
         /\ \A n \in LockName : lock_ids[n] # Shared!NoId => lock_ids'[n] = lock_ids[n]
         /\ lock_ids'[name] = i
<1>1. i \in Shared!IdsFor(name)
  BY DEF Shared!Register
<1>2. CASE lock_ids[name] = Shared!NoId
  <2>1. lock_ids' = [lock_ids EXCEPT ![name] = i] /\ free_ids' = free_ids \ {i}
    BY <1>2 DEF Shared!Register
  <2> QED
    BY <1>2, <2>1 DEF SharedTypes
<1>3. CASE lock_ids[name] # Shared!NoId
  <2>1. lock_ids' = lock_ids /\ free_ids' = free_ids /\ i = lock_ids[name]
    BY <1>1, <1>3 DEF Shared!Register, Shared!IdsFor
  <2> QED
    BY <2>1 DEF SharedTypes
<1> QED
  BY <1>2, <1>3

LEMMA RegisterIfNewFacts ==
  ASSUME SharedTypes, NEW name \in LockName, NEW x \in Shared!Id \cup {Shared!NoId},
         NEW i \in Shared!Id, Shared!RegisterIfNew(name, x, i)
  PROVE  /\ lock_ids' \in [LockName -> Shared!Id \cup {Shared!NoId}]
         /\ free_ids' \in SUBSET Shared!Id
         /\ \A n \in LockName : lock_ids[n] # Shared!NoId => lock_ids'[n] = lock_ids[n]
         /\ IF x = Shared!NoId THEN lock_ids'[name] = i ELSE i = x /\ lock_ids' = lock_ids
<1>1. CASE x = Shared!NoId
  BY <1>1, RegisterFacts DEF Shared!RegisterIfNew
<1>2. CASE x # Shared!NoId
  BY <1>2 DEF Shared!RegisterIfNew, Shared!registry, SharedTypes
<1> QED
  BY <1>1, <1>2

LEMMA ExceptType ==
  ASSUME NEW S, NEW T, NEW f \in [S -> T], NEW x \in S, NEW v \in T
  PROVE  [f EXCEPT ![x] = v] \in [S -> T]
OBVIOUS

LEMMA ExceptTwice ==
  ASSUME NEW S, NEW R, NEW T, NEW f \in [S -> [R -> T]], NEW x \in S, NEW y \in R, NEW v \in T
  PROVE  [f EXCEPT ![x][y] = v] \in [S -> [R -> T]]
OBVIOUS

LEMMA TypesStep ==
  ASSUME Shared!SharedAssumption, SharedTypes, [Shared!Next]_(Shared!vars)
  PROVE  SharedTypes'
<1>a. /\ Group \in [Mutex -> LockName] /\ "" \in LockName
      /\ Shared!NoThread \notin Thread /\ Shared!NoMutex \notin Mutex
  BY DEF Shared!SharedAssumption
<1> USE DEF Places, Shared!rwlock, Shared!track, Shared!lockdep_vars, Shared!registry,
            Shared!Goto
<1>1. CASE Shared!GlobalInit
  <2>1. free_ids' \in SUBSET Shared!Id
    BY <1>1 DEF Shared!GlobalInit, Shared!lockdep_global_init, Shared!free_at_start,
                Shared!initially_free, SharedTypes
  <2> QED
    BY <1>1, <2>1 DEF Shared!GlobalInit, Shared!lockdep_global_init, Shared!rw_vars, SharedTypes
<1>2. ASSUME NEW m \in Mutex, Shared!Construct(m) PROVE SharedTypes'
  <2>1. constructed' = constructed \cup {m}
        /\ UNCHANGED <<held, follows, writer, readers, nlock, nrlock, locked_by, pc, want,
                       mode, arg>>
    BY <1>2 DEF Shared!Construct
  <2>2. CASE g_lockdep
    <3>1. PICK i \in Shared!Id : Shared!Register("", i) /\ id' = [id EXCEPT ![m] = i]
      BY <1>2, <2>2 DEF Shared!Construct
    <3>2. lock_ids' \in [LockName -> Shared!Id \cup {Shared!NoId}] /\ free_ids' \in SUBSET Shared!Id
      BY <1>a, <3>1, RegisterFacts
    <3> QED
      BY <2>1, <3>1, <3>2 DEF SharedTypes
  <2>3. CASE ~ g_lockdep
    BY <1>2, <2>1, <2>3 DEF Shared!Construct, SharedTypes
  <2> QED
    BY <2>2, <2>3
<1>3. ASSUME NEW th \in Thread, NEW m \in Mutex, Shared!Lock(th, m) PROVE SharedTypes'
  <2>1. /\ pc[th] = "idle" /\ m \in constructed
        /\ want' = [want EXCEPT ![th] = m] /\ arg' = [arg EXCEPT ![th] = id[m]]
        /\ \E how \in {"lock", "lock_shared"} : mode' = [mode EXCEPT ![th] = how]
        /\ pc' = [pc EXCEPT ![th] = "will_lock"]
        /\ UNCHANGED <<lock_ids, free_ids, held, follows, constructed, id, writer, readers,
                       nlock, nrlock, locked_by>>
    BY <1>3 DEF Shared!Lock, Shared!Call
  <2> QED
    BY <2>1 DEF SharedTypes
<1>4. ASSUME NEW th \in Thread, NEW m \in Mutex, Shared!TryLock(th, m) PROVE SharedTypes'
  BY <1>4 DEF Shared!TryLock, Shared!Call, Shared!Take, SharedTypes
<1>5. ASSUME NEW th \in Thread, NEW m \in Mutex, Shared!TryLockShared(th, m) PROVE SharedTypes'
  BY <1>5 DEF Shared!TryLockShared, Shared!Call, SharedTypes
<1>6. ASSUME NEW th \in Thread, NEW m \in Mutex, Shared!Unlock(th, m) PROVE SharedTypes'
  <2>1. \/ nlock[m] = 1 /\ nlock' = [nlock EXCEPT ![m] = @ - 1] /\ nrlock' = nrlock
           /\ locked_by' = [locked_by EXCEPT ![m] = Shared!NoThread]
        \/ nrlock[m] > 0 /\ nrlock' = [nrlock EXCEPT ![m] = @ - 1] /\ nlock' = nlock
           /\ locked_by' = locked_by
    BY <1>6 DEF Shared!Unlock, Shared!pre_unlock, Shared!pre_unlock_shared
  <2>2. nlock' \in [Mutex -> Nat] /\ nrlock' \in [Mutex -> Nat]
        /\ locked_by' \in [Mutex -> Thread \cup {Shared!NoThread}]
    <3>1. nlock[m] = 1 => nlock[m] - 1 \in Nat
      OBVIOUS
    <3>2. nrlock[m] \in Nat
      BY DEF SharedTypes
    <3>3. nrlock[m] > 0 => nrlock[m] - 1 \in Nat
      BY <3>2
    <3>4. /\ nlock \in [Mutex -> Nat] /\ nrlock \in [Mutex -> Nat]
          /\ locked_by \in [Mutex -> Thread \cup {Shared!NoThread}]
          /\ Shared!NoThread \in Thread \cup {Shared!NoThread}
      BY DEF SharedTypes
    <3> QED
      BY <2>1, <3>1, <3>3, <3>4, ExceptType
  <2>3. PICK how \in {"lock", "lock_shared"} : Shared!Call(th, m, how, "will_unlock")
    BY <1>6 DEF Shared!Unlock
  <2>4. UNCHANGED <<lock_ids, free_ids, held, follows, constructed, id, writer, readers>>
    BY <1>6 DEF Shared!Unlock
  <2> QED
    BY <2>2, <2>3, <2>4 DEF Shared!Call, SharedTypes
<1>7. ASSUME NEW th \in Thread, Shared!WillLock(th) PROVE SharedTypes'
  <2>1. PICK i \in Shared!Id :
          /\ Shared!lockdep_will_lock(Group[want[th]], arg[th], th, i)
          /\ id' = [id EXCEPT ![want[th]] = i]
    BY <1>7 DEF Shared!WillLock
  <2>2. /\ want[th] \in Mutex /\ arg[th] \in Shared!Id \cup {Shared!NoId}
        /\ Group[want[th]] \in LockName /\ i \in Shared!Id
    <3>1. want[th] \in Mutex
      BY <1>7 DEF Shared!WillLock, SharedTypes
    <3>2. arg[th] \in Shared!Id \cup {Shared!NoId}
      BY DEF SharedTypes
    <3> QED
      BY <1>a, <2>1, <3>1, <3>2
  <2>3. lock_ids' \in [LockName -> Shared!Id \cup {Shared!NoId}] /\ free_ids' \in SUBSET Shared!Id
    BY <2>1, <2>2, RegisterIfNewFacts DEF Shared!lockdep_will_lock
  <2>4. follows' \in SUBSET (Shared!Id \X Shared!Id) /\ held' = held
    BY <2>1, <2>2 DEF Shared!lockdep_will_lock, Shared!will_lock_edges, SharedTypes
  <2> QED
    BY <1>7, <2>1, <2>2, <2>3, <2>4 DEF Shared!WillLock, SharedTypes
<1>8. ASSUME NEW th \in Thread, Shared!WillLockDies(th) PROVE SharedTypes'
  BY <1>8 DEF Shared!WillLockDies, Shared!Die, SharedTypes
<1>9. ASSUME NEW th \in Thread, Shared!Acquire(th) PROVE SharedTypes'
  <2>1. want[th] \in Mutex
    BY <1>9 DEF Shared!Acquire, Shared!Waits, SharedTypes
  <2>2. /\ writer' \in [Mutex -> Thread \cup {Shared!NoThread}]
        /\ readers' \in [Mutex -> [Thread -> Int]]
    <3>1. readers[want[th]][th] + 1 \in Int
      BY <2>1 DEF SharedTypes
    <3>2. \/ writer' = [writer EXCEPT ![want[th]] = th] /\ readers' = readers
          \/ writer' = writer
             /\ readers' = [readers EXCEPT ![want[th]][th] = readers[want[th]][th] + 1]
      BY <1>9, <2>1 DEF Shared!Acquire, Shared!Take, SharedTypes
    <3>3. writer \in [Mutex -> Thread \cup {Shared!NoThread}]
          /\ readers \in [Mutex -> [Thread -> Int]]
          /\ th \in Thread \cup {Shared!NoThread}
          /\ Shared!NoThread \in Thread \cup {Shared!NoThread}
      BY DEF SharedTypes
    <3>4. \A v \in Int : [readers EXCEPT ![want[th]][th] = v] \in [Mutex -> [Thread -> Int]]
      BY <2>1, <3>3, ExceptTwice
    <3>5. readers' \in [Mutex -> [Thread -> Int]]
      BY <3>1, <3>2, <3>3, <3>4
    <3> QED
      BY <2>1, <3>2, <3>3, <3>5, ExceptType
  <2>3. arg' \in [Thread -> Shared!Id \cup {Shared!NoId}] /\ pc' = [pc EXCEPT ![th] = "locked"]
    BY <1>9, <2>1 DEF Shared!Acquire, SharedTypes
  <2> QED
    BY <1>9, <2>1, <2>2, <2>3 DEF Shared!Acquire, Shared!Waits, SharedTypes
<1>10. ASSUME NEW th \in Thread, Shared!AcquireThrows(th) PROVE SharedTypes'
  BY <1>10 DEF Shared!AcquireThrows, Shared!Return, SharedTypes
<1>11. ASSUME NEW th \in Thread, Shared!Locked(th) PROVE SharedTypes'
  <2>1. PICK i \in Shared!Id :
          /\ Shared!lockdep_locked(Group[want[th]], arg[th], th, i)
          /\ id' = [id EXCEPT ![want[th]] = i]
    BY <1>11 DEF Shared!Locked
  <2>2. /\ want[th] \in Mutex /\ arg[th] \in Shared!Id \cup {Shared!NoId}
        /\ Group[want[th]] \in LockName /\ i \in Shared!Id
    <3>1. want[th] \in Mutex
      BY <1>11 DEF Shared!Locked, SharedTypes
    <3>2. arg[th] \in Shared!Id \cup {Shared!NoId}
      BY DEF SharedTypes
    <3> QED
      BY <1>a, <2>1, <3>1, <3>2
  <2>3. lock_ids' \in [LockName -> Shared!Id \cup {Shared!NoId}] /\ free_ids' \in SUBSET Shared!Id
    BY <2>1, <2>2, RegisterIfNewFacts DEF Shared!lockdep_locked
  <2>4. held' \in [Thread -> SUBSET Shared!Id] /\ follows' = follows
    BY <2>1, <2>2 DEF Shared!lockdep_locked, SharedTypes
  <2>5. /\ nlock' \in [Mutex -> Nat] /\ nrlock' \in [Mutex -> Nat]
        /\ locked_by' \in [Mutex -> Thread \cup {Shared!NoThread}]
    <3>1. nlock[want[th]] + 1 \in Nat /\ nrlock[want[th]] + 1 \in Nat
      BY <2>2 DEF SharedTypes
    <3>2. \/ nlock' = [nlock EXCEPT ![want[th]] = nlock[want[th]] + 1] /\ nrlock' = nrlock
             /\ locked_by' = [locked_by EXCEPT ![want[th]] = th]
          \/ nrlock' = [nrlock EXCEPT ![want[th]] = nrlock[want[th]] + 1] /\ nlock' = nlock
             /\ locked_by' = locked_by
      BY <1>11, <2>2 DEF Shared!Locked, Shared!post_lock, Shared!post_lock_shared, SharedTypes
    <3>3. /\ nlock \in [Mutex -> Nat] /\ nrlock \in [Mutex -> Nat]
          /\ locked_by \in [Mutex -> Thread \cup {Shared!NoThread}]
          /\ th \in Thread \cup {Shared!NoThread}
      BY DEF SharedTypes
    <3> QED
      BY <2>2, <3>1, <3>2, <3>3, ExceptType
  <2>6. /\ UNCHANGED <<constructed, writer, readers>>
        /\ pc' = [pc EXCEPT ![th] = "idle"] /\ want' = [want EXCEPT ![th] = Shared!NoMutex]
        /\ mode' = [mode EXCEPT ![th] = "none"] /\ arg' = [arg EXCEPT ![th] = Shared!NoId]
    BY <1>11 DEF Shared!Locked, Shared!Return
  <2> QED
    BY <2>1, <2>2, <2>3, <2>4, <2>5, <2>6 DEF SharedTypes
<1>12. ASSUME NEW th \in Thread, Shared!WillUnlockFirst(th) \/ Shared!WillUnlock(th)
       PROVE  SharedTypes'
  <2>1. want[th] \in Mutex /\ pc[th] \in {"try_lock_shared", "will_unlock"}
    BY <1>12 DEF Shared!WillUnlockFirst, Shared!WillUnlock, SharedTypes
  <2>2. held' \in [Thread -> SUBSET Shared!Id] /\ follows' = follows
        /\ lock_ids' = lock_ids /\ free_ids' = free_ids
    BY <1>12 DEF Shared!WillUnlockFirst, Shared!WillUnlock, Shared!lockdep_will_unlock, SharedTypes
  <2>3. id' \in [Mutex -> Shared!Id \cup {Shared!NoId}]
    BY <1>12, <2>1 DEF Shared!WillUnlockFirst, Shared!WillUnlock, SharedTypes
  <2> QED
    BY <1>12, <2>1, <2>2, <2>3 DEF Shared!WillUnlockFirst, Shared!WillUnlock, SharedTypes
<1>13. ASSUME NEW th \in Thread, Shared!UnlockImpl(th) PROVE SharedTypes'
  <2>1. want[th] \in Mutex
    BY <1>13 DEF Shared!UnlockImpl, SharedTypes
  <2>2. /\ writer' \in [Mutex -> Thread \cup {Shared!NoThread}]
        /\ readers' \in [Mutex -> [Thread -> Int]]
    <3>1. readers[want[th]][th] - 1 \in Int
      BY <2>1 DEF SharedTypes
    <3>2. \/ writer' = [writer EXCEPT ![want[th]] = Shared!NoThread] /\ readers' = readers
          \/ writer' = writer
             /\ readers' = [readers EXCEPT ![want[th]][th] = readers[want[th]][th] - 1]
      BY <1>13, <2>1 DEF Shared!UnlockImpl, SharedTypes
    <3>3. writer \in [Mutex -> Thread \cup {Shared!NoThread}]
          /\ readers \in [Mutex -> [Thread -> Int]]
          /\ th \in Thread \cup {Shared!NoThread}
          /\ Shared!NoThread \in Thread \cup {Shared!NoThread}
      BY DEF SharedTypes
    <3>4. \A v \in Int : [readers EXCEPT ![want[th]][th] = v] \in [Mutex -> [Thread -> Int]]
      BY <2>1, <3>3, ExceptTwice
    <3>5. readers' \in [Mutex -> [Thread -> Int]]
      BY <3>1, <3>2, <3>3, <3>4
    <3> QED
      BY <2>1, <3>2, <3>3, <3>5, ExceptType
  <2> QED
    BY <1>13, <2>1, <2>2 DEF Shared!UnlockImpl, Shared!Return, SharedTypes
<1>14. CASE UNCHANGED Shared!vars
  BY <1>14 DEF Shared!vars, Shared!rw_vars, SharedTypes
<1> QED
  BY <1>1, <1>2, <1>3, <1>4, <1>5, <1>6, <1>7, <1>8, <1>9, <1>10, <1>11, <1>12, <1>13, <1>14
     DEF Shared!Next, Shared!ThreadStep

----------------------------------------------------------------------------
(* The order of classes.                                                     *)

(* The class of an rwlock does not change: it has been registered at the      *)
(* construction, and the id never leaves it, ...                             *)
Given(m) ==
  /\ id[m] # Shared!NoId
  /\ \A th \in Thread : want[th] = m => arg[th] = id[m]

(* ... or it is registered under its group; then the id may be lost again     *)
(* (by try_lock_shared), but no other takes its place.                       *)
Grouped(m) ==
  /\ id[m] \in {Shared!NoId, lock_ids[Group[m]]}
  /\ \A th \in Thread : want[th] = m => arg[th] \in {Shared!NoId, lock_ids[Group[m]]}

Is(m, i) == (Given(m) /\ i = id[m]) \/ (Grouped(m) /\ i = lock_ids[Group[m]])

Waiting(th) == pc[th] = "acquire" /\ mode[th] # "try_lock_shared"

(* What a thread holds comes before what it waits for.                       *)
Ordered(th) ==
  \E i \in Shared!Id : Is(want[th], i) /\ \A h \in held[th] : <<h, i>> \in follows

OrderInv ==
  /\ \A m \in constructed : Given(m) \/ Grouped(m)
  /\ \A m \in Mutex \ constructed : id[m] = Shared!NoId
  /\ \A th \in Thread : Waiting(th) => Ordered(th)
  /\ Shared!Acyclic(follows)

(* A step keeps the class of m.                                              *)
Grows == \A n \in LockName : lock_ids[n] # Shared!NoId => lock_ids'[n] = lock_ids[n]
Same(m) == (Given(m) => Given(m)' /\ id'[m] = id[m]) /\ (Grouped(m) => Grouped(m)')

LEMMA ClassesStay ==
  ASSUME Shared!SharedAssumption, SharedTypes, OrderInv, Grows, NEW th \in Thread,
         \A m \in constructed :
           \/ id'[m] = id[m]
           \/ want[th] = m /\ id'[m] = arg[th]
           \/ want[th] = m /\ arg[th] = Shared!NoId /\ id'[m] = lock_ids'[Group[m]],
         \A u \in Thread \ {th} : want'[u] = want[u] /\ arg'[u] = arg[u],
         \/ want'[th] = want[th] /\ arg'[th] = arg[th]
         \/ want'[th] \in Mutex /\ arg'[th] = id[want'[th]]
         \/ want'[th] = Shared!NoMutex
  PROVE  \A m \in constructed : Same(m)
<1> SUFFICES ASSUME NEW m \in constructed PROVE Same(m)
  OBVIOUS
<1>1. m \in Mutex /\ m # Shared!NoMutex /\ Group[m] \in LockName
  <2>1. m \in Mutex
    BY DEF SharedTypes
  <2>2. Group \in [Mutex -> LockName] /\ Shared!NoMutex \notin Mutex
    BY DEF Shared!SharedAssumption
  <2> QED
    BY <2>1, <2>2
<1>2. ASSUME Given(m) PROVE Given(m)' /\ id'[m] = id[m]
  <2>1. id'[m] = id[m]
    BY <1>2 DEF Given
  <2>2. \A u \in Thread : want'[u] = m => arg'[u] = id[m]
    BY <1>1, <1>2 DEF Given
  <2> QED
    BY <1>2, <2>1, <2>2 DEF Given
<1>3. ASSUME Grouped(m) PROVE Grouped(m)'
  <2> DEFINE c == lock_ids[Group[m]]
             d == lock_ids'[Group[m]]
  <2>1. c # Shared!NoId => d = c
    BY <1>1 DEF Grows
  <2>2. id'[m] \in {Shared!NoId, d}
    BY <1>3, <2>1 DEF Grouped
  <2>3. \A u \in Thread : want'[u] = m => arg'[u] \in {Shared!NoId, d}
    <3>1. \A u \in Thread : want'[u] = m => arg'[u] \in {Shared!NoId, c}
      BY <1>1, <1>3 DEF Grouped
    <3> QED
      BY <2>1, <3>1
  <2> QED
    BY <2>2, <2>3 DEF Grouped
<1> QED
  BY <1>2, <1>3 DEF Same

(* A step that keeps the classes, loses no edge and closes no cycle keeps the *)
(* invariant, if its thread does not come to wait out of order.              *)
LEMMA OrderStays ==
  ASSUME Shared!SharedAssumption, SharedTypes, OrderInv, NEW th \in Thread, Grows,
         \A m \in constructed : Same(m), constructed' = constructed,
         \A m \in Mutex \ constructed : id'[m] = id[m],
         follows \subseteq follows', Shared!Acyclic(follows)',
         \A u \in Thread \ {th} : /\ pc'[u] = pc[u] /\ mode'[u] = mode[u]
                                  /\ want'[u] = want[u] /\ held'[u] = held[u],
         Waiting(th)' => Ordered(th)'
  PROVE  OrderInv'
<1>1. \A m \in constructed' : Given(m)' \/ Grouped(m)'
  BY DEF OrderInv, Same
<1>2. ASSUME NEW u \in Thread, Waiting(u)' PROVE Ordered(u)'
  <2>1. CASE u = th
    BY <1>2, <2>1
  <2>2. CASE u # th
    <3>1. /\ Waiting(u) /\ want'[u] = want[u] /\ held'[u] = held[u]
          /\ want[u] \in constructed /\ want[u] \in Mutex
      BY <1>2, <2>2 DEF Waiting, SharedTypes
    <3>2. PICK i \in Shared!Id : Is(want[u], i) /\ \A h \in held[u] : <<h, i>> \in follows
      BY <3>1 DEF OrderInv, Ordered
    <3>3. i # Shared!NoId /\ Group[want[u]] \in LockName
      <4>1. Group \in [Mutex -> LockName]
        BY DEF Shared!SharedAssumption
      <4> QED
        BY <3>1, <3>2, <4>1, IdsAreIds
    <3>4. Is(want[u], i)'
      <4>1. CASE Given(want[u]) /\ i = id[want[u]]
        BY <3>1, <4>1 DEF Same, Is
      <4>2. CASE Grouped(want[u]) /\ i = lock_ids[Group[want[u]]]
        <5>1. Grouped(want[u])' /\ i = lock_ids'[Group[want[u]]]
          BY <3>1, <3>3, <4>2 DEF Same, Grows
        <5> QED
          BY <3>1, <5>1 DEF Is
      <4> QED
        BY <3>2, <4>1, <4>2 DEF Is
    <3> QED
      BY <3>1, <3>2, <3>4 DEF Ordered
  <2> QED
    BY <2>1, <2>2
<1> QED
  BY <1>1, <1>2 DEF OrderInv

(* Edges from the classes held to one that reaches none of them make no       *)
(* cycle: a cycle through i would stay in what i reaches.                     *)
LEMMA AddingEdgesKeepsAcyclic ==
  ASSUME NEW F \in SUBSET (Shared!Id \X Shared!Id), NEW i \in Shared!Id,
         NEW H \in SUBSET Shared!Id, Shared!Acyclic(F), i \notin H,
         \A h \in H : <<h, i>> \in F \/ ~ Shared!Reaches(F, i, h)
  PROVE  Shared!Acyclic(F \cup {<<h, i>> : h \in H})
<1> DEFINE G == F \cup {<<h, i>> : h \in H}
           R == {x \in Shared!Id : Shared!Reaches(F, i, x)}
<1> SUFFICES ASSUME NEW S \in SUBSET Shared!Id, S # {}
             PROVE  \E x \in S : \A y \in S : <<x, y>> \notin G
  BY DEF Shared!Acyclic
<1>1. i \in R
  BY DEF Shared!Reaches
<1>2. ASSUME NEW x \in R, NEW y \in Shared!Id, <<x, y>> \in F PROVE y \in R
  BY <1>2 DEF Shared!Reaches, Shared!Closed
<1>3. CASE S \cap R # {}
  <2>1. PICK x \in S \cap R : \A y \in S \cap R : <<x, y>> \notin F
    BY <1>3 DEF Shared!Acyclic
  <2>2. ASSUME NEW y \in S PROVE <<x, y>> \notin G
    <3>1. <<x, y>> \notin F
      BY <2>1, <1>2
    <3>2. ~ (x \in H /\ y = i)
      BY <3>1, <2>1
    <3> QED
      BY <3>1, <3>2
  <2> QED
    BY <2>1, <2>2
<1>4. CASE S \cap R = {}
  <2>1. PICK x \in S : \A y \in S : <<x, y>> \notin F
    BY DEF Shared!Acyclic
  <2>2. \A y \in S : <<x, y>> \notin G
    BY <1>1, <1>4, <2>1
  <2> QED
    BY <2>2
<1> QED
  BY <1>3, <1>4

(* Each action keeps the invariant.                                          *)
LEMMA OrderStep ==
  ASSUME Shared!SharedAssumption, SharedTypes, OrderInv, [Shared!Next]_(Shared!vars)
  PROVE  OrderInv'
<1> USE DEF Shared!rwlock, Shared!track, Shared!lockdep_vars, Shared!registry, Shared!Goto
<1>a. /\ Group \in [Mutex -> LockName] /\ "" \in LockName /\ Shared!NoMutex \notin Mutex
  BY DEF Shared!SharedAssumption
<1>i. \A i \in Shared!Id : i # Shared!NoId
  BY IdsAreIds
<1>g. lock_ids' = lock_ids => Grows
  BY DEF Grows
<1>0. ASSUME UNCHANGED <<lock_ids, id, constructed, follows, held, pc, mode, want, arg>>
      PROVE  OrderInv'
  BY <1>0 DEF OrderInv, Given, Grouped, Is, Waiting, Ordered, Shared!Acyclic
<1>1. CASE Shared!GlobalInit
  BY <1>0, <1>1 DEF Shared!GlobalInit, Shared!lockdep_global_init, Shared!rw_vars
<1>2. ASSUME NEW m \in Mutex, Shared!Construct(m) PROVE OrderInv'
  <2>1. /\ m \notin constructed /\ constructed' = constructed \cup {m}
        /\ UNCHANGED <<follows, held, pc, want, mode, arg>>
    BY <1>2 DEF Shared!Construct
  <2>2. /\ Grows /\ \A n \in Mutex \ {m} : id'[n] = id[n]
        /\ id'[m] \in Shared!Id \/ (id'[m] = Shared!NoId)
    <3>1. CASE g_lockdep
      <4>1. PICK i \in Shared!Id : Shared!Register("", i) /\ id' = [id EXCEPT ![m] = i]
        BY <1>2, <3>1 DEF Shared!Construct
      <4> QED
        BY <1>a, <4>1, RegisterFacts DEF Grows, SharedTypes
    <3>2. CASE ~ g_lockdep
      <4>1. id' = id /\ lock_ids' = lock_ids
        BY <1>2, <3>2 DEF Shared!Construct
      <4> QED
        BY <1>g, <2>1, <4>1 DEF OrderInv
    <3> QED
      BY <3>1, <3>2
  <2>3. \A n \in constructed : Same(n)
    <3>1. \A n \in constructed : id'[n] = id[n] /\ Group[n] \in LockName
      BY <1>a, <2>1, <2>2 DEF SharedTypes
    <3> QED
      BY <2>1, <2>2, <3>1 DEF Same, Given, Grouped, Grows
  <2>4. Given(m)' \/ Grouped(m)'
    <3>1. \A th \in Thread : want[th] # m
      BY <1>a, <2>1 DEF SharedTypes
    <3> QED
      BY <1>i, <2>1, <2>2, <3>1 DEF Given, Grouped
  <2>5. \A n \in constructed' : Given(n)' \/ Grouped(n)'
    BY <2>1, <2>3, <2>4 DEF OrderInv, Same
  <2>6. ASSUME NEW th \in Thread, Waiting(th)' PROVE Ordered(th)'
    <3>1. Waiting(th) /\ want[th] \in constructed /\ want[th] \in Mutex
      BY <2>1, <2>6 DEF Waiting, SharedTypes
    <3>2. PICK i \in Shared!Id : Is(want[th], i) /\ \A h \in held[th] : <<h, i>> \in follows
      BY <3>1 DEF OrderInv, Ordered
    <3>3. Is(want[th], i)'
      <4>1. CASE Given(want[th]) /\ i = id[want[th]]
        BY <2>1, <2>3, <3>1, <4>1 DEF Same, Is
      <4>2. CASE Grouped(want[th]) /\ i = lock_ids[Group[want[th]]]
        <5>1. Grouped(want[th])' /\ i = lock_ids'[Group[want[th]]]
          <6>1. Same(want[th]) /\ Group[want[th]] \in LockName /\ i # Shared!NoId
            BY <1>a, <1>i, <2>3, <3>1, <3>2
          <6>2. lock_ids'[Group[want[th]]] = lock_ids[Group[want[th]]]
            BY <2>2, <4>2, <6>1 DEF Grows
          <6> QED
            BY <2>1, <4>2, <6>1, <6>2 DEF Same
        <5> QED
          BY <2>1, <5>1 DEF Is
      <4> QED
        BY <3>2, <4>1, <4>2 DEF Is
    <3> QED
      BY <2>1, <3>2, <3>3 DEF Ordered
  <2>7. \A n \in Mutex \ constructed' : id'[n] = Shared!NoId
    BY <2>1, <2>2 DEF OrderInv
  <2>8. Shared!Acyclic(follows')
    BY <2>1 DEF OrderInv
  <2> QED
    BY <2>5, <2>6, <2>7, <2>8 DEF OrderInv
<1>c. ASSUME NEW th \in Thread, NEW m \in Mutex, NEW how, NEW l, l # "acquire",
             Shared!Call(th, m, how, l), UNCHANGED <<lock_ids, id, constructed, follows, held>>
      PROVE  OrderInv'
  <2>1. /\ want' = [want EXCEPT ![th] = m] /\ arg' = [arg EXCEPT ![th] = id[m]]
        /\ pc' = [pc EXCEPT ![th] = l] /\ mode' = [mode EXCEPT ![th] = how]
    BY <1>c DEF Shared!Call
  <2>2. /\ want'[th] = m /\ arg'[th] = id[m] /\ pc'[th] # "acquire"
        /\ \A u \in Thread \ {th} : /\ pc'[u] = pc[u] /\ mode'[u] = mode[u]
                                    /\ want'[u] = want[u] /\ held'[u] = held[u] /\ arg'[u] = arg[u]
    BY <1>c, <2>1 DEF SharedTypes
  <2>3. \A n \in constructed : Same(n)
    BY <1>c, <1>g, <2>2, ClassesStay
  <2>4. ~ Waiting(th)'
    BY <2>2 DEF Waiting
  <2> QED
    BY <1>c, <1>g, <2>2, <2>3, <2>4, OrderStays DEF OrderInv
<1>r. ASSUME NEW th \in Thread, Shared!Return(th), Grows, constructed' = constructed,
             \A n \in Mutex \ constructed : id'[n] = id[n],
             \A n \in constructed :
               \/ id'[n] = id[n]
               \/ want[th] = n /\ id'[n] = arg[th]
               \/ want[th] = n /\ arg[th] = Shared!NoId /\ id'[n] = lock_ids'[Group[n]],
             follows' = follows, \A u \in Thread \ {th} : held'[u] = held[u]
      PROVE  OrderInv'
  <2>1. /\ want' = [want EXCEPT ![th] = Shared!NoMutex]
        /\ arg' = [arg EXCEPT ![th] = Shared!NoId]
        /\ pc' = [pc EXCEPT ![th] = "idle"] /\ mode' = [mode EXCEPT ![th] = "none"]
    BY <1>r DEF Shared!Return
  <2>2. /\ want'[th] = Shared!NoMutex /\ pc'[th] # "acquire"
        /\ \A u \in Thread \ {th} : /\ pc'[u] = pc[u] /\ mode'[u] = mode[u]
                                    /\ want'[u] = want[u] /\ arg'[u] = arg[u]
    BY <2>1 DEF SharedTypes
  <2>3. \A n \in constructed : Same(n)
    BY <1>r, <2>2, ClassesStay
  <2>4. ~ Waiting(th)'
    BY <2>2 DEF Waiting
  <2> QED
    BY <1>r, <2>2, <2>3, <2>4, OrderStays DEF OrderInv
<1>3. ASSUME NEW th \in Thread, NEW m \in Mutex, Shared!Lock(th, m) PROVE OrderInv'
  BY <1>c, <1>3 DEF Shared!Lock
<1>4. ASSUME NEW th \in Thread, NEW m \in Mutex, Shared!TryLock(th, m) PROVE OrderInv'
  BY <1>c, <1>4 DEF Shared!TryLock
<1>5. ASSUME NEW th \in Thread, NEW m \in Mutex, Shared!TryLockShared(th, m) PROVE OrderInv'
  BY <1>c, <1>5 DEF Shared!TryLockShared
<1>6. ASSUME NEW th \in Thread, NEW m \in Mutex, Shared!Unlock(th, m) PROVE OrderInv'
  BY <1>c, <1>6 DEF Shared!Unlock
<1>7. ASSUME NEW th \in Thread, Shared!WillLock(th) PROVE OrderInv'
  <2>1. PICK i \in Shared!Id :
          /\ Shared!lockdep_will_lock(Group[want[th]], arg[th], th, i)
          /\ id' = [id EXCEPT ![want[th]] = i]
    BY <1>7 DEF Shared!WillLock
  <2>2. /\ UNCHANGED <<constructed, want, mode, arg, held>>
        /\ pc' = [pc EXCEPT ![th] = "acquire"] /\ pc[th] = "will_lock"
    BY <1>7, <2>1 DEF Shared!WillLock, Shared!lockdep_will_lock
  <2> DEFINE m == want[th]
             x == arg[th]
             c == Group[want[th]]
  <2>3. m \in constructed /\ m \in Mutex /\ x \in Shared!Id \cup {Shared!NoId} /\ c \in LockName
    <3>1. m \in constructed /\ m \in Mutex
      BY <2>2 DEF SharedTypes
    <3>2. x \in Shared!Id \cup {Shared!NoId}
      BY DEF SharedTypes
    <3> QED
      BY <1>a, <3>1, <3>2
  <2>4. /\ Grows
        /\ IF x = Shared!NoId THEN lock_ids'[c] = i ELSE i = x /\ lock_ids' = lock_ids
    BY <2>1, <2>3, RegisterIfNewFacts DEF Shared!lockdep_will_lock, Grows
  <2>5. id'[m] = i /\ \A n \in Mutex \ {m} : id'[n] = id[n]
    BY <2>1, <2>3 DEF SharedTypes
  <2>6. \A n \in constructed : Same(n)
    <3>1. \A n \in constructed :
            \/ id'[n] = id[n]
            \/ want[th] = n /\ id'[n] = arg[th]
            \/ want[th] = n /\ arg[th] = Shared!NoId /\ id'[n] = lock_ids'[Group[n]]
      <4>1. id'[m] = x \/ (x = Shared!NoId /\ id'[m] = lock_ids'[c])
        BY <2>4, <2>5
      <4>2. constructed \subseteq Mutex
        BY DEF SharedTypes
      <4> QED
        BY <2>5, <4>1, <4>2
    <3> QED
      BY <2>2, <2>4, <3>1, ClassesStay
  <2>7. follows' = follows \cup {<<h, i>> : h \in held[th]} /\ Shared!Acyclic(follows)'
    <3>1. /\ follows' = follows \cup {<<h, i>> : h \in held[th]} /\ i \notin held[th]
          /\ \A h \in held[th] : h # i /\ <<h, i>> \notin follows => ~ Shared!Reaches(follows, i, h)
      BY <2>1 DEF Shared!lockdep_will_lock, Shared!will_lock_edges, Shared!recursive_lock,
                  Shared!creates_a_cycle
    <3>2. held[th] \in SUBSET Shared!Id /\ follows \in SUBSET (Shared!Id \X Shared!Id)
      BY DEF SharedTypes
    <3>3. \A h \in held[th] : <<h, i>> \in follows \/ ~ Shared!Reaches(follows, i, h)
      BY <3>1
    <3>4. Shared!Acyclic(follows \cup {<<h, i>> : h \in held[th]})
      BY <2>1, <3>1, <3>2, <3>3, AddingEdgesKeepsAcyclic DEF OrderInv
    <3> QED
      BY <3>1, <3>4
  <2>8. Ordered(th)'
    <3>1. Is(m, i)'
      <4>1. CASE Given(m)
        <5>1. Given(m)' /\ id'[m] = i
          <6>1. Same(m)
            BY <2>3, <2>6
          <6> QED
            BY <2>2, <2>5, <4>1, <6>1 DEF Same
        <5> QED
          BY <2>2, <5>1 DEF Is
      <4>2. CASE Grouped(m)
        <5>1. Grouped(m)'
          <6>1. Same(m)
            BY <2>3, <2>6
          <6> QED
            BY <2>2, <4>2, <6>1 DEF Same
        <5>2. i = lock_ids'[c]
          BY <2>4, <4>2 DEF Grouped
        <5> QED
          BY <2>2, <5>1, <5>2 DEF Is
      <4> QED
        BY <2>3, <4>1, <4>2 DEF OrderInv
    <3> QED
      BY <2>1, <2>2, <2>7, <3>1 DEF Ordered
  <2>9. /\ \A u \in Thread \ {th} : /\ pc'[u] = pc[u] /\ mode'[u] = mode[u]
                                    /\ want'[u] = want[u] /\ held'[u] = held[u]
        /\ follows \subseteq follows'
        /\ \A n \in Mutex \ constructed : id'[n] = id[n]
    BY <2>2, <2>3, <2>5, <2>7 DEF SharedTypes
  <2> QED
    BY <2>2, <2>4, <2>6, <2>7, <2>8, <2>9, OrderStays
<1>8. ASSUME NEW th \in Thread, Shared!WillLockDies(th) PROVE OrderInv'
  BY <1>0, <1>8 DEF Shared!WillLockDies, Shared!Die
<1>9. ASSUME NEW th \in Thread, Shared!Acquire(th) PROVE OrderInv'
  <2>1. /\ arg' = [arg EXCEPT ![th] = id[want[th]]] /\ pc' = [pc EXCEPT ![th] = "locked"]
        /\ UNCHANGED <<lock_ids, id, constructed, follows, held, want, mode>>
        /\ pc[th] = "acquire"
    BY <1>9 DEF Shared!Acquire, Shared!Waits
  <2>2. /\ want'[th] \in Mutex /\ arg'[th] = id[want'[th]] /\ pc'[th] # "acquire"
        /\ \A u \in Thread \ {th} : /\ pc'[u] = pc[u] /\ mode'[u] = mode[u]
                                    /\ want'[u] = want[u] /\ held'[u] = held[u] /\ arg'[u] = arg[u]
    BY <2>1 DEF SharedTypes
  <2>3. \A n \in constructed : Same(n)
    BY <1>g, <2>1, <2>2, ClassesStay
  <2>4. ~ Waiting(th)'
    BY <2>2 DEF Waiting
  <2> QED
    BY <1>g, <2>1, <2>2, <2>3, <2>4, OrderStays DEF OrderInv
<1>10. ASSUME NEW th \in Thread, Shared!AcquireThrows(th) PROVE OrderInv'
  BY <1>g, <1>r, <1>10 DEF Shared!AcquireThrows
<1>11. ASSUME NEW th \in Thread, Shared!Locked(th) PROVE OrderInv'
  <2>1. PICK i \in Shared!Id :
          /\ Shared!lockdep_locked(Group[want[th]], arg[th], th, i)
          /\ id' = [id EXCEPT ![want[th]] = i]
    BY <1>11 DEF Shared!Locked
  <2>2. constructed' = constructed /\ pc[th] = "locked" /\ Shared!Return(th)
    BY <1>11 DEF Shared!Locked
  <2> DEFINE m == want[th]
             x == arg[th]
             c == Group[want[th]]
  <2>3. m \in constructed /\ m \in Mutex /\ x \in Shared!Id \cup {Shared!NoId} /\ c \in LockName
    <3>1. m \in constructed /\ m \in Mutex
      BY <2>2 DEF SharedTypes
    <3>2. x \in Shared!Id \cup {Shared!NoId}
      BY DEF SharedTypes
    <3> QED
      BY <1>a, <3>1, <3>2
  <2>4. /\ Grows
        /\ IF x = Shared!NoId THEN lock_ids'[c] = i ELSE i = x /\ lock_ids' = lock_ids
    BY <2>1, <2>3, RegisterIfNewFacts DEF Shared!lockdep_locked, Grows
  <2>5. id'[m] = i /\ \A n \in Mutex \ {m} : id'[n] = id[n]
    BY <2>1, <2>3 DEF SharedTypes
  <2>6. follows' = follows /\ \A u \in Thread \ {th} : held'[u] = held[u]
    BY <2>1 DEF Shared!lockdep_locked, SharedTypes
  <2>7. \A n \in constructed :
          \/ id'[n] = id[n]
          \/ want[th] = n /\ id'[n] = arg[th]
          \/ want[th] = n /\ arg[th] = Shared!NoId /\ id'[n] = lock_ids'[Group[n]]
    <3>1. id'[m] = x \/ (x = Shared!NoId /\ id'[m] = lock_ids'[c])
      BY <2>4, <2>5
    <3>2. constructed \subseteq Mutex
      BY DEF SharedTypes
    <3> QED
      BY <2>5, <3>1, <3>2
  <2>8. \A n \in Mutex \ constructed : id'[n] = id[n]
    BY <2>3, <2>5
  <2> QED
    BY <1>r, <2>2, <2>4, <2>6, <2>7, <2>8
<1>12. ASSUME NEW th \in Thread, Shared!WillUnlockFirst(th) \/ Shared!WillUnlock(th)
       PROVE  OrderInv'
  <2>1. /\ id' = [id EXCEPT ![want[th]] = arg[th]] /\ held' = [held EXCEPT ![th] = @ \ {arg[th]}]
        /\ UNCHANGED <<lock_ids, constructed, follows, want, mode, arg>>
        /\ \/ pc[th] = "try_lock_shared" /\ pc' = [pc EXCEPT ![th] = "acquire"]
           \/ pc[th] = "will_unlock" /\ pc' = [pc EXCEPT ![th] = "unlock"]
    BY <1>12 DEF Shared!WillUnlockFirst, Shared!WillUnlock, Shared!lockdep_will_unlock
  <2>2. want[th] \in constructed /\ want[th] \in Mutex
    BY <2>1 DEF SharedTypes
  <2>3. /\ id'[want[th]] = arg[th] /\ \A n \in Mutex \ {want[th]} : id'[n] = id[n]
        /\ \A u \in Thread \ {th} : /\ pc'[u] = pc[u] /\ mode'[u] = mode[u]
                                    /\ want'[u] = want[u] /\ held'[u] = held[u]
    BY <2>1, <2>2 DEF SharedTypes
  <2>4. \A n \in constructed : Same(n)
    <3>1. \A n \in constructed : id'[n] = id[n] \/ (want[th] = n /\ id'[n] = arg[th])
      <4>1. constructed \subseteq Mutex
        BY DEF SharedTypes
      <4> QED
        BY <2>2, <2>3, <4>1
    <3> QED
      BY <1>g, <2>1, <3>1, ClassesStay
  <2>5. ~ Waiting(th)'
    <3>1. pc[th] = "try_lock_shared" => mode[th] = "try_lock_shared"
      BY DEF SharedTypes
    <3> QED
      BY <2>1, <3>1 DEF Waiting, SharedTypes
  <2>6. \A n \in Mutex \ constructed : id'[n] = id[n]
    BY <2>2, <2>3
  <2> QED
    BY <1>g, <2>1, <2>3, <2>4, <2>5, <2>6, OrderStays DEF OrderInv
<1>13. ASSUME NEW th \in Thread, Shared!UnlockImpl(th) PROVE OrderInv'
  BY <1>g, <1>r, <1>13 DEF Shared!UnlockImpl
<1>14. CASE UNCHANGED Shared!vars
  BY <1>0, <1>14 DEF Shared!vars, Shared!rw_vars
<1> QED
  BY <1>1, <1>2, <1>3, <1>4, <1>5, <1>6, <1>7, <1>8, <1>9, <1>10, <1>11, <1>12, <1>13, <1>14
     DEF Shared!Next, Shared!ThreadStep

----------------------------------------------------------------------------
(* Deadlocks.                                                                *)

(* Each thread of a deadlock waits for what another holds, directly or behind *)
(* a writer that goes first; that one's class comes before the other's       *)
(* class, and an order without a cycle has no such set of classes.           *)
LEMMA NoDeadlock ==
  ASSUME Shared!SharedAssumption, SharedTypes, OrderInv
  PROVE  Shared!SharedDeadlocksDetected
<1> SUFFICES ASSUME NEW D \in SUBSET Thread, D # {}, Shared!Blocked(D),
                    \A th \in D : Shared!AllKnown(th) /\ mode[th] # "try_lock_shared"
             PROVE  FALSE
  BY DEF Shared!SharedDeadlocksDetected
<1>1. \A th \in D : /\ Waiting(th) /\ want[th] \in constructed /\ want[th] \in Mutex
                    /\ Shared!Hinders(th) \cap D # {}
  BY DEF Shared!Blocked, Shared!Waits, Waiting, SharedTypes
<1>2. ASSUME NEW th \in D PROVE \E h \in D : Shared!Holds(h, want[th])
  <2>1. PICK h \in D : h \in Shared!Hinders(th)
    BY <1>1
  <2>2. CASE Shared!Holds(h, want[th])
    BY <2>2
  <2>3. CASE ~ Shared!Holds(h, want[th])
    <3>1. want[h] = want[th] /\ Shared!Writes(h)
      BY <2>1, <2>3 DEF Shared!Hinders, Shared!Holds
    <3>2. PICK u \in D : u \in Shared!Hinders(h)
      BY <1>1
    <3> QED
      BY <3>1, <3>2 DEF Shared!Hinders, Shared!Holds
  <2> QED
    BY <2>2, <2>3
<1>3. ASSUME NEW th \in D PROVE id[want[th]] \in Shared!Id
  <2>1. PICK h \in D : Shared!Holds(h, want[th])
    BY <1>2
  <2>2. id[want[th]] \in held[h]
    BY <1>1, <2>1 DEF Shared!AllKnown
  <2> QED
    BY <2>2 DEF SharedTypes
<1>4. ASSUME NEW th \in D PROVE \E h \in D : <<id[want[th]], id[want[h]]>> \in follows
  <2>1. PICK h \in D : Shared!Holds(h, want[th])
    BY <1>2
  <2>2. id[want[th]] \in held[h]
    BY <1>1, <2>1 DEF Shared!AllKnown
  <2>3. PICK i \in Shared!Id : Is(want[h], i) /\ \A x \in held[h] : <<x, i>> \in follows
    BY <1>1 DEF OrderInv, Ordered
  <2>4. i = id[want[h]]
    <3>1. id[want[h]] # Shared!NoId
      BY <1>3, IdsAreIds
    <3> QED
      BY <2>3, <3>1 DEF Is, Grouped
  <2> QED
    BY <2>2, <2>3, <2>4
<1> DEFINE S == {id[want[th]] : th \in D}
<1>5. S \in SUBSET Shared!Id /\ S # {}
  BY <1>3
<1>6. PICK x \in S : \A y \in S : <<x, y>> \notin follows
  BY <1>5 DEF OrderInv, Shared!Acyclic
<1> QED
  BY <1>4, <1>6

LEMMA SharedStarts ==
  ASSUME Shared!SharedAssumption, Shared!Init
  PROVE  SharedTypes /\ OrderInv
<1>1. SharedTypes
  <2>1. readers \in [Mutex -> [Thread -> Int]]
    <3>1. [th \in Thread |-> 0] \in [Thread -> Int]
      OBVIOUS
    <3>2. readers = [m \in Mutex |-> [th \in Thread |-> 0]]
      BY DEF Shared!Init
    <3> QED
      BY <3>1, <3>2, Zenon
  <2>2. /\ \A th \in Thread : pc[th] = "idle" /\ want[th] = Shared!NoMutex
        /\ pc \in [Thread -> Places] /\ want \in [Thread -> {Shared!NoMutex}]
    BY DEF Shared!Init, Places
  <2> QED
    BY <2>1, <2>2 DEF Shared!Init, Shared!LockdepInit, SharedTypes
<1>2. Shared!Acyclic(follows)
  BY DEF Shared!Init, Shared!LockdepInit, Shared!Acyclic
<1> QED
  BY <1>1, <1>2 DEF Shared!Init, Shared!LockdepInit, OrderInv, Waiting

OrderPart == part = "shared" => SharedTypes /\ OrderInv

LEMMA OrderPartStep ==
  ASSUME OrderPart, [Next]_vars
  PROVE  OrderPart'
<1> SUFFICES ASSUME part' = "shared" PROVE SharedTypes' /\ OrderInv'
  BY DEF OrderPart
<1>1. part = "shared" /\ [Shared!Next]_(Shared!vars)
  BY SharedMoves
<1>2. SharedTypes /\ OrderInv /\ Shared!SharedAssumption
  BY <1>1, PartsAssumption DEF OrderPart
<1> QED
  BY <1>1, <1>2, TypesStep, OrderStep

(* Threads whose locks lockdep knows of, and that do not wait in              *)
(* try_lock_shared, never wait for one another, as readers, as writers or    *)
(* behind a writer that goes first: lockdep_will_lock ends the process        *)
(* before.                                                                   *)
THEOREM SharedDeadlocksFound == Spec => []SharedDeadlocksDetected
<1>1. Init => OrderPart
  BY SharedStarts, PartsAssumption DEF Init, OrderPart
<1>2. OrderPart /\ [Next]_vars => OrderPart'
  BY OrderPartStep
<1>3. OrderPart => SharedDeadlocksDetected
  BY NoDeadlock, PartsAssumption DEF OrderPart, SharedDeadlocksDetected
<1> QED
  BY <1>1, <1>2, <1>3, PTL DEF Spec

----------------------------------------------------------------------------
(* The counts.  Between pthread's lock and the count, and between the count   *)
(* and pthread's unlock, a thread has the rwlock and is not counted.         *)

Between == {"locked", "will_unlock", "unlock"}
Writing(th, m) == pc[th] \in Between /\ want[th] = m /\ Shared!Writes(th)
Reading(th, m) == pc[th] \in Between /\ want[th] = m /\ ~ Shared!Writes(th)

(* A writer that is counted has the count at 1 and its name in locked_by.     *)
WriterCounted(m) ==
  /\ writer[m] = Shared!NoThread => nlock[m] = 0
  /\ \A th \in Thread : writer[m] = th => IF Writing(th, m) THEN nlock[m] = 0
                                          ELSE nlock[m] = 1 /\ locked_by[m] = th
  /\ \A th \in Thread : Writing(th, m) => writer[m] = th

(* The read locks of m that are counted, each with its number.               *)
Counts(th, m) == IF Reading(th, m) THEN readers[m][th] - 1 ELSE readers[m][th]
Numbered(f) == {p \in Thread \X Nat : 1 <= p[2] /\ p[2] <= f[p[1]]}
Counted(m) == [th \in Thread |-> Counts(th, m)]

ReadersCounted(m) ==
  /\ Counted(m) \in [Thread -> Nat]
  /\ IsFiniteSet(Numbered(Counted(m))) /\ nrlock[m] = Cardinality(Numbered(Counted(m)))

CountInv == \A m \in Mutex : WriterCounted(m) /\ ReadersCounted(m)

(* One read lock more is one element more.                                   *)
LEMMA OneMore ==
  ASSUME NEW f \in [Thread -> Nat], NEW g \in [Thread -> Nat], NEW th \in Thread,
         g[th] = f[th] + 1, \A u \in Thread \ {th} : g[u] = f[u]
  PROVE  /\ IsFiniteSet(Numbered(f)) => /\ IsFiniteSet(Numbered(g))
                                        /\ Cardinality(Numbered(g)) = Cardinality(Numbered(f)) + 1
         /\ IsFiniteSet(Numbered(g)) => /\ IsFiniteSet(Numbered(f))
                                        /\ Cardinality(Numbered(f)) = Cardinality(Numbered(g)) - 1
<1>1. <<th, g[th]>> \in Numbered(g)
  BY DEF Numbered
<1>2. <<th, g[th]>> \notin Numbered(f)
  BY DEF Numbered
<1>3. Numbered(f) \subseteq Numbered(g)
  BY DEF Numbered
<1>4. ASSUME NEW p \in Numbered(g), p \notin Numbered(f) PROVE p = <<th, g[th]>>
  <2>1. PICK u \in Thread, k \in Nat : p = <<u, k>>
    BY <1>4 DEF Numbered
  <2>2. 1 <= k /\ k <= g[u] /\ ~ (k <= f[u])
    BY <1>4, <2>1 DEF Numbered
  <2>3. u = th
    BY <2>2
  <2>4. k = g[th]
    <3>1. f[th] \in Nat /\ g[th] \in Nat
      OBVIOUS
    <3> QED
      BY <2>2, <2>3, <3>1
  <2> QED
    BY <2>1, <2>3, <2>4
<1> DEFINE F == Numbered(f)
           G == Numbered(g)
           x == <<th, g[th]>>
<1>5. G = F \cup {x} /\ F = G \ {x} /\ x \notin F /\ x \in G
  BY <1>1, <1>2, <1>3, <1>4
<1> HIDE DEF F, G, x
<1>6. IsFiniteSet(F) => IsFiniteSet(G) /\ Cardinality(G) = Cardinality(F) + 1
  BY <1>5, FS_AddElement
<1>7. IsFiniteSet(G) => IsFiniteSet(F) /\ Cardinality(F) = Cardinality(G) - 1
  BY <1>5, FS_RemoveElement
<1> QED
  BY <1>6, <1>7 DEF F, G

(* What a step of th does to the counts of one rwlock.                       *)
LEMMA WriterStep ==
  ASSUME SharedTypes, NEW m \in Mutex, NEW th \in Thread, WriterCounted(m),
         Shared!NoThread \notin Thread,
         \A u \in Thread \ {th} : pc'[u] = pc[u] /\ want'[u] = want[u] /\ mode'[u] = mode[u],
         \/ /\ Writing(th, m)' <=> Writing(th, m)
            /\ writer'[m] = writer[m] /\ nlock'[m] = nlock[m] /\ locked_by'[m] = locked_by[m]
         \/ /\ Writing(th, m)' /\ writer[m] = Shared!NoThread /\ writer'[m] = th
            /\ nlock'[m] = nlock[m]
         \/ /\ Writing(th, m) /\ ~ Writing(th, m)' /\ writer'[m] = writer[m]
            /\ nlock'[m] = nlock[m] + 1 /\ locked_by'[m] = th
         \/ /\ Writing(th, m)' /\ writer[m] = th /\ writer'[m] = th
            /\ nlock[m] = 1 /\ nlock'[m] = nlock[m] - 1
         \/ /\ Writing(th, m) /\ ~ Writing(th, m)' /\ writer'[m] = Shared!NoThread
            /\ nlock'[m] = nlock[m]
  PROVE  WriterCounted(m)'
<1>1. \A u \in Thread \ {th} : Writing(u, m)' <=> Writing(u, m)
  BY DEF Writing, Shared!Writes
<1> HIDE DEF Writing
<1> QED
  BY <1>1 DEF WriterCounted

LEMMA ReaderStep ==
  ASSUME SharedTypes, NEW m \in Mutex, NEW th \in Thread, ReadersCounted(m),
         \A u \in Thread \ {th} : Counts(u, m)' = Counts(u, m),
         \/ Counts(th, m)' = Counts(th, m) /\ nrlock'[m] = nrlock[m]
         \/ Counts(th, m)' = Counts(th, m) + 1 /\ nrlock'[m] = nrlock[m] + 1
         \/ /\ Counts(th, m) > 0
            /\ Counts(th, m)' = Counts(th, m) - 1 /\ nrlock'[m] = nrlock[m] - 1
  PROVE  ReadersCounted(m)'
<1> DEFINE f == Counted(m)
           g == Counted(m)'
<1>1. \A u \in Thread : Counts(u, m) \in Nat /\ f[u] = Counts(u, m) /\ g[u] = Counts(u, m)'
  BY DEF Counted, ReadersCounted
<1>2. f \in [Thread -> Nat] /\ IsFiniteSet(Numbered(f)) /\ nrlock[m] = Cardinality(Numbered(f))
      /\ nrlock[m] \in Nat
  BY DEF ReadersCounted, SharedTypes
<1>3. g \in [Thread -> Nat]
  <2>1. \A u \in Thread : Counts(u, m)' \in Nat
    BY <1>1
  <2> QED
    BY <2>1 DEF Counted
<1>4. \A u \in Thread \ {th} : g[u] = f[u]
  BY <1>1
<1>5. CASE Counts(th, m)' = Counts(th, m) /\ nrlock'[m] = nrlock[m]
  <2>1. g = f
    <3>1. \A u \in Thread : g[u] = f[u]
      BY <1>1, <1>4, <1>5
    <3> QED
      BY <1>2, <1>3, <3>1
  <2> QED
    BY <1>2, <1>3, <1>5, <2>1 DEF ReadersCounted, Numbered
<1>6. CASE Counts(th, m)' = Counts(th, m) + 1 /\ nrlock'[m] = nrlock[m] + 1
  <2>1. g[th] = f[th] + 1
    BY <1>1, <1>6
  <2>2. IsFiniteSet(Numbered(g)) /\ Cardinality(Numbered(g)) = Cardinality(Numbered(f)) + 1
    BY <1>2, <1>3, <1>4, <2>1, OneMore
  <2> QED
    BY <1>2, <1>3, <1>6, <2>2 DEF ReadersCounted, Numbered
<1>7. CASE /\ Counts(th, m) > 0
           /\ Counts(th, m)' = Counts(th, m) - 1 /\ nrlock'[m] = nrlock[m] - 1
  <2>1. f[th] = g[th] + 1
    BY <1>1, <1>7
  <2>2. IsFiniteSet(Numbered(g)) /\ Cardinality(Numbered(g)) = Cardinality(Numbered(f)) - 1
    BY <1>2, <1>3, <1>4, <2>1, OneMore
  <2> QED
    BY <1>2, <1>3, <1>7, <2>2 DEF ReadersCounted, Numbered
<1> QED
  BY <1>5, <1>6, <1>7

Alone(th) == \A u \in Thread \ {th} : pc'[u] = pc[u] /\ want'[u] = want[u] /\ mode'[u] = mode[u]

LEMMA CountStep ==
  ASSUME Shared!SharedAssumption, SharedTypes, SharedTypes', CountInv,
         [Shared!Next]_(Shared!vars)
  PROVE  CountInv'
<1> USE DEF Shared!track, Shared!rwlock, Shared!Goto
<1>a. Shared!NoThread \notin Thread /\ Shared!NoMutex \notin Mutex
  BY DEF Shared!SharedAssumption
<1> USE DEF Alone
(* Nothing of the rwlock changes, and its thread is in the middle before and  *)
(* after, or neither.                                                        *)
<1>0. ASSUME NEW th \in Thread, NEW m \in Mutex, Alone(th),
             UNCHANGED <<writer[m], readers[m], nlock[m], nrlock[m], locked_by[m]>>,
             Writing(th, m)' <=> Writing(th, m), Reading(th, m)' <=> Reading(th, m)
      PROVE  WriterCounted(m)' /\ ReadersCounted(m)'
  <2>1. \A u \in Thread \ {th} : Counts(u, m)' = Counts(u, m)
    BY <1>0 DEF Counts, Reading, Shared!Writes
  <2>2. Counts(th, m)' = Counts(th, m)
    BY <1>0 DEF Counts
  <2>3. WriterCounted(m)'
    BY <1>a, <1>0, WriterStep DEF CountInv
  <2> QED
    BY <1>0, <2>1, <2>2, <2>3, ReaderStep DEF CountInv
<1>s. ASSUME UNCHANGED <<pc, want, mode, writer, readers, nlock, nrlock, locked_by>>
      PROVE  CountInv'
  BY <1>s DEF CountInv, WriterCounted, ReadersCounted, Counted, Counts, Writing, Reading,
              Shared!Writes
(* A thread whose place is before or after the middle, on both sides of the   *)
(* step.                                                                     *)
<1>c. ASSUME NEW th \in Thread, Alone(th), UNCHANGED <<writer, readers, nlock, nrlock, locked_by>>,
             pc[th] \notin Between, pc'[th] \notin Between
      PROVE  CountInv'
  <2>1. \A m \in Mutex : /\ ~ Writing(th, m) /\ ~ Reading(th, m)
                         /\ ~ Writing(th, m)' /\ ~ Reading(th, m)'
    BY <1>c DEF Writing, Reading
  <2> QED
    BY <1>0, <1>c, <2>1 DEF CountInv
<1>1. CASE Shared!GlobalInit
  BY <1>s, <1>1 DEF Shared!GlobalInit, Shared!rw_vars
<1>2. ASSUME NEW m \in Mutex, Shared!Construct(m) PROVE CountInv'
  BY <1>s, <1>2 DEF Shared!Construct
<1>q. ASSUME NEW th \in Thread, NEW m \in Mutex, NEW how, NEW l, Shared!Call(th, m, how, l)
      PROVE  /\ Alone(th) /\ pc[th] = "idle"
             /\ pc'[th] = l /\ want'[th] = m /\ mode'[th] = how
  BY <1>q DEF Shared!Call, SharedTypes
<1>r. ASSUME NEW th \in Thread, Shared!Return(th)
      PROVE  Alone(th) /\ pc'[th] = "idle" /\ want'[th] = Shared!NoMutex /\ mode'[th] = "none"
  BY <1>r DEF Shared!Return, SharedTypes
<1>3. ASSUME NEW th \in Thread, NEW m \in Mutex, Shared!Lock(th, m) PROVE CountInv'
  BY <1>c, <1>q, <1>3 DEF Shared!Lock, Between
<1>5. ASSUME NEW th \in Thread, NEW m \in Mutex, Shared!TryLockShared(th, m) PROVE CountInv'
  BY <1>c, <1>q, <1>5 DEF Shared!TryLockShared, Between
<1>7. ASSUME NEW th \in Thread, Shared!WillLock(th) PROVE CountInv'
  <2>1. Alone(th) /\ pc[th] = "will_lock" /\ pc'[th] = "acquire"
    BY <1>7 DEF Shared!WillLock, SharedTypes
  <2> QED
    BY <1>c, <1>7, <2>1 DEF Shared!WillLock, Between
<1>8. ASSUME NEW th \in Thread, Shared!WillLockDies(th) PROVE CountInv'
  BY <1>s, <1>8 DEF Shared!WillLockDies, Shared!Die
<1>10. ASSUME NEW th \in Thread, Shared!AcquireThrows(th) PROVE CountInv'
  BY <1>c, <1>r, <1>10 DEF Shared!AcquireThrows, Shared!Waits, Between
<1>12. ASSUME NEW th \in Thread, Shared!WillUnlockFirst(th) PROVE CountInv'
  <2>1. Alone(th) /\ pc[th] = "try_lock_shared" /\ pc'[th] = "acquire"
    BY <1>12 DEF Shared!WillUnlockFirst, SharedTypes
  <2> QED
    BY <1>c, <1>12, <2>1 DEF Shared!WillUnlockFirst, Between
<1>15. ASSUME NEW th \in Thread, Shared!WillUnlock(th) PROVE CountInv'
  <2>1. Alone(th) /\ pc[th] = "will_unlock" /\ pc'[th] = "unlock"
        /\ UNCHANGED <<writer, readers, nlock, nrlock, locked_by, want, mode>>
    BY <1>15 DEF Shared!WillUnlock, SharedTypes
  <2>2. \A m \in Mutex : /\ Writing(th, m)' <=> Writing(th, m)
                         /\ Reading(th, m)' <=> Reading(th, m)
    BY <2>1 DEF Writing, Reading, Between, Shared!Writes
  <2> QED
    BY <1>0, <2>1, <2>2 DEF CountInv
<1>14. CASE UNCHANGED Shared!vars
  BY <1>s, <1>14 DEF Shared!vars, Shared!rw_vars
(* pthread's lock is taken: no one else has it.                              *)
<1>t. ASSUME NEW th \in Thread, NEW m \in Mutex, NEW w \in BOOLEAN, Alone(th),
             pc[th] \notin Between, pc'[th] = "locked", want'[th] = m, Shared!Writes(th)' <=> w,
             Shared!Take(th, m, w), w => writer[m] = Shared!NoThread,
             UNCHANGED <<nlock, nrlock, locked_by>>
      PROVE  CountInv'
  <2>1. \A n \in Mutex : ~ Writing(th, n) /\ ~ Reading(th, n)
    BY <1>t DEF Writing, Reading
  <2>2. \A n \in Mutex \ {m} : ~ Writing(th, n)' /\ ~ Reading(th, n)'
    BY <1>t DEF Writing, Reading
  <2>3. (Writing(th, m)' <=> w) /\ (Reading(th, m)' <=> ~ w)
    BY <1>t DEF Writing, Reading, Between
  <2>4. CASE w
    <3>1. /\ writer'[m] = th /\ \A n \in Mutex \ {m} : writer'[n] = writer[n]
          /\ readers' = readers
      BY <1>t, <2>4 DEF Shared!Take, SharedTypes
    <3>2. ASSUME NEW n \in Mutex \ {m} PROVE WriterCounted(n)' /\ ReadersCounted(n)'
      BY <1>0, <1>t, <2>1, <2>2, <3>1
    <3>3. WriterCounted(m)'
      BY <1>a, <1>t, <2>3, <2>4, <3>1, WriterStep DEF CountInv
    <3>4. ReadersCounted(m)'
      <4>1. \A u \in Thread \ {th} : Counts(u, m)' = Counts(u, m)
        BY <1>t, <3>1 DEF Counts, Reading, Shared!Writes
      <4>2. Counts(th, m)' = Counts(th, m)
        BY <2>1, <2>3, <2>4, <3>1 DEF Counts
      <4> QED
        BY <1>t, <4>1, <4>2, ReaderStep DEF CountInv
    <3> QED
      BY <3>2, <3>3, <3>4 DEF CountInv
  <2>5. CASE ~ w
    <3>1. /\ writer' = writer
          /\ readers' = [readers EXCEPT ![m][th] = @ + 1]
      BY <1>t, <2>5 DEF Shared!Take
    <3>2. /\ \A n \in Mutex \ {m} : readers'[n] = readers[n]
          /\ \A u \in Thread \ {th} : readers'[m][u] = readers[m][u]
          /\ readers'[m][th] = readers[m][th] + 1
      BY <3>1 DEF SharedTypes
    <3>3. ASSUME NEW n \in Mutex \ {m} PROVE WriterCounted(n)' /\ ReadersCounted(n)'
      BY <1>0, <1>t, <2>1, <2>2, <3>1, <3>2
    <3>4. WriterCounted(m)'
      BY <1>a, <1>t, <2>1, <2>3, <2>5, <3>1, WriterStep DEF CountInv
    <3>5. ReadersCounted(m)'
      <4>1. \A u \in Thread \ {th} : Counts(u, m)' = Counts(u, m)
        BY <1>t, <3>2 DEF Counts, Reading, Shared!Writes
      <4>2. Counts(th, m)' = Counts(th, m)
        <5>1. Counts(th, m) = readers[m][th] /\ Counts(th, m)' = readers'[m][th] - 1
          BY <2>1, <2>3, <2>5 DEF Counts
        <5>2. readers[m][th] \in Int
          BY DEF SharedTypes
        <5> QED
          BY <3>2, <5>1, <5>2
      <4> QED
        BY <1>t, <4>1, <4>2, ReaderStep DEF CountInv
    <3> QED
      BY <3>3, <3>4, <3>5 DEF CountInv
  <2> QED
    BY <2>4, <2>5
<1>4. ASSUME NEW th \in Thread, NEW m \in Mutex, Shared!TryLock(th, m) PROVE CountInv'
  <2>1. Shared!Call(th, m, "lock", "locked") /\ Shared!Take(th, m, TRUE)
        /\ writer[m] = Shared!NoThread /\ UNCHANGED <<nlock, nrlock, locked_by>>
    BY <1>4 DEF Shared!TryLock
  <2>2. Alone(th) /\ pc[th] = "idle" /\ pc'[th] = "locked" /\ want'[th] = m /\ mode'[th] = "lock"
    BY <1>q, <2>1
  <2>3. Shared!Writes(th)' /\ pc[th] \notin Between
    BY <2>2 DEF Shared!Writes, Between
  <2> QED
    BY <1>t, <2>1, <2>2, <2>3
<1>9. ASSUME NEW th \in Thread, Shared!Acquire(th) PROVE CountInv'
  <2>1. /\ Alone(th) /\ pc[th] = "acquire" /\ pc'[th] = "locked"
        /\ want' = want /\ mode' = mode /\ UNCHANGED <<nlock, nrlock, locked_by>>
        /\ want[th] \in Mutex
    BY <1>9 DEF Shared!Acquire, Shared!Waits, SharedTypes
  <2>2. writer[want[th]] = Shared!NoThread
    BY <1>9, <2>1 DEF Shared!Acquire, Shared!Hinders, SharedTypes
  <2>3. (Shared!Writes(th)' <=> Shared!Writes(th)) /\ Shared!Writes(th) \in BOOLEAN
        /\ pc[th] \notin Between
    BY <2>1 DEF Shared!Writes, Between
  <2>4. Shared!Take(th, want[th], Shared!Writes(th))
    BY <1>9 DEF Shared!Acquire
  <2>5. PICK m \in Mutex : m = want[th]
    BY <2>1
  <2>6. PICK w \in BOOLEAN : w = Shared!Writes(th)
    BY <2>3
  <2>7. /\ want'[th] = m /\ writer[m] = Shared!NoThread /\ Shared!Take(th, m, w)
        /\ Shared!Writes(th)' <=> w
    BY <2>1, <2>2, <2>3, <2>4, <2>5, <2>6
  <2> QED
    BY <1>t, <2>1, <2>3, <2>5, <2>6, <2>7

<1>11. ASSUME NEW th \in Thread, Shared!Locked(th) PROVE CountInv'
  <2>1. /\ Alone(th) /\ pc[th] = "locked" /\ pc'[th] = "idle"
        /\ UNCHANGED <<writer, readers>> /\ want[th] \in Mutex
    <3>1. Shared!Return(th) /\ pc[th] = "locked" /\ UNCHANGED <<writer, readers>>
      BY <1>11 DEF Shared!Locked
    <3> QED
      BY <1>r, <3>1 DEF SharedTypes
  <2>m. PICK m \in Mutex : m = want[th]
    BY <2>1
  <2>2. IF Shared!Writes(th) THEN Shared!post_lock(th, m) ELSE Shared!post_lock_shared(m)
    BY <2>m, <1>11 DEF Shared!Locked
  <2>3. \A n \in Mutex : ~ Writing(th, n)' /\ ~ Reading(th, n)'
    BY <2>m, <2>1 DEF Writing, Reading, Between
  <2>4. \A n \in Mutex \ {m} : ~ Writing(th, n) /\ ~ Reading(th, n)
    BY <2>m DEF Writing, Reading
  <2>5. (Writing(th, m) <=> Shared!Writes(th)) /\ (Reading(th, m) <=> ~ Shared!Writes(th))
    BY <2>m, <2>1 DEF Writing, Reading, Between
  <2>6. /\ \A n \in Mutex \ {m} : UNCHANGED <<nlock[n], nrlock[n], locked_by[n]>>
        /\ IF Shared!Writes(th)
             THEN nlock'[m] = nlock[m] + 1 /\ locked_by'[m] = th /\ nrlock'[m] = nrlock[m]
             ELSE nrlock'[m] = nrlock[m] + 1 /\ nlock'[m] = nlock[m] /\ locked_by'[m] = locked_by[m]
    BY <2>m, <2>1, <2>2 DEF Shared!post_lock, Shared!post_lock_shared, SharedTypes
  <2>7. ASSUME NEW n \in Mutex \ {m} PROVE WriterCounted(n)' /\ ReadersCounted(n)'
    BY <2>m, <1>0, <2>1, <2>3, <2>4, <2>6
  <2>8. WriterCounted(m)'
    BY <2>m, <1>a, <2>1, <2>3, <2>5, <2>6, WriterStep DEF CountInv
  <2>9. ReadersCounted(m)'
    <3>1. \A u \in Thread \ {th} : Counts(u, m)' = Counts(u, m)
      BY <2>m, <2>1 DEF Counts, Reading, Shared!Writes
    <3>2. Counts(th, m)' = IF Shared!Writes(th) THEN Counts(th, m) ELSE Counts(th, m) + 1
      <4>1. Counts(th, m)' = readers[m][th]
        BY <2>m, <2>1, <2>3 DEF Counts
      <4>2. Counts(th, m) = IF Shared!Writes(th) THEN readers[m][th] ELSE readers[m][th] - 1
        BY <2>m, <2>5 DEF Counts
      <4>3. readers[m][th] \in Int
        BY <2>m, <2>1 DEF SharedTypes
      <4> QED
        BY <2>m, <4>1, <4>2, <4>3
    <3> QED
      BY <2>m, <2>1, <2>6, <3>1, <3>2, ReaderStep DEF CountInv
  <2> QED
    BY <2>m, <2>7, <2>8, <2>9 DEF CountInv
<1>6. ASSUME NEW th \in Thread, NEW m \in Mutex, Shared!Unlock(th, m) PROVE CountInv'
  <2>1. PICK how \in {"lock", "lock_shared"} :
          /\ Shared!Call(th, m, how, "will_unlock")
          /\ IF how = "lock" THEN writer[m] = th /\ Shared!pre_unlock(th, m)
                             ELSE Shared!Reads(th, m) /\ Shared!pre_unlock_shared(m)
    BY <1>6 DEF Shared!Unlock
  <2>2. /\ Alone(th) /\ pc[th] = "idle"
        /\ pc'[th] = "will_unlock" /\ want'[th] = m /\ mode'[th] = how
        /\ UNCHANGED <<writer, readers>>
    <3>1. UNCHANGED <<writer, readers>>
      BY <1>6 DEF Shared!Unlock
    <3> QED
      BY <1>q, <2>1, <3>1
  <2>3. \A n \in Mutex : ~ Writing(th, n) /\ ~ Reading(th, n)
    BY <2>2 DEF Writing, Reading, Between
  <2>4. \A n \in Mutex \ {m} : ~ Writing(th, n)' /\ ~ Reading(th, n)'
    BY <2>2 DEF Writing, Reading
  <2>5. (Writing(th, m)' <=> how = "lock") /\ (Reading(th, m)' <=> how # "lock")
    BY <2>2 DEF Writing, Reading, Between, Shared!Writes
  <2>6. /\ \A n \in Mutex \ {m} : UNCHANGED <<nlock[n], nrlock[n], locked_by[n]>>
        /\ IF how = "lock"
             THEN nlock[m] = 1 /\ nlock'[m] = nlock[m] - 1 /\ nrlock'[m] = nrlock[m]
             ELSE nrlock'[m] = nrlock[m] - 1 /\ nlock'[m] = nlock[m] /\ locked_by'[m] = locked_by[m]
    BY <2>1 DEF Shared!pre_unlock, Shared!pre_unlock_shared, SharedTypes
  <2>7. ASSUME NEW n \in Mutex \ {m} PROVE WriterCounted(n)' /\ ReadersCounted(n)'
    BY <1>0, <2>2, <2>3, <2>4, <2>6
  <2>8. WriterCounted(m)'
    BY <1>a, <2>1, <2>2, <2>3, <2>5, <2>6, WriterStep DEF CountInv
  <2>9. ReadersCounted(m)'
    <3>1. \A u \in Thread \ {th} : Counts(u, m)' = Counts(u, m)
      BY <2>2 DEF Counts, Reading, Shared!Writes
    <3>2. Counts(th, m) = readers[m][th]
      BY <2>3 DEF Counts
    <3>3. Counts(th, m)' = IF how = "lock" THEN readers[m][th] ELSE readers[m][th] - 1
      BY <2>2, <2>5 DEF Counts
    <3>4. how # "lock" => Counts(th, m) > 0
      BY <2>1, <3>2 DEF Shared!Reads
    <3> QED
      BY <2>2, <2>6, <3>1, <3>2, <3>3, <3>4, ReaderStep DEF CountInv
  <2> QED
    BY <2>7, <2>8, <2>9 DEF CountInv
<1>13. ASSUME NEW th \in Thread, Shared!UnlockImpl(th) PROVE CountInv'
  <2>1. /\ Alone(th) /\ pc[th] = "unlock" /\ pc'[th] = "idle"
        /\ UNCHANGED <<nlock, nrlock, locked_by>> /\ want[th] \in Mutex
    <3>1. Shared!Return(th) /\ pc[th] = "unlock" /\ UNCHANGED <<nlock, nrlock, locked_by>>
      BY <1>13 DEF Shared!UnlockImpl
    <3> QED
      BY <1>r, <3>1 DEF SharedTypes
  <2>m. PICK m \in Mutex : m = want[th]
    BY <2>1
  <2>2. \A n \in Mutex : ~ Writing(th, n)' /\ ~ Reading(th, n)'
    BY <2>m, <2>1 DEF Writing, Reading, Between
  <2>3. \A n \in Mutex \ {m} : ~ Writing(th, n) /\ ~ Reading(th, n)
    BY <2>m DEF Writing, Reading
  <2>4. (Writing(th, m) <=> Shared!Writes(th)) /\ (Reading(th, m) <=> ~ Shared!Writes(th))
    BY <2>m, <2>1 DEF Writing, Reading, Between
  <2>5. IF Shared!Writes(th)
          THEN writer' = [writer EXCEPT ![m] = Shared!NoThread] /\ readers' = readers
          ELSE readers' = [readers EXCEPT ![m][th] = @ - 1] /\ writer' = writer
    BY <2>m, <1>13 DEF Shared!UnlockImpl
  <2>6. /\ \A n \in Mutex \ {m} : writer'[n] = writer[n] /\ readers'[n] = readers[n]
        /\ \A u \in Thread \ {th} : readers'[m][u] = readers[m][u]
        /\ IF Shared!Writes(th) THEN writer'[m] = Shared!NoThread /\ readers'[m] = readers[m]
           ELSE writer'[m] = writer[m] /\ readers'[m][th] = readers[m][th] - 1
    BY <2>m, <2>1, <2>5 DEF SharedTypes
  <2>7. ASSUME NEW n \in Mutex \ {m} PROVE WriterCounted(n)' /\ ReadersCounted(n)'
    BY <2>m, <1>0, <2>1, <2>2, <2>3, <2>6
  <2>8. WriterCounted(m)'
    BY <2>m, <1>a, <2>1, <2>2, <2>4, <2>6, WriterStep DEF CountInv
  <2>9. ReadersCounted(m)'
    <3>1. \A u \in Thread \ {th} : Counts(u, m)' = Counts(u, m)
      BY <2>m, <2>1, <2>6 DEF Counts, Reading, Shared!Writes
    <3>2. Counts(th, m)' = Counts(th, m)
      <4>1. Counts(th, m)' = readers'[m][th]
        BY <2>m, <2>1, <2>2 DEF Counts
      <4>2. Counts(th, m) = IF Shared!Writes(th) THEN readers[m][th] ELSE readers[m][th] - 1
        BY <2>m, <2>4 DEF Counts
      <4> QED
        BY <2>m, <2>6, <4>1, <4>2
    <3> QED
      BY <2>m, <2>1, <3>1, <3>2, ReaderStep DEF CountInv
  <2> QED
    BY <2>m, <2>7, <2>8, <2>9 DEF CountInv
<1> QED
  BY <1>1, <1>2, <1>3, <1>4, <1>5, <1>6, <1>7, <1>8, <1>9, <1>10, <1>11, <1>12, <1>13, <1>14,
     <1>15 DEF Shared!Next, Shared!ThreadStep

LEMMA CountStarts ==
  ASSUME Shared!Init
  PROVE  CountInv
<1> SUFFICES ASSUME NEW m \in Mutex PROVE WriterCounted(m) /\ ReadersCounted(m)
  BY DEF CountInv
<1>1. \A th \in Thread : ~ Writing(th, m) /\ ~ Reading(th, m)
  BY DEF Shared!Init, Writing, Reading, Between
<1>2. /\ writer[m] = Shared!NoThread /\ nlock[m] = 0 /\ nrlock[m] = 0
      /\ readers[m] = [th \in Thread |-> 0]
  BY DEF Shared!Init
<1>3. Counted(m) = [th \in Thread |-> 0]
  BY <1>1, <1>2 DEF Counted, Counts
<1>4. Numbered(Counted(m)) = {}
  BY <1>3 DEF Numbered
<1>5. ReadersCounted(m)
  BY <1>2, <1>3, <1>4, FS_EmptySet DEF ReadersCounted
<1>6. WriterCounted(m)
  BY <1>1, <1>2, PartsAssumption DEF WriterCounted, Shared!SharedAssumption
<1> QED
  BY <1>5, <1>6

LEMMA CountsAssert ==
  ASSUME SharedTypes, CountInv
  PROVE  Shared!SharedAssertsHold
<1> SUFFICES ASSUME NEW m \in Mutex, NEW th \in Thread
             PROVE  /\ pc[th] = "locked" /\ want[th] = m /\ Shared!Writes(th) => nlock[m] = 0
                    /\ pc[th] = "idle" /\ writer[m] = th => nlock[m] = 1 /\ locked_by[m] = th
                    /\ pc[th] = "idle" /\ Shared!Reads(th, m) => nrlock[m] > 0
  BY DEF Shared!SharedAssertsHold
<1>1. WriterCounted(m) /\ ReadersCounted(m)
  BY DEF CountInv
<1>2. ASSUME pc[th] = "locked", want[th] = m, Shared!Writes(th) PROVE nlock[m] = 0
  BY <1>1, <1>2 DEF WriterCounted, Writing, Between
<1>3. ASSUME pc[th] = "idle", writer[m] = th PROVE nlock[m] = 1 /\ locked_by[m] = th
  BY <1>1, <1>3 DEF WriterCounted, Writing, Between
<1>4. ASSUME pc[th] = "idle", Shared!Reads(th, m) PROVE nrlock[m] > 0
  <2>1. Counted(m)[th] = readers[m][th] /\ readers[m][th] > 0 /\ Counted(m) \in [Thread -> Nat]
    BY <1>1, <1>4 DEF Counted, Counts, Reading, Between, Shared!Reads, ReadersCounted
  <2>2. <<th, 1>> \in Numbered(Counted(m))
    BY <2>1 DEF Numbered
  <2>3. Cardinality(Numbered(Counted(m))) # 0 /\ nrlock[m] = Cardinality(Numbered(Counted(m)))
    BY <1>1, <2>2, FS_EmptySet DEF ReadersCounted
  <2> QED
    BY <2>3 DEF SharedTypes
<1> QED
  BY <1>2, <1>3, <1>4

CountPart == part = "shared" => SharedTypes /\ CountInv

LEMMA CountPartStep ==
  ASSUME CountPart, [Next]_vars
  PROVE  CountPart'
<1> SUFFICES ASSUME part' = "shared" PROVE SharedTypes' /\ CountInv'
  BY DEF CountPart
<1>1. part = "shared" /\ [Shared!Next]_(Shared!vars)
  BY SharedMoves
<1>2. SharedTypes /\ CountInv /\ Shared!SharedAssumption
  BY <1>1, PartsAssumption DEF CountPart
<1>3. SharedTypes'
  BY <1>1, <1>2, TypesStep
<1> QED
  BY <1>1, <1>2, <1>3, CountStep

(* The assertions of _post_lock, _pre_unlock and _pre_unlock_shared hold for   *)
(* correct callers: nlock names the writer and nrlock the readers whenever a  *)
(* thread may rely on them, though the counts move after the lock is taken    *)
(* and before it is given up.                                                *)
THEOREM SharedAssertionsHold == Spec => []SharedAssertsHold
<1>1. Init => CountPart
  BY SharedStarts, CountStarts, PartsAssumption DEF Init, CountPart
<1>2. CountPart /\ [Next]_vars => CountPart'
  BY CountPartStep
<1>3. CountPart => SharedAssertsHold
  BY CountsAssert DEF CountPart, SharedAssertsHold
<1> QED
  BY <1>1, <1>2, <1>3, PTL DEF Spec

=============================================================================

------------------------------ MODULE Lockdep ------------------------------
(***************************************************************************)
(* The lock-order checker of src/src/common/lockdep.cpp.  It gives every   *)
(* class of locks (a name) a numeric id, remembers which classes each      *)
(* thread holds and which class was ever taken while another was held, and *)
(* ends the process before a lock is taken in an order that closes a cycle.*)
(*                                                                         *)
(* Every function of lockdep.cpp runs under lockdep_mutex: each is one     *)
(* operator here, a conjunction over the primed state, that an action of   *)
(* MutexDebug takes as one step.  Backtraces are left out.                 *)
(***************************************************************************)
EXTENDS LockOrder, FiniteSets

CONSTANTS
  Thread,
  LockName,   \* the names of lock classes, "" among them
  NrLocks     \* NR_LOCKS: rows of `follows` at first

ASSUME LockdepAssumption ==
  /\ NrLocks \in Nat \ {0}
  /\ "" \in LockName

NoId == -1
NoName == "no name"

ASSUME NoNameAssumption == NoName \notin LockName

VARIABLES
  g_lockdep,
  free_ids_inited,
  free_ids,         \* ids that no class has
  last_freed_id,
  lock_ids,         \* class -> id
  lock_names,       \* id -> class
  lock_refs,        \* id -> registrations
  current_maxid,    \* upper bound of the ids given out
  rows,             \* follows.size()
  follows,          \* <<a, b>>: b was taken, or waited for, while a was held
  held              \* thread -> ids it holds

lockdep_vars == <<g_lockdep, free_ids_inited, free_ids, last_freed_id, lock_ids,
                  lock_names, lock_refs, current_maxid, rows, follows, held>>
registry == <<free_ids, last_freed_id, lock_ids, lock_names, lock_refs,
              current_maxid, rows>>

LockdepInit ==
  /\ g_lockdep = FALSE /\ free_ids_inited = FALSE
  /\ free_ids = {} /\ last_freed_id = NoId
  /\ lock_ids = [n \in LockName |-> NoId]
  /\ lock_names = [i \in Id |-> NoName]
  /\ lock_refs = [i \in Id |-> 0]
  /\ current_maxid = 0
  /\ rows = NrLocks
  /\ follows = {}
  /\ held = [t \in Thread |-> {}]

(* free_ids.set(), the first time only.  The variants: a bit past the last    *)
(* id; every time.                                                           *)
one_too_many == 0 .. MaxLocks
initially_free == Id

all_free_again == initially_free
free_at_start == IF free_ids_inited THEN free_ids ELSE initially_free

lockdep_global_init ==
  /\ ~ g_lockdep
  /\ g_lockdep' = TRUE
  /\ free_ids_inited' = TRUE
  /\ free_ids' = free_at_start
  /\ UNCHANGED <<last_freed_id, lock_ids, lock_names, lock_refs, current_maxid, rows,
                 follows, held>>

(* held.clear().  The variant leaves the entries of the threads.             *)
keep_held == UNCHANGED held
clear_held == held' = [t \in Thread |-> {}]

(* "blow away all of our state, too, in case it starts up again": the        *)
(* references and the free ids stay.                                         *)
lockdep_global_destroy ==
  /\ g_lockdep
  /\ g_lockdep' = FALSE
  /\ clear_held
  /\ lock_names' = [i \in Id |-> NoName]
  /\ lock_ids' = [n \in LockName |-> NoId]
  /\ follows' = {}
  /\ UNCHANGED <<free_ids_inited, free_ids, last_freed_id, lock_refs, current_maxid, rows>>

----------------------------------------------------------------------------
(* Registration.                                                             *)

(* lockdep_get_free_id: the id freed last if it is still free, else the      *)
(* lowest one.  A set of at most one id, empty when none is left.            *)
lockdep_get_free_id ==
  IF last_freed_id \in free_ids THEN {last_freed_id}
  ELSE {i \in free_ids : \A j \in free_ids : i <= j}

IdsFor(name) ==
  IF lock_ids[name] # NoId THEN {lock_ids[name]} ELSE lockdep_get_free_id

OutOfIds(name) == lock_ids[name] = NoId /\ free_ids = {}

count_ref(name, i) == lock_refs' = [lock_refs EXCEPT ![i] = @ + 1]

(* The variant resizes the table to the size it has.                         *)
not_enough_rows(i) == IF current_maxid <= i /\ i + 1 = rows THEN i + 1 ELSE rows
enough_rows(i) == IF current_maxid <= i /\ i + 1 = rows THEN i + 2 ELSE rows

(* _lockdep_register(name), which returns i.                                 *)
Register(name, i) ==
  /\ i \in IdsFor(name)
  /\ IF lock_ids[name] = NoId
       THEN /\ free_ids' = free_ids \ {i}
            /\ last_freed_id' = IF last_freed_id \in free_ids THEN NoId ELSE last_freed_id
            /\ current_maxid' = IF current_maxid <= i THEN i + 1 ELSE current_maxid
            /\ rows' = enough_rows(i)
            /\ lock_ids' = [lock_ids EXCEPT ![name] = i]
            /\ lock_names' = [lock_names EXCEPT ![i] = name]
       ELSE UNCHANGED <<free_ids, last_freed_id, current_maxid, rows, lock_ids, lock_names>>
  /\ count_ref(name, i)

(* An id passed by a lock that has none yet (-1) is registered on the way.   *)
RegisterIfNew(name, id, i) ==
  IF id = NoId THEN Register(name, i) ELSE i = id /\ UNCHANGED registry

(* "reset dependency ordering".  The variant forgets the column.             *)
without_row(id) == {e \in follows : e[1] # id}
without_order_of(id) == {e \in follows : e[1] # id /\ e[2] # id}

(* lockdep_unregister(id): the last one takes the class, and every edge of   *)
(* its id, away.                                                             *)
lockdep_unregister(id) ==
  IF id = NoId
    THEN UNCHANGED <<registry, follows>>
    ELSE /\ lock_refs' = [lock_refs EXCEPT ![id] = @ - 1]
         /\ IF lock_refs[id] = 1
              THEN /\ follows' = without_order_of(id)
                   /\ lock_ids' = [lock_ids EXCEPT ![lock_names[id]] = NoId]
                   /\ lock_names' = [lock_names EXCEPT ![id] = NoName]
                   /\ free_ids' = free_ids \cup {id}
                   /\ last_freed_id' = id
              ELSE UNCHANGED <<follows, lock_ids, lock_names, free_ids, last_freed_id>>
         /\ UNCHANGED <<current_maxid, rows>>

----------------------------------------------------------------------------
(* The order of locks.                                                       *)

recursive_lock(t, i) == i \in held[t]

(* The variant asks whether the class wanted comes after the one held.       *)
follows_already(t, i) ==
  \E h \in held[t] : h # i /\ <<h, i>> \notin follows /\ Reaches(follows, h, i)

creates_a_cycle(t, i) ==
  \E h \in held[t] : h # i /\ <<h, i>> \notin follows /\ Reaches(follows, i, h)

(* if (!g_lockdep): the three functions below give back the id they were     *)
(* passed and do nothing.                                                    *)
lockdep_is_off(id, i) == ~ g_lockdep /\ i = id /\ UNCHANGED lockdep_vars

(* lockdep_will_lock where it lets the thread go on: an edge from every      *)
(* class held to the one wanted.  The variant records nothing.               *)
no_edges(t, i) == UNCHANGED follows
will_lock_edges(t, i) == follows' = follows \cup {<<h, i>> : h \in held[t]}

lockdep_will_lock(name, id, t, i) ==
  /\ g_lockdep
  /\ RegisterIfNew(name, id, i)
  /\ ~ recursive_lock(t, i) /\ ~ creates_a_cycle(t, i)
  /\ will_lock_edges(t, i)
  /\ UNCHANGED <<g_lockdep, free_ids_inited, held>>

lockdep_locked(name, id, t, i) ==
  /\ g_lockdep
  /\ RegisterIfNew(name, id, i)
  /\ held' = [held EXCEPT ![t] = @ \cup {i}]
  /\ UNCHANGED <<g_lockdep, free_ids_inited, follows>>

lockdep_will_unlock(id, t) ==
  /\ g_lockdep
  /\ held' = [held EXCEPT ![t] = @ \ {id}]
  /\ UNCHANGED <<g_lockdep, free_ids_inited, registry, follows>>
=============================================================================

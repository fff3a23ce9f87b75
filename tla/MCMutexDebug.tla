---------------------------- MODULE MCMutexDebug ----------------------------
(* Small instances of MutexDebug: mutexes a and b have groups of their own,   *)
(* a2 shares a's.                                                             *)
EXTENDS MutexDebug, TLC

CONSTANTS a, b, a2

MCMutex == {a, b, a2}
MCGroup == (a :> "A") @@ (b :> "B") @@ (a2 :> "A")
MCNames == {"", "A", "B"}

(* Bound: where lockdep is shut down, and started again, there are b and one  *)
(* of the others; where there are all three it is started once.              *)
VARIABLE present

Pairs == {{a, b}, {a2, b}}
ShutsDown == g_lockdep /\ ~ g_lockdep'

MCInit == Init /\ present \in {Mutex} \cup Pairs

MCNext ==
  /\ Next /\ UNCHANGED present
  /\ constructed' \subseteq present
  /\ ShutsDown => present # Mutex

MCSpec == MCInit /\ [][MCNext]_<<vars, present>>

(* a and a2 are alike where both or none are in TryLocks.                     *)
Symmetry == Permutations(Thread) \cup Permutations({a, a2})
=============================================================================

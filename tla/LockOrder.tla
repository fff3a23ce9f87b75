----------------------------- MODULE LockOrder -----------------------------
(***************************************************************************)
(* The ids of lock classes and the order between them, as src/src/common/  *)
(* lockdep.cpp keeps it in `follows`: a set of edges <<a, b>>, "b taken    *)
(* after a".                                                               *)
(***************************************************************************)
EXTENDS Integers

CONSTANT MaxLocks   \* MAX_LOCKS: how many ids there are

ASSUME MaxLocksAssumption == MaxLocks \in Nat \ {0}

Id == 0 .. MaxLocks - 1

Closed(S, F) == \A e \in F : e[1] \in S => e[2] \in S

(* does_follow(a, b) for different a and b: b is reached from a, that is,    *)
(* every set that has a and is closed under the edges F has b.  DoesFollow   *)
(* checks the recursive search of the code against this.                     *)
Reaches(F, a, b) == \A S \in SUBSET Id : a \in S /\ Closed(S, F) => b \in S

(* F has no cycle: every set of ids has one with no successor in the set.    *)
Acyclic(F) == \A S \in SUBSET Id : S # {} => \E a \in S : \A b \in S : <<a, b>> \notin F
=============================================================================

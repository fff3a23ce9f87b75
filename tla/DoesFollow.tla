---------------------------- MODULE DoesFollow -----------------------------
(***************************************************************************)
(* does_follow(a, b) of src/src/common/lockdep.cpp: the depth-first search *)
(* of the lock order, with its recursion as a stack of frames.  It marks   *)
(* nothing as visited, so that it ends depends on the order having no      *)
(* cycle, which MutexDebug proves of every order lockdep records.          *)
(***************************************************************************)
EXTENDS LockOrder, Sequences

VARIABLES
  follows,        \* the order
  current_maxid,  \* ids are below it
  a, b,           \* the arguments of the outermost call
  stack,          \* frames: the first argument, and the i of the loop
  value           \* what the last call to end returned

vars == <<follows, current_maxid, a, b, stack, value>>
query == <<follows, current_maxid, a, b>>

NoValue == "none"

(* What lockdep_will_lock lets an order grow to.                             *)
recorded_order(F) == Acyclic(F)

Init ==
  /\ current_maxid \in 2 .. MaxLocks
  /\ follows \in SUBSET ((0 .. current_maxid - 1) \X (0 .. current_maxid - 1))
  /\ recorded_order(follows)
  /\ a \in 0 .. current_maxid - 1 /\ b \in 0 .. current_maxid - 1 /\ a # b
  /\ stack = <<[a |-> a, i |-> -1]>>
  /\ value = NoValue

Top == stack[Len(stack)]
Callers == SubSeq(stack, 1, Len(stack) - 1)

Loop(i) == stack' = Append(Callers, [Top EXCEPT !.i = i])

Returns(v) == stack' = Callers /\ value' = v

(* if (follows[a].test(b)) return true;                                      *)
Enter ==
  /\ stack # <<>> /\ Top.i = -1
  /\ IF <<Top.a, b>> \in follows THEN Returns("true") ELSE Loop(0) /\ UNCHANGED value
  /\ UNCHANGED query

Looping == stack # <<>> /\ Top.i >= 0 /\ value = NoValue

(* if (follows[a].test(i) && does_follow(i, b))                              *)
Call ==
  /\ Looping /\ Top.i < current_maxid /\ <<Top.a, Top.i>> \in follows
  /\ stack' = Append(stack, [a |-> Top.i, i |-> -1])
  /\ UNCHANGED <<query, value>>

Skip ==
  /\ Looping /\ Top.i < current_maxid /\ <<Top.a, Top.i>> \notin follows
  /\ Loop(Top.i + 1)
  /\ UNCHANGED <<query, value>>

Exhausted ==
  /\ Looping /\ Top.i = current_maxid
  /\ Returns("false")
  /\ UNCHANGED query

(* The inner call has returned.  The variants: its "no" ends the loop; the   *)
(* loop stays where it is.                                                   *)
GiveUp ==
  /\ stack # <<>> /\ value # NoValue
  /\ Returns(value)
  /\ UNCHANGED query

SameAgain ==
  /\ stack # <<>> /\ value # NoValue
  /\ IF value = "true" THEN Returns("true") ELSE stack' = stack /\ value' = NoValue
  /\ UNCHANGED query

Back ==
  /\ stack # <<>> /\ value # NoValue
  /\ IF value = "true" THEN Returns("true") ELSE Loop(Top.i + 1) /\ value' = NoValue
  /\ UNCHANGED query

Next == Enter \/ Call \/ Skip \/ Exhausted \/ Back

Spec == Init /\ [][Next]_vars /\ WF_vars(Next)

----------------------------------------------------------------------------
(* Properties.                                                               *)

(* does_follow(a, b) answers whether b is reached from a: a "no" that should  *)
(* be a "yes" would let lockdep record a cycle, the other way round it would  *)
(* end a correct process.                                                    *)
AnswersReachability == stack = <<>> => (value = "true" <=> Reaches(follows, a, b))

(* The search ends, though it visits an id as often as there are paths to it *)
(* ("we'll get a cycle in the graph, and does_follow() won't terminate").    *)
Ends == <>(stack = <<>>)
=============================================================================

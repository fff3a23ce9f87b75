---------------------------- MODULE PartsProofs ----------------------------
(***************************************************************************)
(* Proofs about the smaller modules, as MCParts puts them together: the    *)
(* handler of fatal signals, submit_batch, aio_wait and does_follow, for   *)
(* any values of their constants.  An invariant of a part is one of the    *)
(* behaviours of that part.                                                *)
(***************************************************************************)
EXTENDS MCParts, Sequences, FiniteSets, SequenceTheorems, FiniteSetTheorems, TLAPS

----------------------------------------------------------------------------
(* Every step is one of the part that the first state chose.                 *)

LEMMA PartsMove ==
  ASSUME [Next]_vars
  PROVE  /\ part' = part
         /\ part = "fatal" => [Fatal!Next]_(Fatal!vars)
         /\ part = "aio" => [Queue!Next]_(Queue!vars)
         /\ part = "context" => [Context!Next]_(Context!vars)
         /\ part = "search" => [Search!Next]_(Search!vars)
<1>1. CASE UNCHANGED vars
  BY <1>1 DEF vars, fatal, aio, context, search, Fatal!vars, Queue!vars, Context!vars,
              Search!vars
<1>2. CASE Next
  BY <1>2 DEF Next, GeometryOnly, FatalOnly, QueueOnly, ContextOnly, SearchOnly, SharedOnly
<1> QED
  BY <1>1, <1>2

LEMMA PartsBegin ==
  ASSUME Init
  PROVE  /\ part = "fatal" => Fatal!Init
         /\ part = "aio" => Queue!Init
         /\ part = "context" => Context!Init
         /\ part = "search" => Search!Init
BY DEF Init

(* The parts' own instances of FiniteSets are FiniteSets.                    *)
LEMMA SameCardinality ==
  ASSUME NEW S
  PROVE  /\ Fatal!Cardinality(S) = Cardinality(S)
         /\ Queue!Cardinality(S) = Cardinality(S)
         /\ Queue!IsFiniteSet(S) <=> IsFiniteSet(S)
<1>1. Fatal!Cardinality(S) = Cardinality(S)
  BY DEF Cardinality, Fatal!Cardinality
<1>2. Queue!Cardinality(S) = Cardinality(S)
  BY DEF Cardinality, Queue!Cardinality
<1>3. Queue!IsFiniteSet(S) <=> IsFiniteSet(S)
  BY DEF IsFiniteSet, Queue!IsFiniteSet
<1> QED
  BY <1>1, <1>2, <1>3

----------------------------------------------------------------------------
(* Fatal signals.  Stacks.                                                   *)

Places == {"entry", "dump", "reraise", "raise", "returned"}

Records ==
  [signum : Fatal!Signal \cup {Fatal!NoSignal}, cause : {"none", "fault", "abort", "sent"},
   at : {"program"} \cup Places]

Contexts == {c \in Records : c.at # "program" => c.signum \in Fatal!Signal}

(* A new context on the top leaves the others, ...                           *)
LEMMA Push ==
  ASSUME NEW s \in Seq(Contexts), NEW c \in Contexts
  PROVE  /\ Append(s, c) \in Seq(Contexts) /\ Append(s, c) # << >>
         /\ Len(Append(s, c)) = Len(s) + 1
         /\ \A k \in 1 .. Len(s) : Append(s, c)[k] = s[k]
         /\ Append(s, c)[Len(s) + 1] = c
OBVIOUS

(* ... and so does taking it off ...                                         *)
LEMMA Pop ==
  ASSUME NEW s \in Seq(Contexts), s # << >>
  PROVE  /\ Fatal!Front(s) \in Seq(Contexts) /\ Len(Fatal!Front(s)) = Len(s) - 1
         /\ \A k \in 1 .. Len(s) - 1 : Fatal!Front(s)[k] = s[k]
BY DEF Fatal!Front

(* ... or going on in it.                                                    *)
Moved(s, where) == Append(Fatal!Front(s), [Fatal!Last(s) EXCEPT !.at = where])

LEMMA Move ==
  ASSUME NEW s \in Seq(Contexts), s # << >>, Fatal!Last(s).at # "program", NEW where \in Places,
         NEW r, r = Moved(s, where)
  PROVE  /\ r \in Seq(Contexts) /\ r # << >> /\ Len(r) = Len(s)
         /\ \A k \in 1 .. Len(s) - 1 : r[k] = s[k]
         /\ r[Len(s)].at = where
<1>1. Fatal!Last(s) = s[Len(s)] /\ Len(s) \in Nat \ {0}
  BY DEF Fatal!Last
<1>2. Fatal!Last(s) \in Contexts
  BY <1>1
<1>3. /\ [Fatal!Last(s) EXCEPT !.at = where] \in Contexts
      /\ [Fatal!Last(s) EXCEPT !.at = where].at = where
  BY <1>2 DEF Contexts, Records
<1>4. /\ Fatal!Front(s) \in Seq(Contexts) /\ Len(Fatal!Front(s)) = Len(s) - 1
      /\ \A k \in 1 .. Len(s) - 1 : Fatal!Front(s)[k] = s[k]
  BY Pop
<1> DEFINE c == [Fatal!Last(s) EXCEPT !.at = where]
<1>5. /\ r \in Seq(Contexts) /\ r # << >> /\ Len(r) = Len(Fatal!Front(s)) + 1
      /\ \A k \in 1 .. Len(Fatal!Front(s)) : r[k] = Fatal!Front(s)[k]
      /\ r[Len(Fatal!Front(s)) + 1] = c
  BY <1>3, <1>4, Push DEF Moved
<1>6. Len(Fatal!Front(s)) + 1 = Len(s) /\ c.at = where
  BY <1>1, <1>3, <1>4
<1> HIDE DEF c
<1>7. r[Len(s)].at = where
  BY <1>5, <1>6
<1> QED
  BY <1>1, <1>4, <1>5, <1>6, <1>7

----------------------------------------------------------------------------
(* The inductive invariant.                                                  *)

(* A context of a handler that has won the exchange.                         *)
Won(c) == c.at \in {"dump", "reraise", "raise"}

FatalTypes ==
  /\ handler_tid \in Thread \cup {Fatal!NULL_TID}
  /\ stack \in [Thread -> Seq(Contexts)]
  /\ \A th \in Thread : stack[th] # << >> /\ stack[th][1].at = "program"

(* Only the thread in handler_tid dumps, and the first exchange is the last.  *)
OneWinner ==
  /\ \A th \in Thread : \A k \in 1 .. Len(stack[th]) :
       Won(stack[th][k]) => handler_tid = th
  /\ dumped \subseteq {handler_tid} \cap Thread
  /\ dumps = IF handler_tid = Fatal!NULL_TID THEN 0 ELSE 1

FatalInv == FatalTypes /\ OneWinner

LEMMA FatalInit ==
  ASSUME Fatal!Init
  PROVE  FatalInv
<1>1. Fatal!Program \in Contexts /\ ~ Won(Fatal!Program) /\ Fatal!Program.at = "program"
  BY DEF Fatal!Program, Contexts, Records, Won
<1>2. stack = [th \in Thread |-> <<Fatal!Program>>] /\ <<Fatal!Program>> \in Seq(Contexts)
      /\ Len(<<Fatal!Program>>) = 1 /\ <<Fatal!Program>>[1] = Fatal!Program
      /\ <<Fatal!Program>> # << >>
  BY <1>1 DEF Fatal!Init
<1>3. FatalTypes
  BY <1>1, <1>2 DEF Fatal!Init, FatalTypes
<1>4. OneWinner
  BY <1>1, <1>2 DEF Fatal!Init, OneWinner
<1> QED
  BY <1>3, <1>4 DEF FatalInv

(* A step that gives th one more context, one less or another place in the    *)
(* innermost one keeps the invariant, if it wins nothing.                    *)
LEMMA StackKeeps ==
  ASSUME FatalInv, NEW th \in Thread, UNCHANGED <<handler_tid, dumps>>,
         dumped' \subseteq {handler_tid} \cap Thread,
         NEW r \in Seq(Contexts), r # << >>, r[1].at = "program",
         stack' = [stack EXCEPT ![th] = r],
         \A k \in 1 .. Len(r) :
           Won(r[k]) => handler_tid = th \/ (k \in 1 .. Len(stack[th]) /\ r[k] = stack[th][k])
  PROVE  FatalInv'
<1>1. FatalTypes'
  BY DEF FatalInv, FatalTypes
<1>2. ASSUME NEW u \in Thread, NEW k \in 1 .. Len(stack'[u]), Won(stack'[u][k])
      PROVE  handler_tid' = u
  BY <1>2 DEF FatalInv, FatalTypes, OneWinner
<1>3. OneWinner'
  BY <1>2 DEF FatalInv, OneWinner
<1> QED
  BY <1>1, <1>3 DEF FatalInv

LEMMA GotoKeeps ==
  ASSUME FatalInv, NEW th \in Thread, UNCHANGED <<handler_tid, dumps>>,
         dumped' \subseteq {handler_tid} \cap Thread,
         NEW where \in Places,
         where \in {"dump", "reraise", "raise"} => handler_tid = th,
         Fatal!Top(th).at # "program", Fatal!Goto(th, where)
  PROVE  FatalInv'
<1> DEFINE s == stack[th]
           r == Moved(s, where)
<1>1. s \in Seq(Contexts) /\ s # << >> /\ Len(s) \in Nat
  BY DEF FatalInv, FatalTypes
<1>2. stack' = [stack EXCEPT ![th] = r]
  BY DEF Fatal!Goto, Moved, FatalInv, FatalTypes
<1>3. /\ r \in Seq(Contexts) /\ r # << >> /\ Len(r) = Len(s)
      /\ \A k \in 1 .. Len(s) - 1 : r[k] = s[k]
      /\ r[Len(s)].at = where
  BY <1>1, Move DEF Fatal!Top
<1> HIDE DEF r
<1>5. Len(s) # 1 /\ r[1].at = "program"
  <2>1. s[1].at = "program" /\ Fatal!Top(th) = s[Len(s)]
    BY DEF FatalInv, FatalTypes, Fatal!Top, Fatal!Last
  <2>2. Len(s) # 1 /\ Len(s) # 0
    BY <1>1, <2>1
  <2> QED
    BY <1>1, <1>3, <2>1, <2>2
<1>4. ASSUME NEW k \in 1 .. Len(r), Won(r[k])
      PROVE  handler_tid = th \/ (k \in 1 .. Len(stack[th]) /\ r[k] = stack[th][k])
  <2>1. CASE k = Len(s)
    BY <1>3, <1>4, <2>1 DEF Won
  <2>2. CASE k # Len(s)
    BY <1>1, <1>3, <2>2
  <2> QED
    BY <2>1, <2>2
<1> QED
  BY <1>2, <1>3, <1>4, <1>5, StackKeeps

LEMMA DeliverKeeps ==
  ASSUME FatalInv, NEW th \in Thread, UNCHANGED <<handler_tid, dumps, dumped>>,
         NEW s \in Fatal!Signal, NEW cause \in {"fault", "abort", "sent"},
         Fatal!Deliver(th, s, cause)
  PROVE  FatalInv'
<1>1. CASE UNCHANGED stack
  BY <1>1 DEF FatalInv, FatalTypes, OneWinner
<1>2. CASE stack' = [stack EXCEPT ![th] = Append(@, Fatal!Context(s, cause))]
  <2> DEFINE r == Append(stack[th], Fatal!Context(s, cause))
  <2>1. stack[th] \in Seq(Contexts) /\ stack' = [stack EXCEPT ![th] = r]
    BY <1>2 DEF FatalInv, FatalTypes
  <2>2. Fatal!Context(s, cause) \in Contexts /\ ~ Won(Fatal!Context(s, cause))
    BY DEF Fatal!Context, Contexts, Records, Places, Won
  <2>3. /\ r \in Seq(Contexts) /\ r # << >> /\ Len(r) = Len(stack[th]) + 1
        /\ \A k \in 1 .. Len(stack[th]) : r[k] = stack[th][k]
        /\ r[Len(stack[th]) + 1] = Fatal!Context(s, cause)
    BY <2>1, <2>2, Push
  <2>4. Len(stack[th]) \in Nat
    BY <2>1
  <2> HIDE DEF r
  <2>7. r[1].at = "program"
    <3>1. Len(stack[th]) # 0 /\ stack[th][1].at = "program"
      BY <2>1 DEF FatalInv, FatalTypes
    <3> QED
      BY <2>3, <2>4, <3>1
  <2>5. \A k \in 1 .. Len(r) : Won(r[k]) => k \in 1 .. Len(stack[th]) /\ r[k] = stack[th][k]
    BY <2>2, <2>3, <2>4
  <2>6. dumped' \subseteq {handler_tid} \cap Thread
    BY DEF FatalInv, OneWinner
  <2> QED
    BY <2>1, <2>3, <2>5, <2>6, <2>7, StackKeeps
<1> QED
  BY <1>1, <1>2 DEF Fatal!Deliver

(* A handler has a signal.                                                   *)
LEMMA TopSignal ==
  ASSUME FatalInv, NEW th \in Thread, Fatal!Top(th).at # "program"
  PROVE  Fatal!Top(th).signum \in Fatal!Signal
<1>1. stack[th] \in Seq(Contexts) /\ stack[th] # << >>
  BY DEF FatalInv, FatalTypes
<1>2. Fatal!Top(th) \in Contexts
  BY <1>1 DEF Fatal!Top, Fatal!Last
<1> QED
  BY <1>2 DEF Contexts

(* The thread at the top of whose stack a handler has won is handler_tid.     *)
LEMMA TopWon ==
  ASSUME FatalInv, NEW th \in Thread, Won(Fatal!Top(th))
  PROVE  handler_tid = th
<1>1. stack[th] \in Seq(Contexts) /\ stack[th] # << >>
  BY DEF FatalInv, FatalTypes
<1>2. Len(stack[th]) \in 1 .. Len(stack[th]) /\ Fatal!Top(th) = stack[th][Len(stack[th])]
  BY <1>1 DEF Fatal!Top, Fatal!Last
<1> QED
  BY <1>2 DEF FatalInv, OneWinner

(* Each action keeps the invariant.                                          *)
LEMMA FatalStep ==
  ASSUME Fatal!FatalAssumption, FatalInv, [Fatal!Next]_(Fatal!vars)
  PROVE  FatalInv'
<1>d. dumped \subseteq {handler_tid} \cap Thread
  BY DEF FatalInv, OneWinner
<1>1. ASSUME NEW th \in Thread, Fatal!First(th) PROVE FatalInv'
  <2>1. handler_tid = Fatal!NULL_TID /\ handler_tid' = th /\ dumps' = 1 /\ dumped' = {}
        /\ dumped = {}
    BY <1>1 DEF Fatal!First, Fatal!exchanges, FatalInv, OneWinner, Fatal!FatalAssumption
  <2> DEFINE s == stack[th]
             r == Moved(s, "dump")
  <2>2. s \in Seq(Contexts) /\ s # << >> /\ Len(s) \in Nat
    BY DEF FatalInv, FatalTypes
  <2>3. stack' = [stack EXCEPT ![th] = r]
    BY <1>1 DEF Fatal!First, Fatal!Goto, Moved, FatalInv, FatalTypes
  <2>4. r \in Seq(Contexts) /\ r # << >> /\ \A k \in 1 .. Len(s) - 1 : r[k] = s[k]
    <3>1. Fatal!Last(s).at # "program" /\ "dump" \in Places
      BY <1>1 DEF Fatal!First, Fatal!At, Fatal!Top, Places
    <3> QED
      BY <2>2, <3>1, Move
  <2> HIDE DEF r
  <2>8. r[1].at = "program"
    <3>1. s[1].at = "program" /\ s[Len(s)].at = "entry"
      BY <1>1 DEF Fatal!First, Fatal!At, FatalInv, FatalTypes, Fatal!Top, Fatal!Last
    <3>2. Len(s) # 1 /\ Len(s) # 0
      BY <2>2, <3>1
    <3> QED
      BY <2>2, <2>4, <3>1, <3>2
  <2>5. FatalTypes'
    BY <2>1, <2>3, <2>4, <2>8 DEF FatalInv, FatalTypes
  <2>6. ASSUME NEW u \in Thread, u # th, NEW k \in 1 .. Len(stack[u])
        PROVE  ~ Won(stack[u][k])
    BY <2>1, <2>6 DEF FatalInv, OneWinner, Fatal!FatalAssumption
  <2>7. OneWinner'
    <3>1. \A u \in Thread : u # th => stack'[u] = stack[u]
      BY <2>3 DEF FatalInv, FatalTypes
    <3>2. th # Fatal!NULL_TID
      BY DEF Fatal!FatalAssumption
    <3> QED
      BY <2>1, <2>6, <3>1, <3>2 DEF OneWinner
  <2> QED
    BY <2>5, <2>7 DEF FatalInv
<1>2. ASSUME NEW th \in Thread, Fatal!NotFirst(th) PROVE FatalInv'
  BY <1>2, <1>d, GotoKeeps DEF Fatal!NotFirst, Fatal!Return, Fatal!At, Places
<1>3. ASSUME NEW th \in Thread, Fatal!Dump(th) PROVE FatalInv'
  <2>1. handler_tid = th
    BY <1>3, TopWon DEF Fatal!Dump, Fatal!At, Won
  <2> QED
    BY <1>3, <1>d, <2>1, GotoKeeps DEF Fatal!Dump, Fatal!At, Places
<1>4. ASSUME NEW th \in Thread, Fatal!Reraise(th) PROVE FatalInv'
  <2>1. handler_tid = th
    BY <1>4, TopWon DEF Fatal!Reraise, Fatal!At, Won
  <2> QED
    BY <1>4, <1>d, <2>1, GotoKeeps DEF Fatal!Reraise, Fatal!At, Places
<1>5. ASSUME NEW th \in Thread, Fatal!Raise(th) PROVE FatalInv'
  <2>1. Fatal!Top(th).signum \in Fatal!Signal
    BY <1>5, TopSignal DEF Fatal!Raise, Fatal!At
  <2> QED
    BY <1>5, <2>1, DeliverKeeps DEF Fatal!Raise
<1>6. ASSUME NEW th \in Thread, Fatal!Again(th) PROVE FatalInv'
  <2>1. CASE UNCHANGED stack
    BY <1>6, <2>1 DEF Fatal!Again, FatalInv, FatalTypes, OneWinner
  <2>2. CASE Fatal!Goto(th, "entry")
    BY <1>6, <1>d, <2>2, GotoKeeps DEF Fatal!Again, Fatal!At, Places
  <2> QED
    BY <1>6, <2>1, <2>2 DEF Fatal!Again
<1>7. ASSUME NEW th \in Thread, Fatal!AbortGoesOn(th) PROVE FatalInv'
  BY <1>7 DEF Fatal!AbortGoesOn, FatalInv, FatalTypes, OneWinner
<1>8. ASSUME NEW th \in Thread, NEW r \in Fatal!Raised, Fatal!Trouble(th, r) PROVE FatalInv'
  <2>1. r.signum \in Fatal!Signal /\ r.cause \in {"fault", "abort", "sent"}
    BY DEF Fatal!Raised, Fatal!Signal
  <2> QED
    BY <1>8, <2>1, DeliverKeeps DEF Fatal!Trouble
<1>9. CASE UNCHANGED Fatal!vars
  BY <1>9 DEF Fatal!vars, FatalInv, FatalTypes, OneWinner
<1>10. ASSUME NEW th \in Thread, Fatal!Resume(th) PROVE FatalInv'
  <2> DEFINE s == stack[th]
             r == Fatal!Front(s)
  <2>1. s \in Seq(Contexts) /\ s # << >> /\ Len(s) \in Nat /\ s[1].at = "program"
        /\ s[Len(s)].at = "returned"
    BY <1>10 DEF Fatal!Resume, Fatal!At, FatalInv, FatalTypes, Fatal!Top, Fatal!Last
  <2>2. Len(s) # 1 /\ Len(s) # 0
    BY <2>1
  <2>3. /\ r \in Seq(Contexts) /\ Len(r) = Len(s) - 1
        /\ \A k \in 1 .. Len(s) - 1 : r[k] = s[k]
    BY <2>1, Pop
  <2>4. stack' = [stack EXCEPT ![th] = r]
    BY <1>10 DEF Fatal!Resume, FatalInv, FatalTypes
  <2> HIDE DEF r
  <2>5. r # << >> /\ r[1].at = "program"
    BY <2>1, <2>2, <2>3
  <2>6. \A k \in 1 .. Len(r) : k \in 1 .. Len(s) /\ r[k] = s[k]
    BY <2>1, <2>3
  <2>7. UNCHANGED <<handler_tid, dumps>> /\ dumped' \subseteq {handler_tid} \cap Thread
    BY <1>10, <1>d DEF Fatal!Resume
  <2> QED
    BY <2>3, <2>4, <2>5, <2>6, <2>7, StackKeeps
<1> QED
  BY <1>1, <1>2, <1>3, <1>4, <1>5, <1>6, <1>7, <1>8, <1>9, <1>10 DEF Fatal!Next, Fatal!Handler

(* Every reachable state satisfies the invariant.                            *)
THEOREM Winning == Spec => [](part = "fatal" => FatalInv)
<1>1. Init => (part = "fatal" => FatalInv)
  BY PartsBegin, FatalInit
<1>2. (part = "fatal" => FatalInv) /\ [Next]_vars => (part = "fatal" => FatalInv)'
  BY PartsMove, PartsAssumption, FatalStep
<1> QED
  BY <1>1, <1>2, PTL DEF Spec

----------------------------------------------------------------------------
(* What follows from it.                                                     *)

(* One compare-and-swap picks one thread: whatever fails, in whatever order   *)
(* and however deep handlers are nested, one dump is begun and none is mixed  *)
(* with another thread's.                                                    *)
THEOREM OneDump == Spec => []DumpsOnce
<1>1. (part = "fatal" => FatalInv) => DumpsOnce
  <2> SUFFICES ASSUME FatalInv PROVE Fatal!DumpsOnce
    BY DEF DumpsOnce
  <2>1. dumped = {} \/ dumped = {handler_tid}
    BY DEF FatalInv, OneWinner
  <2>2. Cardinality(dumped) <= 1
    <3>1. Cardinality({}) = 0
      BY FS_EmptySet
    <3>2. Cardinality({handler_tid}) = 1
      BY FS_Singleton
    <3> QED
      BY <2>1, <3>1, <3>2
  <2> QED
    BY <2>2, SameCardinality DEF FatalInv, OneWinner, Fatal!DumpsOnce
<1> QED
  BY <1>1, Winning, PTL

(* Until the dump is written, or hit, no signal ends the process by itself:   *)
(* the thread that dumps is at it, and every signal still has its handler.   *)
Undisturbed == dumped = {} /\ ~ interrupted

DumpGoesOn ==
  /\ action \in [Fatal!Signal -> {"handler", "SIG_DFL"}]
  /\ Undisturbed /\ Fatal!Running =>
       /\ \A s \in Fatal!Signal : action[s] = "handler"
       /\ handler_tid # Fatal!NULL_TID => Fatal!Top(handler_tid).at = "dump"
  /\ Undisturbed /\ ~ Fatal!Running => killed = "abort"

(* The top of a stack another thread works on stays.                         *)
LEMMA OtherTop ==
  ASSUME FatalInv, NEW th \in Thread, NEW u \in Thread, u # th, NEW x,
         stack' = [stack EXCEPT ![th] = x]
  PROVE  Fatal!Top(u)' = Fatal!Top(u)
BY DEF FatalInv, FatalTypes, Fatal!Top

(* A thread that goes on in a handler is not the one that dumps undisturbed,  *)
(* unless it is at the dump.                                                 *)
LEMMA NotTheDumper ==
  ASSUME FatalInv, DumpGoesOn, Undisturbed, Fatal!Running, NEW th \in Thread,
         Fatal!Top(th).at # "dump"
  PROVE  handler_tid # th \/ handler_tid = Fatal!NULL_TID
BY DEF DumpGoesOn

LEMMA DumpStep ==
  ASSUME Fatal!FatalAssumption, FatalInv, DumpGoesOn, FatalInv', [Fatal!Next]_(Fatal!vars)
  PROVE  DumpGoesOn'
<1>t. /\ stack \in [Thread -> Seq(Contexts)] /\ handler_tid \in Thread \cup {Fatal!NULL_TID}
      /\ action \in [Fatal!Signal -> {"handler", "SIG_DFL"}]
      /\ Fatal!NULL_TID \notin Thread
  BY DEF FatalInv, FatalTypes, DumpGoesOn, Fatal!FatalAssumption
<1>g. ASSUME NEW th \in Thread, NEW where, Fatal!Goto(th, where), Fatal!Top(th).at # "program",
             where \in Places
      PROVE  /\ Fatal!Top(th)'.at = where
             /\ \A u \in Thread : u # th => Fatal!Top(u)' = Fatal!Top(u)
  <2>1. stack[th] \in Seq(Contexts) /\ stack[th] # << >> /\ Len(stack[th]) \in Nat
    BY DEF FatalInv, FatalTypes
  <2> DEFINE r == Moved(stack[th], where)
  <2>2. stack' = [stack EXCEPT ![th] = r]
    BY <1>g, <1>t DEF Fatal!Goto, Moved
  <2>3. r \in Seq(Contexts) /\ Len(r) = Len(stack[th]) /\ r[Len(stack[th])].at = where
    BY <1>g, <2>1, Move DEF Fatal!Top
  <2> HIDE DEF r
  <2>4. Fatal!Top(th)'.at = where
    BY <1>t, <2>2, <2>3 DEF Fatal!Top, Fatal!Last
  <2> QED
    BY <2>2, <2>4, OtherTop
<1>1. ASSUME NEW th \in Thread, Fatal!First(th) PROVE DumpGoesOn'
  <2>1. Fatal!Top(th)'.at = "dump"
    BY <1>1, <1>g DEF Fatal!First, Fatal!At, Places
  <2> QED
    BY <1>1, <2>1 DEF Fatal!First, Fatal!At, DumpGoesOn, Undisturbed, Fatal!Running
<1>2. ASSUME NEW th \in Thread, Fatal!NotFirst(th) PROVE DumpGoesOn'
  <2>1. /\ Fatal!Running /\ Fatal!Top(th).at = "entry" /\ handler_tid # Fatal!NULL_TID
        /\ UNCHANGED <<handler_tid, dumped, interrupted, killed>>
    BY <1>2 DEF Fatal!NotFirst, Fatal!At, Fatal!exchanges
  <2>2. action' \in [Fatal!Signal -> {"handler", "SIG_DFL"}]
    BY <1>2, <1>t DEF Fatal!NotFirst
  <2>3. CASE Undisturbed
    <3>1. handler_tid # th
      BY <2>1, <2>3, NotTheDumper
    <3>2. action' = action
      BY <1>2, <3>1 DEF Fatal!NotFirst, Fatal!same_thread
    <3>3. Fatal!Top(handler_tid)' = Fatal!Top(handler_tid)
      BY <1>2, <1>g, <1>t, <2>1, <3>1 DEF Fatal!NotFirst, Fatal!Return, Places
    <3> QED
      BY <2>1, <2>2, <3>2, <3>3 DEF DumpGoesOn, Undisturbed, Fatal!Running
  <2>4. CASE ~ Undisturbed
    BY <2>1, <2>2, <2>4 DEF DumpGoesOn, Undisturbed, Fatal!Running
  <2> QED
    BY <2>3, <2>4
<1>3. ASSUME NEW th \in Thread, Fatal!Dump(th) PROVE DumpGoesOn'
  <2>1. dumped' # {}
    BY <1>3 DEF Fatal!Dump
  <2> QED
    BY <1>3, <2>1 DEF Fatal!Dump, DumpGoesOn, Undisturbed
<1>4. ASSUME NEW th \in Thread, Fatal!Reraise(th) \/ Fatal!Raise(th) PROVE DumpGoesOn'
  <2>1. handler_tid = th
    BY <1>4, TopWon DEF Fatal!Reraise, Fatal!Raise, Fatal!At, Won
  <2>2. ~ Undisturbed
    BY <1>4, <1>t, <2>1 DEF DumpGoesOn, Fatal!Reraise, Fatal!Raise, Fatal!At
  <2>3. UNCHANGED <<dumped, interrupted>> /\ action' \in [Fatal!Signal -> {"handler", "SIG_DFL"}]
    BY <1>4, <1>t DEF Fatal!Reraise, Fatal!Raise
  <2> QED
    BY <2>2, <2>3 DEF DumpGoesOn, Undisturbed
<1>5. ASSUME NEW th \in Thread, Fatal!Again(th) PROVE DumpGoesOn'
  <2>1. /\ Fatal!Running /\ Fatal!Top(th).at = "returned"
        /\ UNCHANGED <<handler_tid, action, dumped, interrupted>>
    BY <1>5 DEF Fatal!Again, Fatal!At
  <2>2. CASE Undisturbed
    <3>1. action[Fatal!Top(th).signum] = "handler"
      BY <2>1, <2>2, TopSignal DEF DumpGoesOn
    <3>2. Fatal!Goto(th, "entry") /\ UNCHANGED killed
      BY <1>5, <3>1 DEF Fatal!Again
    <3>3. handler_tid # Fatal!NULL_TID => Fatal!Top(handler_tid)' = Fatal!Top(handler_tid)
      BY <1>g, <1>t, <2>1, <2>2, <3>2, NotTheDumper DEF Places
    <3> QED
      BY <2>1, <3>2, <3>3 DEF DumpGoesOn, Undisturbed, Fatal!Running
  <2>3. CASE ~ Undisturbed
    BY <2>1, <2>3 DEF DumpGoesOn, Undisturbed
  <2> QED
    BY <2>2, <2>3
<1>6. ASSUME NEW th \in Thread, Fatal!AbortGoesOn(th) PROVE DumpGoesOn'
  <2>1. killed' = "abort" /\ action' \in [Fatal!Signal -> {"handler", "SIG_DFL"}]
    BY <1>6, <1>t DEF Fatal!AbortGoesOn
  <2> QED
    BY <2>1 DEF DumpGoesOn, Fatal!Running, Fatal!Alive
<1>7. ASSUME NEW th \in Thread, Fatal!Resume(th) PROVE DumpGoesOn'
  <2>1. /\ Fatal!Running /\ Fatal!Top(th).at = "returned"
        /\ UNCHANGED <<handler_tid, action, dumped, interrupted, killed>>
        /\ stack' = [stack EXCEPT ![th] = Fatal!Front(stack[th])]
    BY <1>7, <1>t DEF Fatal!Resume, Fatal!At
  <2>2. CASE Undisturbed
    <3>1. handler_tid # Fatal!NULL_TID => Fatal!Top(handler_tid)' = Fatal!Top(handler_tid)
      BY <1>t, <2>1, <2>2, NotTheDumper, OtherTop
    <3> QED
      BY <2>1, <3>1 DEF DumpGoesOn, Undisturbed, Fatal!Running
  <2>3. CASE ~ Undisturbed
    BY <2>1, <2>3 DEF DumpGoesOn, Undisturbed
  <2> QED
    BY <2>2, <2>3
<1>8. ASSUME NEW th \in Thread, NEW r \in Fatal!Raised, Fatal!Trouble(th, r) PROVE DumpGoesOn'
  <2>1. /\ Fatal!Running /\ UNCHANGED <<handler_tid, action, dumped>>
        /\ interrupted' = (interrupted \/ Fatal!At(th, "dump"))
        /\ r.signum \in Fatal!Signal
    BY <1>8 DEF Fatal!Trouble, Fatal!Raised, Fatal!Signal
  <2>2. CASE Undisturbed'
    <3>1. Undisturbed /\ Fatal!Top(th).at # "dump"
      BY <2>1, <2>2 DEF Undisturbed, Fatal!At
    <3>2. /\ stack' = [stack EXCEPT ![th] = Append(stack[th], Fatal!Context(r.signum, r.cause))]
          /\ UNCHANGED killed
      BY <1>8, <1>t, <2>1, <3>1 DEF Fatal!Trouble, Fatal!Deliver, DumpGoesOn
    <3>3. handler_tid # Fatal!NULL_TID => Fatal!Top(handler_tid)' = Fatal!Top(handler_tid)
      BY <1>t, <2>1, <3>1, <3>2, NotTheDumper, OtherTop
    <3> QED
      BY <2>1, <3>1, <3>2, <3>3 DEF DumpGoesOn, Fatal!Running
  <2>3. CASE ~ Undisturbed'
    BY <2>1, <2>3 DEF DumpGoesOn
  <2> QED
    BY <2>2, <2>3
<1>9. CASE UNCHANGED Fatal!vars
  BY <1>9 DEF Fatal!vars, DumpGoesOn, Undisturbed, Fatal!Running, Fatal!Top
<1> QED
  BY <1>1, <1>2, <1>3, <1>4, <1>5, <1>6, <1>7, <1>8, <1>9 DEF Fatal!Next, Fatal!Handler

(* Threads that fail while another one dumps cannot cut its dump short: only  *)
(* a signal to the thread that dumps, or an abort(), ends the process before. *)
THEOREM DumpIsWritten == Spec => []DumpNotCutShort
<1> DEFINE I == part = "fatal" => FatalInv
           D == part = "fatal" => DumpGoesOn
<1>1. Init => D
  <2>1. Fatal!Init => DumpGoesOn
    BY DEF Fatal!Init, DumpGoesOn, Undisturbed, Fatal!Running
  <2> QED
    BY <2>1, PartsBegin
<1>2. I /\ I' /\ D /\ [Next]_vars => D'
  BY PartsMove, PartsAssumption, DumpStep
<1>3. D => DumpNotCutShort
  BY DEF DumpGoesOn, Undisturbed, Fatal!DumpNotCutShort, DumpNotCutShort
<1>4. Spec => []I
  BY Winning
<1> QED
  BY <1>1, <1>2, <1>3, <1>4, PTL DEF Spec

----------------------------------------------------------------------------
(* A batch lists aios, none twice.                                           *)
LEMMA ListFacts ==
  ASSUME Queue!AioAssumption, NEW list \in Queue!Lists
  PROVE  /\ list \in Seq(Aio) /\ Len(list) \in Nat
         /\ \A i, j \in 1 .. Len(list) : list[i] = list[j] => i = j
         /\ Queue!Range(list) = {list[k] : k \in 1 .. Len(list)}
<1>1. Cardinality(Aio) \in Nat
  BY FS_CardinalityType, SameCardinality DEF Queue!AioAssumption
<1>2. PICK n \in Nat : list \in [1 .. n -> Aio] /\ Queue!IsInjective(list)
  BY <1>1 DEF Queue!Lists
<1>3. list \in Seq(Aio) /\ Len(list) = n
  BY <1>2
<1> QED
  BY <1>2, <1>3 DEF Queue!IsInjective, Queue!Range

(* What io_submit is offered has not been taken yet, and is disjoint from      *)
(* what it has taken.                                                        *)
QueueTypes ==
  /\ pc \in {"idle", "submit"}
  /\ batch \in Seq(Aio) /\ done \in Nat /\ left \in Nat
  /\ taken \in [Aio -> Nat]

QueueInv ==
  /\ QueueTypes
  /\ \A i, j \in 1 .. Len(batch) : batch[i] = batch[j] => i = j
  /\ Queue!SubmittedOnce

(* io_submit takes r of the iocbs from `done` on.                             *)
LEMMA AcceptedStep ==
  ASSUME QueueInv, NEW r \in 1 .. MaxIoDepth, MaxIoDepth \in Nat, Queue!Accepted(r)
  PROVE  QueueInv'
<1>t. /\ batch \in Seq(Aio) /\ done \in Nat /\ left \in Nat /\ Len(batch) \in Nat
      /\ taken \in [Aio -> Nat] /\ pc = "submit" /\ done + left = Len(batch)
      /\ \A k \in 1 .. Len(batch) : batch[k] \in Aio
      /\ \A k \in 1 .. Len(batch) : taken[batch[k]] = IF k <= done THEN 1 ELSE 0
      /\ \A i, j \in 1 .. Len(batch) : batch[i] = batch[j] => i = j
  BY DEF QueueInv, QueueTypes, Queue!SubmittedOnce, Queue!Accepted
<1>1. r \in Nat /\ 1 <= r /\ r <= left
  BY <1>t DEF Queue!Accepted, Queue!Smaller
<1>2. /\ UNCHANGED <<pc, batch>> /\ done' = done + r /\ left' = left - r
      /\ taken' = [x \in Aio |-> IF x \in Queue!from_done(r) THEN taken[x] + 1 ELSE taken[x]]
  BY DEF Queue!Accepted
<1>3. done' \in Nat /\ left' \in Nat /\ done' + left' = Len(batch)
  <2>1. done \in Nat /\ left \in Nat /\ Len(batch) \in Nat /\ done + left = Len(batch)
    BY <1>t
  <2>2. done' = done + r /\ left' = left - r
    BY <1>2
  <2> QED
    BY <1>1, <2>1, <2>2
<1>4. taken' \in [Aio -> Nat]
  BY <1>t, <1>2
<1>5. ASSUME NEW k \in 1 .. Len(batch)
      PROVE  taken'[batch[k]] = IF k <= done' THEN 1 ELSE 0
  <2>1. batch[k] \in Queue!from_done(r) <=> \E j \in 1 .. r : batch[k] = batch[done + j]
    BY DEF Queue!from_done
  <2>2. \A j \in 1 .. r : done + j \in 1 .. Len(batch)
    BY <1>t, <1>1
  <2>3. batch[k] \in Queue!from_done(r) <=> \E j \in 1 .. r : k = done + j
    <3>1. ASSUME NEW j \in 1 .. r, batch[k] = batch[done + j] PROVE k = done + j
      BY <1>t, <2>2, <3>1
    <3> QED
      BY <2>1, <3>1
  <2>4. (\E j \in 1 .. r : k = done + j) <=> (done < k /\ k <= done + r)
    <3>1. ASSUME done < k, k <= done + r PROVE k - done \in 1 .. r /\ k = done + (k - done)
      BY <1>t, <1>1, <3>1
    <3> QED
      BY <1>t, <1>1, <3>1
  <2>5. taken'[batch[k]] = IF done < k /\ k <= done + r THEN taken[batch[k]] + 1
                           ELSE taken[batch[k]]
    BY <1>t, <1>2, <2>3, <2>4
  <2>6. taken[batch[k]] = IF k <= done THEN 1 ELSE 0
    BY <1>t
  <2> QED
    BY <1>t, <1>1, <1>2, <2>5, <2>6
<1> QED
  BY <1>t, <1>2, <1>3, <1>4, <1>5 DEF QueueInv, QueueTypes, Queue!SubmittedOnce

LEMMA QueueStep ==
  ASSUME Queue!AioAssumption, QueueInv, [Queue!Next]_(Queue!vars)
  PROVE  QueueInv'
<1>0. ASSUME UNCHANGED <<pc, batch, done, left, taken>> PROVE QueueInv'
  BY <1>0 DEF QueueInv, QueueTypes, Queue!SubmittedOnce
<1>1. CASE Queue!init \/ Queue!shutdown \/ UNCHANGED Queue!vars
  BY <1>0, <1>1 DEF Queue!init, Queue!shutdown, Queue!locals, Queue!kernel, Queue!vars
<1>2. ASSUME NEW list \in Queue!Lists, Queue!submit_batch(list) PROVE QueueInv'
  <2>1. /\ list \in Seq(Aio) /\ Len(list) \in Nat
        /\ \A i, j \in 1 .. Len(list) : list[i] = list[j] => i = j
        /\ \A k \in 1 .. Len(list) : list[k] \in Queue!Range(list) /\ list[k] \in Aio
    BY <1>2, ListFacts
  <2>2. /\ batch' = list /\ left' = Len(list) /\ done' = 0 /\ pc' = "submit"
        /\ taken' = [x \in Aio |-> IF x \in Queue!Range(list) THEN 0 ELSE taken[x]]
    BY <1>2 DEF Queue!submit_batch
  <2>3. taken' \in [Aio -> Nat]
    BY <2>2 DEF QueueInv, QueueTypes
  <2>4. \A k \in 1 .. Len(list) : taken'[list[k]] = 0 /\ ~ (k <= 0)
    BY <2>1, <2>2
  <2> QED
    BY <2>1, <2>2, <2>3, <2>4 DEF QueueInv, QueueTypes, Queue!SubmittedOnce
<1>3. ASSUME NEW r \in 1 .. MaxIoDepth, Queue!Accepted(r) PROVE QueueInv'
  BY <1>3, AcceptedStep DEF Queue!AioAssumption
<1>4. CASE Queue!Retry
  BY <1>0, <1>4 DEF Queue!Retry, Queue!kernel
<1>5. CASE Queue!Fails \/ Queue!AllDone
  <2>1. pc' = "idle" /\ batch' = << >> /\ done' = 0 /\ left' = 0 /\ taken' = taken
    BY <1>5 DEF Queue!Fails, Queue!AllDone, Queue!Return, Queue!kernel
  <2> QED
    BY <2>1 DEF QueueInv, QueueTypes, Queue!SubmittedOnce
<1>6. ASSUME NEW x \in Aio, Queue!Complete(x) PROVE QueueInv'
  BY <1>0, <1>6 DEF Queue!Complete, Queue!locals
<1>7. CASE Queue!get_next_completed
  BY <1>0, <1>7 DEF Queue!get_next_completed, Queue!locals
<1> QED
  BY <1>1, <1>2, <1>3, <1>4, <1>5, <1>6, <1>7 DEF Queue!Next, Queue!Submitting

(* However the kernel splits a batch and however often it refuses, each iocb   *)
(* is submitted once, in order, and none is left out.                        *)
THEOREM BatchSubmittedOnce == Spec => []SubmittedOnce
<1> DEFINE I == part = "aio" => QueueInv
<1>1. Init => I
  <2>1. Queue!Init => QueueInv
    BY DEF Queue!Init, QueueInv, QueueTypes, Queue!SubmittedOnce
  <2> QED
    BY <2>1, PartsBegin
<1>2. I /\ [Next]_vars => I'
  BY PartsMove, PartsAssumption, QueueStep
<1>3. I => SubmittedOnce
  BY DEF QueueInv, SubmittedOnce
<1> QED
  BY <1>1, <1>2, <1>3, PTL DEF Spec

(* How often is left to try, and how long to sleep next: 125 us, and twice as *)
(* long each time.                                                           *)
Backoffs ==
  {<<16, 125>>, <<15, 250>>, <<14, 500>>, <<13, 1000>>, <<12, 2000>>, <<11, 4000>>,
   <<10, 8000>>, <<9, 16000>>, <<8, 32000>>, <<7, 64000>>, <<6, 128000>>,
   <<5, 256000>>, <<4, 512000>>, <<3, 1024000>>, <<2, 2048000>>, <<1, 4096000>>,
   <<0, 8192000>>}

BackoffInv ==
  /\ attempts \in Nat /\ delay \in Nat /\ slept \in Nat
  /\ <<attempts, delay>> \in Backoffs
  /\ slept + 125 <= delay

LEMMA BackoffStep ==
  ASSUME Attempts = 16, FirstDelay = 125, BackoffInv, [Queue!Next]_(Queue!vars)
  PROVE  BackoffInv'
<1>0. ASSUME UNCHANGED <<attempts, delay, slept>> PROVE BackoffInv'
  BY <1>0 DEF BackoffInv
<1>1. ASSUME attempts' = 16, delay' = 125, slept' = 0 PROVE BackoffInv'
  BY <1>1 DEF BackoffInv, Backoffs
<1>2. CASE Queue!init \/ Queue!shutdown \/ UNCHANGED Queue!vars
  BY <1>0, <1>2 DEF Queue!init, Queue!shutdown, Queue!locals, Queue!kernel, Queue!vars
<1>3. ASSUME NEW list \in Queue!Lists, Queue!submit_batch(list) PROVE BackoffInv'
  BY <1>1, <1>3 DEF Queue!submit_batch
<1>4. ASSUME NEW r \in 1 .. MaxIoDepth, Queue!Accepted(r) PROVE BackoffInv'
  BY <1>1, <1>4 DEF Queue!Accepted, Queue!start_over
<1>5. CASE Queue!Retry
  <2>1. /\ attempts > 0 /\ attempts' = attempts - 1
        /\ slept' = slept + delay /\ delay' = delay * 2
    BY <1>5 DEF Queue!Retry
  <2>2. <<attempts - 1, delay * 2>> \in Backoffs
    BY <2>1 DEF BackoffInv, Backoffs
  <2>3. attempts - 1 \in Nat /\ slept + delay \in Nat /\ delay * 2 \in Nat
        /\ (slept + delay) + 125 <= delay * 2
    BY <2>1 DEF BackoffInv
  <2> QED
    BY <2>1, <2>2, <2>3 DEF BackoffInv
<1>6. CASE Queue!Fails \/ Queue!AllDone
  BY <1>1, <1>6 DEF Queue!Fails, Queue!AllDone, Queue!Return
<1>7. ASSUME NEW x \in Aio, Queue!Complete(x) PROVE BackoffInv'
  BY <1>0, <1>7 DEF Queue!Complete, Queue!locals
<1>8. CASE Queue!get_next_completed
  BY <1>0, <1>8 DEF Queue!get_next_completed, Queue!locals
<1> QED
  BY <1>2, <1>3, <1>4, <1>5, <1>6, <1>7, <1>8 DEF Queue!Next, Queue!Submitting

(* "max sleep is ~16 seconds": whenever the kernel refuses, with the 16       *)
(* attempts and the first delay of 125 us of submit_batch, a batch sleeps     *)
(* less between two iocbs that are taken.                                    *)
THEOREM SleepIsShort ==
  ASSUME Attempts = 16, FirstDelay = 125
  PROVE  Spec => []SleepBounded
<1> DEFINE I == part = "aio" => BackoffInv
<1>1. Init => I
  <2>1. Queue!Init => BackoffInv
    BY DEF Queue!Init, BackoffInv, Backoffs
  <2> QED
    BY <2>1, PartsBegin
<1>2. I /\ [Next]_vars => I'
  BY PartsMove, BackoffStep
<1>3. I => SleepBounded
  <2>1. BackoffInv => slept < 2 ^ 17 * 125
    BY DEF BackoffInv, Backoffs
  <2> QED
    BY <2>1 DEF Queue!SleepBounded, SleepBounded
<1> QED
  BY <1>1, <1>2, <1>3, PTL DEF Spec

----------------------------------------------------------------------------
(* The inductive invariant.                                                  *)

ContextTypes ==
  /\ priv \in BOOLEAN
  /\ num_pending \in Nat /\ num_running \in Nat /\ pending \in Nat
  /\ lock \in Waiter \cup {Context!Submitter, Context!Nobody}
  /\ spc \in {"idle", "added", "poll", "notify", "unlock"}
  /\ wpc \in [Waiter -> {"idle", "lock", "check", "wait", "asleep", "relock", "return",
                        "returned"}]
  /\ due \in [Waiter -> Nat]

(* num_pending is counted into num_running before it is counted down; a       *)
(* batch begins when the one before is complete.                             *)
Bounded ==
  /\ num_pending <= MaxTasks /\ num_running <= MaxTasks /\ pending <= MaxTasks
  /\ spc = "idle" => num_running = 0
  /\ spc = "added" => pending = num_pending

(* What a call of aio_wait waits for is running; a call that has seen         *)
(* num_running at 0 has nothing left to wait for.                            *)
Due ==
  /\ \A w \in Waiter : due[w] <= num_running
  /\ \A w \in Waiter : wpc[w] \in {"return", "returned"} => due[w] = 0

(* IOContext::lock is held by whoever is between its lock and its unlock.     *)
OneHolder ==
  /\ spc \in {"notify", "unlock"} <=> lock = Context!Submitter
  /\ \A w \in Waiter : wpc[w] \in {"check", "wait", "return"} <=> lock = w

(* A thread about to sleep, or asleep, has something running to wait for, or  *)
(* the notification is on its way.                                           *)
NoWakeupLost ==
  \A w \in Waiter :
    wpc[w] \in {"wait", "asleep"} /\ ~ priv =>
      num_running > 0 \/ (wpc[w] = "asleep" /\ spc = "notify")

ContextInv == ContextTypes /\ Bounded /\ Due /\ OneHolder /\ NoWakeupLost

LEMMA ContextInit ==
  ASSUME Context!IoContextAssumption, Context!Init
  PROVE  ContextInv
<1>1. ContextTypes
  BY DEF Context!Init, ContextTypes
<1>2. Bounded /\ Due /\ OneHolder /\ NoWakeupLost
  BY DEF Context!Init, Context!IoContextAssumption, Bounded, Due, OneHolder, NoWakeupLost,
         Context!Submitter, Context!Nobody
<1> QED
  BY <1>1, <1>2 DEF ContextInv

(* The submitting thread's steps.                                            *)
LEMMA SubmitterKeeps ==
  ASSUME Context!IoContextAssumption, ContextInv, Context!Append \/ Context!SubmitStep
  PROVE  ContextInv'
<1> USE DEF ContextInv, Context!counters
<1>a. /\ Context!Submitter \notin Waiter /\ Context!Nobody \notin Waiter
      /\ Context!Submitter # Context!Nobody
      /\ MaxTasks \in Nat
  BY DEF Context!IoContextAssumption, Context!Submitter, Context!Nobody
<1>1. CASE Context!Append
  <2>1. ContextTypes' /\ Bounded' /\ Due'
    BY <1>a, <1>1 DEF Context!Append, ContextTypes, Bounded, Due
  <2>2. OneHolder' /\ NoWakeupLost'
    BY <1>a, <1>1 DEF Context!Append, ContextTypes, OneHolder, NoWakeupLost
  <2> QED
    BY <2>1, <2>2
<1>2. CASE Context!AddRunning
  <2>1. ContextTypes' /\ Bounded' /\ Due'
    BY <1>a, <1>2 DEF Context!AddRunning, ContextTypes, Bounded, Due
  <2>2. OneHolder' /\ NoWakeupLost'
    BY <1>a, <1>2 DEF Context!AddRunning, ContextTypes, OneHolder, NoWakeupLost
  <2> QED
    BY <2>1, <2>2
<1>3. CASE Context!SubPending
  <2>1. ContextTypes' /\ Bounded' /\ Due'
    BY <1>a, <1>3 DEF Context!SubPending, ContextTypes, Bounded, Due
  <2>2. OneHolder' /\ NoWakeupLost'
    BY <1>a, <1>3 DEF Context!SubPending, ContextTypes, OneHolder, NoWakeupLost
  <2> QED
    BY <2>1, <2>2
<1>4. CASE Context!CompletePriv
  <2>0. /\ due' \in [Waiter -> Nat] /\ num_running' = num_running - 1
        /\ \A w \in Waiter : due'[w] = IF due[w] > 0 THEN due[w] - 1 ELSE 0
    BY <1>4 DEF Context!CompletePriv, Context!OneIsDone, ContextTypes
  <2>1. ContextTypes' /\ Bounded' /\ Due'
    BY <1>a, <1>4, <2>0 DEF Context!CompletePriv, ContextTypes, Bounded, Due
  <2>2. OneHolder' /\ NoWakeupLost'
    BY <1>a, <1>4 DEF Context!CompletePriv, ContextTypes, OneHolder, NoWakeupLost
  <2> QED
    BY <2>1, <2>2
<1>5. CASE Context!FetchSub
  <2>0. /\ due' \in [Waiter -> Nat] /\ num_running' = num_running - 1
        /\ \A w \in Waiter : due'[w] = IF due[w] > 0 THEN due[w] - 1 ELSE 0
    BY <1>5 DEF Context!FetchSub, Context!OneIsDone, ContextTypes
  <2>1. ContextTypes' /\ Bounded' /\ Due'
    BY <1>a, <1>5, <2>0 DEF Context!FetchSub, ContextTypes, Bounded, Due
  <2>2. OneHolder'
    BY <1>a, <1>5 DEF Context!FetchSub, ContextTypes, OneHolder
  <2>3. \A w \in Waiter : wpc[w] # "wait"
    BY <1>a, <1>5 DEF Context!FetchSub, OneHolder
  <2>4. NoWakeupLost'
    BY <1>5, <2>3 DEF Context!FetchSub, ContextTypes, NoWakeupLost
  <2> QED
    BY <2>1, <2>2, <2>4
<1>6. CASE Context!Notify
  <2>1. \A w \in Waiter : /\ wpc'[w] # "asleep"
                          /\ wpc[w] # "asleep" => wpc'[w] = wpc[w]
                          /\ wpc[w] = "asleep" => wpc'[w] = "relock"
    BY <1>6 DEF Context!Notify, Context!notify_all
  <2>2. wpc' \in [Waiter -> {"idle", "lock", "check", "wait", "asleep", "relock", "return",
                             "returned"}]
    BY <1>6 DEF Context!Notify, Context!notify_all, ContextTypes
  <2>3. ContextTypes' /\ Bounded' /\ Due'
    BY <1>a, <1>6, <2>1, <2>2 DEF Context!Notify, ContextTypes, Bounded, Due
  <2>4. OneHolder' /\ NoWakeupLost'
    BY <1>a, <1>6, <2>1 DEF Context!Notify, ContextTypes, OneHolder, NoWakeupLost
  <2> QED
    BY <2>3, <2>4
<1>7. CASE Context!Unlock
  <2>1. ContextTypes' /\ Bounded' /\ Due'
    BY <1>a, <1>7 DEF Context!Unlock, ContextTypes, Bounded, Due
  <2>2. OneHolder' /\ NoWakeupLost'
    BY <1>a, <1>7 DEF Context!Unlock, ContextTypes, OneHolder, NoWakeupLost
  <2> QED
    BY <2>1, <2>2
<1>8. CASE Context!Submitted
  <2>1. ContextTypes' /\ Bounded' /\ Due'
    BY <1>a, <1>8 DEF Context!Submitted, ContextTypes, Bounded, Due
  <2>2. OneHolder' /\ NoWakeupLost'
    BY <1>a, <1>8 DEF Context!Submitted, ContextTypes, OneHolder, NoWakeupLost
  <2> QED
    BY <2>1, <2>2
<1> QED
  BY <1>1, <1>2, <1>3, <1>4, <1>5, <1>6, <1>7, <1>8 DEF Context!SubmitStep

(* A waiting thread's steps.                                                 *)
LEMMA WaiterKeeps ==
  ASSUME Context!IoContextAssumption, ContextInv, NEW w \in Waiter,
         Context!AioWait(w) \/ Context!WaitStep(w) \/ Context!SpuriousWakeup(w)
  PROVE  ContextInv'
<1> USE DEF ContextInv, Context!counters, Context!WaiterOnly
<1>a. /\ Context!Submitter \notin Waiter /\ Context!Nobody \notin Waiter
      /\ Context!Submitter # Context!Nobody
  BY DEF Context!IoContextAssumption, Context!Submitter, Context!Nobody
<1>b. UNCHANGED <<priv, num_pending, num_running, spc, pending>>
  BY DEF Context!AioWait, Context!WaitStep, Context!SpuriousWakeup, Context!Lock,
         Context!Check, Context!Wait, Context!Relock, Context!Return
<1>c. ContextTypes'
  BY <1>b DEF Context!AioWait, Context!WaitStep, Context!SpuriousWakeup, Context!Lock,
              Context!Check, Context!Wait, Context!Relock, Context!Return, ContextTypes
<1>d. Bounded'
  BY <1>b DEF Bounded
<1>1. CASE Context!AioWait(w)
  BY <1>a, <1>b, <1>c, <1>d, <1>1 DEF Context!AioWait, ContextTypes, Due, OneHolder, NoWakeupLost
<1>2. CASE Context!Lock(w)
  BY <1>a, <1>b, <1>c, <1>d, <1>2 DEF Context!Lock, ContextTypes, Due, OneHolder, NoWakeupLost
<1>3. CASE Context!Check(w)
  <2>1. CASE num_running > 0
    BY <1>a, <1>b, <1>c, <1>d, <1>3, <2>1
       DEF Context!Check, ContextTypes, Due, OneHolder, NoWakeupLost
  <2>2. CASE ~ (num_running > 0)
    <3>1. due[w] = 0
      BY <2>2 DEF Due, ContextTypes
    <3> QED
      BY <1>a, <1>b, <1>c, <1>d, <1>3, <2>2, <3>1
         DEF Context!Check, ContextTypes, Due, OneHolder, NoWakeupLost
  <2> QED
    BY <2>1, <2>2
<1>4. CASE Context!Wait(w)
  BY <1>a, <1>b, <1>c, <1>d, <1>4 DEF Context!Wait, ContextTypes, Due, OneHolder, NoWakeupLost
<1>5. CASE Context!Relock(w)
  BY <1>a, <1>b, <1>c, <1>d, <1>5 DEF Context!Relock, ContextTypes, Due, OneHolder, NoWakeupLost
<1>6. CASE Context!Return(w)
  BY <1>a, <1>b, <1>c, <1>d, <1>6 DEF Context!Return, ContextTypes, Due, OneHolder, NoWakeupLost
<1>7. CASE Context!SpuriousWakeup(w)
  BY <1>a, <1>b, <1>c, <1>d, <1>7
     DEF Context!SpuriousWakeup, ContextTypes, Due, OneHolder, NoWakeupLost
<1> QED
  BY <1>1, <1>2, <1>3, <1>4, <1>5, <1>6, <1>7 DEF Context!WaitStep

(* Every reachable state satisfies the invariant.                            *)
THEOREM Waiting == Spec => [](part = "context" => ContextInv)
<1>1. Init => (part = "context" => ContextInv)
  BY PartsBegin, PartsAssumption, ContextInit
<1>2. (part = "context" => ContextInv) /\ [Next]_vars => (part = "context" => ContextInv)'
  <2> SUFFICES ASSUME ContextInv, [Context!Next]_(Context!vars) PROVE ContextInv'
    BY PartsMove
  <2>1. CASE UNCHANGED Context!vars
    BY <2>1 DEF Context!vars, ContextInv, ContextTypes, Bounded, Due, OneHolder, NoWakeupLost
  <2> QED
    BY <2>1, PartsAssumption, SubmitterKeeps, WaiterKeeps DEF Context!Next
<1> QED
  BY <1>1, <1>2, PTL DEF Spec

(* Every variable of the context keeps its type and bound.                    *)
THEOREM ContextTypeCorrect == Spec => [](part = "context" => Context!TypeOK)
<1>1. ContextInv => Context!TypeOK
  BY PartsAssumption
     DEF Context!IoContextAssumption, ContextInv, ContextTypes, Bounded, Due, Context!TypeOK
<1> QED
  BY <1>1, Waiting, PTL

(* When aio_wait has come back, every task that was running at its call is    *)
(* complete; of tasks submitted since, nothing is said.                      *)
THEOREM ReturnsWhenDone == Spec => []WaitMeansDone
<1>1. (part = "context" => ContextInv) => WaitMeansDone
  BY DEF ContextInv, ContextTypes, Due, Context!WaitMeansDone, WaitMeansDone
<1> QED
  BY <1>1, Waiting, PTL

(* try_aio_wake's "num_running.fetch_sub(1) == 1" under the lock loses no       *)
(* wakeup: when nothing is running, no thread is asleep that is not about to  *)
(* be notified, and no thread is about to sleep.                             *)
THEOREM SleepersAreNotified == Spec => [](part = "context" => NoWakeupLost)
<1>1. ContextInv => NoWakeupLost
  BY DEF ContextInv
<1> QED
  BY <1>1, Waiting, PTL

----------------------------------------------------------------------------
(* The search of the lock order.                                             *)

(* Who is a predecessor of b, or of one that reaches b, reaches b; ...       *)
LEMMA ReachesForward ==
  ASSUME NEW F, NEW x, NEW y, NEW z, <<x, y>> \in F, y = z \/ Search!Reaches(F, y, z)
  PROVE  Search!Reaches(F, x, z)
<1> SUFFICES ASSUME NEW S \in SUBSET Search!Id, x \in S, Search!Closed(S, F)
             PROVE  z \in S
  BY DEF Search!Reaches
<1>1. y \in S
  BY DEF Search!Closed
<1> QED
  BY <1>1 DEF Search!Reaches

(* ... and who has no successor that does, and is not b, does not.           *)
LEMMA ReachesBackward ==
  ASSUME NEW F, F \subseteq Search!Id \X Search!Id, NEW x \in Search!Id, NEW z, x # z,
         \A y \in Search!Id : <<x, y>> \in F => ~ Search!Reaches(F, y, z)
  PROVE  ~ Search!Reaches(F, x, z)
<1> DEFINE Misses(S) == Search!Closed(S, F) /\ z \notin S
           U == {u \in Search!Id : u = x \/ \E S \in SUBSET Search!Id : u \in S /\ Misses(S)}
<1>1. x \in U /\ z \notin U /\ U \in SUBSET Search!Id
  OBVIOUS
<1>2. ASSUME NEW e \in F, e[1] \in U PROVE e[2] \in U
  <2>1. e = <<e[1], e[2]>> /\ e[1] \in Search!Id /\ e[2] \in Search!Id
    OBVIOUS
  <2>2. CASE e[1] = x
    <3>1. ~ Search!Reaches(F, e[2], z)
      BY <2>1, <2>2
    <3>2. PICK S \in SUBSET Search!Id : e[2] \in S /\ Misses(S)
      BY <3>1 DEF Search!Reaches
    <3> QED
      BY <2>1, <3>2
  <2>3. CASE e[1] # x
    <3>1. PICK S \in SUBSET Search!Id : e[1] \in S /\ Misses(S)
      BY <1>2, <2>3
    <3>2. e[2] \in S
      BY <3>1 DEF Search!Closed
    <3> QED
      BY <2>1, <3>1, <3>2
  <2> QED
    BY <2>2, <2>3
<1> HIDE DEF U
<1>3. Search!Closed(U, F)
  BY <1>2 DEF Search!Closed
<1> QED
  BY <1>1, <1>3 DEF Search!Reaches

Nodes == 0 .. current_maxid - 1
Frames == [a : Nodes, i : -1 .. current_maxid]
Answers(c) == value = "true" <=> Search!Reaches(follows, c, b)

SearchTypes ==
  /\ current_maxid \in Nat /\ current_maxid <= SearchLocks /\ SearchLocks \in Nat
  /\ follows \subseteq Nodes \X Nodes
  /\ a \in Nodes /\ b \in Nodes
  /\ stack \in Seq(Frames)
  /\ value \in {Search!NoValue, "true", "false"}

(* A frame that is in its loop has no edge to b, and of the successors it is   *)
(* past none reaches b.                                                      *)
PastIsUseless(f) ==
  f.i >= 0 =>
    /\ <<f.a, b>> \notin follows
    /\ \A j \in Nodes : j < f.i /\ <<f.a, j>> \in follows => ~ Search!Reaches(follows, j, b)

(* A frame with a callee is at the edge to it.                               *)
AtEdge(f, c) == f.i = c /\ f.i >= 0 /\ <<f.a, c>> \in follows

(* The frames are a path from a that has not come to b; a value that is there *)
(* is the answer for the last callee.                                        *)
SearchInv ==
  /\ SearchTypes
  /\ stack # << >> => stack[1].a = a
  /\ \A k \in 1 .. Len(stack) : stack[k].a # b /\ PastIsUseless(stack[k])
  /\ \A k \in 1 .. Len(stack) - 1 : AtEdge(stack[k], stack[k + 1].a)
  /\ value = Search!NoValue => stack # << >>
  /\ value # Search!NoValue =>
       IF stack = << >> THEN Answers(a)
       ELSE AtEdge(Search!Top, Search!Top.i) /\ Answers(Search!Top.i)

(* What replacing the last frame, taking it off, or calling on does.          *)
LEMMA TopFacts ==
  ASSUME NEW X, NEW s \in Seq(X), s # << >>
  PROVE  /\ Len(s) \in Nat \ {0} /\ s[Len(s)] \in X
         /\ SubSeq(s, 1, Len(s) - 1) \in Seq(X)
         /\ Len(SubSeq(s, 1, Len(s) - 1)) = Len(s) - 1
         /\ \A k \in 1 .. Len(s) - 1 : SubSeq(s, 1, Len(s) - 1)[k] = s[k]
<1>1. Len(s) \in Nat \ {0} /\ s[Len(s)] \in X
  OBVIOUS
<1>2. 1 \in 1 .. Len(s) + 1 /\ Len(s) - 1 \in 0 .. Len(s)
  BY <1>1
<1>3. /\ SubSeq(s, 1, Len(s) - 1) \in Seq(X)
      /\ Len(SubSeq(s, 1, Len(s) - 1)) = IF 1 <= Len(s) - 1 THEN Len(s) - 1 - 1 + 1 ELSE 0
      /\ \A k \in 1 .. Len(s) - 1 - 1 + 1 : SubSeq(s, 1, Len(s) - 1)[k] = s[1 + k - 1]
  BY <1>1, <1>2, SubSeqProperties
<1> DEFINE r == SubSeq(s, 1, Len(s) - 1)
           n == Len(s)
<1> HIDE DEF r, n
<1>4. /\ n \in Nat \ {0} /\ Len(r) = IF 1 <= n - 1 THEN n - 1 - 1 + 1 ELSE 0
      /\ \A k \in 1 .. n - 1 - 1 + 1 : r[k] = s[1 + k - 1]
  BY <1>1, <1>3 DEF r, n
<1>5. Len(r) = n - 1 /\ \A k \in 1 .. n - 1 : r[k] = s[k]
  BY <1>4
<1> QED
  BY <1>1, <1>3, <1>5 DEF r, n

LEMMA AppendFacts ==
  ASSUME NEW X, NEW s \in Seq(X), NEW x \in X
  PROVE  /\ Append(s, x) \in Seq(X) /\ Append(s, x) # << >> /\ Len(Append(s, x)) = Len(s) + 1
         /\ \A k \in 1 .. Len(s) : Append(s, x)[k] = s[k]
         /\ Append(s, x)[Len(s) + 1] = x
OBVIOUS

(* A frame goes on at i: what it is past stays useless.                       *)
LEMMA LoopKeeps ==
  ASSUME SearchInv, stack # << >>, NEW i \in 0 .. current_maxid, Search!Loop(i),
         UNCHANGED Search!query, value' = Search!NoValue,
         PastIsUseless([Search!Top EXCEPT !.i = i])
  PROVE  SearchInv'
<1> DEFINE f == [Search!Top EXCEPT !.i = i]
           n == Len(stack)
           s == SubSeq(stack, 1, n - 1)
           r == Append(s, f)
<1>1. /\ stack \in Seq(Frames) /\ n \in Nat \ {0} /\ Search!Top \in Frames
      /\ s \in Seq(Frames) /\ Len(s) = n - 1 /\ \A k \in 1 .. n - 1 : s[k] = stack[k]
      /\ Search!Top = stack[n]
  BY TopFacts DEF SearchInv, SearchTypes, Search!Top
<1>2. f \in Frames /\ f.a = Search!Top.a /\ f.i = i /\ PastIsUseless(f)
  BY <1>1 DEF Frames
<1>3. stack' = r /\ UNCHANGED <<follows, current_maxid, a, b>>
  BY DEF Search!Loop, Search!Callers, Search!query
<1> HIDE DEF f
<1>4. /\ r \in Seq(Frames) /\ r # << >> /\ Len(r) = n
      /\ \A k \in 1 .. n - 1 : r[k] = stack[k]
      /\ r[n] = f
  <2>1. /\ r \in Seq(Frames) /\ r # << >> /\ Len(r) = Len(s) + 1
        /\ \A k \in 1 .. Len(s) : r[k] = s[k]
        /\ r[Len(s) + 1] = f
    BY <1>1, <1>2, AppendFacts
  <2> QED
    BY <1>1, <2>1
<1> HIDE DEF r, s
<1>5. SearchTypes'
  BY <1>3, <1>4 DEF SearchInv, SearchTypes, Nodes, Frames
<1>6. r[1].a = a
  <2>1. CASE n = 1
    BY <1>1, <1>2, <1>4, <2>1 DEF SearchInv
  <2>2. CASE n # 1
    BY <1>1, <1>4, <2>2 DEF SearchInv
  <2> QED
    BY <2>1, <2>2
<1>7. \A k \in 1 .. n : r[k].a = stack[k].a
  BY <1>1, <1>2, <1>4
<1>8. \A k \in 1 .. n : r[k].a # b /\ PastIsUseless(r[k])
  <2>1. \A k \in 1 .. n : stack[k].a # b /\ PastIsUseless(stack[k])
    BY DEF SearchInv
  <2> QED
    BY <1>1, <1>2, <1>4, <1>7, <2>1
<1>9. \A k \in 1 .. n - 1 : AtEdge(r[k], r[k + 1].a)
  <2>1. \A k \in 1 .. n - 1 : AtEdge(stack[k], stack[k + 1].a)
    BY DEF SearchInv
  <2>2. \A k \in 1 .. n - 1 : k + 1 \in 1 .. n
    BY <1>1
  <2> QED
    BY <1>1, <1>4, <1>7, <2>1, <2>2
<1> QED
  BY <1>3, <1>4, <1>5, <1>6, <1>8, <1>9 DEF SearchInv, PastIsUseless, AtEdge, Nodes

(* A call ends with the right answer.                                        *)
LEMMA ReturnKeeps ==
  ASSUME SearchInv, stack # << >>, NEW v \in {"true", "false"}, Search!Returns(v),
         UNCHANGED Search!query,
         v = "true" <=> Search!Reaches(follows, Search!Top.a, b)
  PROVE  SearchInv'
<1> DEFINE n == Len(stack)
           s == SubSeq(stack, 1, n - 1)
<1>1. /\ stack \in Seq(Frames) /\ n \in Nat \ {0}
      /\ s \in Seq(Frames) /\ Len(s) = n - 1 /\ \A k \in 1 .. n - 1 : s[k] = stack[k]
      /\ Search!Top = stack[n]
  BY TopFacts DEF SearchInv, SearchTypes, Search!Top
<1>2. stack' = s /\ value' = v /\ UNCHANGED <<follows, current_maxid, a, b>>
  BY DEF Search!Returns, Search!Callers, Search!query
<1> HIDE DEF s
<1>3. SearchTypes'
  BY <1>1, <1>2 DEF SearchInv, SearchTypes, Nodes, Frames
<1>4. v # Search!NoValue
  BY DEF Search!NoValue
<1>5. CASE n = 1
  <2>1. s = << >> /\ stack[1].a = a
    BY <1>1, <1>5 DEF SearchInv
  <2> QED
    BY <1>1, <1>2, <1>3, <1>4, <1>5, <2>1 DEF SearchInv, Answers
<1>6. CASE n # 1
  <2>1. n - 1 \in 1 .. n - 1 /\ (n - 1) + 1 = n /\ s # << >>
    BY <1>1, <1>6
  <2>2. AtEdge(stack[n - 1], stack[n].a)
    BY <2>1 DEF SearchInv
  <2>3. Search!Top' = stack[n - 1]
    BY <1>1, <1>2, <2>1 DEF Search!Top
  <2>4. AtEdge(stack[n - 1], stack[n - 1].i) /\ stack[n - 1].i = stack[n].a
    BY <2>2 DEF AtEdge
  <2>5. Answers(Search!Top.i)' /\ AtEdge(Search!Top, Search!Top.i)'
    BY <1>1, <1>2, <2>3, <2>4 DEF Answers, AtEdge
  <2>6. s[1].a = a
    BY <1>1, <2>1 DEF SearchInv
  <2>7. \A k \in 1 .. n - 1 : s[k].a # b /\ PastIsUseless(s[k])
    BY <1>1 DEF SearchInv
  <2>8. \A k \in 1 .. n - 1 - 1 : AtEdge(s[k], s[k + 1].a)
    <3>1. \A k \in 1 .. n - 1 - 1 : k \in 1 .. n - 1 /\ k + 1 \in 1 .. n - 1
      BY <1>1
    <3> QED
      BY <1>1, <3>1 DEF SearchInv
  <2> QED
    BY <1>1, <1>2, <1>3, <1>4, <2>1, <2>5, <2>6, <2>7, <2>8
       DEF SearchInv, PastIsUseless, AtEdge, Nodes
<1> QED
  BY <1>5, <1>6

LEMMA CallKeeps ==
  ASSUME SearchInv, Search!Call
  PROVE  SearchInv'
<1> DEFINE n == Len(stack)
           f == [a |-> Search!Top.i, i |-> -1]
           r == Append(stack, f)
<1>1. /\ stack \in Seq(Frames) /\ n \in Nat \ {0} /\ Search!Top \in Frames
      /\ Search!Top = stack[n] /\ stack # << >> /\ Search!Top.i >= 0
      /\ Search!Top.i < current_maxid /\ <<Search!Top.a, Search!Top.i>> \in follows
      /\ value = Search!NoValue
  BY TopFacts DEF SearchInv, SearchTypes, Search!Top, Search!Call, Search!Looping
<1>2. stack' = r /\ UNCHANGED <<follows, current_maxid, a, b, value>>
  BY DEF Search!Call, Search!query
<1>3. f \in Frames /\ f.a = Search!Top.i /\ f.i = -1
  BY <1>1 DEF Frames, Nodes, SearchInv, SearchTypes
<1> HIDE DEF f
<1>4. /\ r \in Seq(Frames) /\ r # << >> /\ Len(r) = n + 1
      /\ \A k \in 1 .. n : r[k] = stack[k]
      /\ r[n + 1] = f
  BY <1>1, <1>3, AppendFacts
<1> HIDE DEF r
<1>5. SearchTypes'
  BY <1>2, <1>4 DEF SearchInv, SearchTypes, Nodes, Frames
<1>6. f.a # b /\ PastIsUseless(f)
  <2>1. PastIsUseless(Search!Top)
    BY <1>1 DEF SearchInv
  <2>2. <<Search!Top.a, b>> \notin follows
    BY <1>1, <2>1 DEF PastIsUseless
  <2> QED
    BY <1>1, <1>3, <2>2 DEF PastIsUseless
<1>7. \A k \in 1 .. n + 1 : r[k].a # b /\ PastIsUseless(r[k])
  <2>1. \A k \in 1 .. n : stack[k].a # b /\ PastIsUseless(stack[k])
    BY DEF SearchInv
  <2> QED
    BY <1>1, <1>4, <1>6, <2>1
<1>8. \A k \in 1 .. n : AtEdge(r[k], r[k + 1].a)
  <2>1. \A k \in 1 .. n - 1 : AtEdge(stack[k], stack[k + 1].a)
    BY DEF SearchInv
  <2>2. AtEdge(r[n], r[n + 1].a)
    BY <1>1, <1>3, <1>4 DEF AtEdge
  <2>3. \A k \in 1 .. n - 1 : k \in 1 .. n /\ k + 1 \in 1 .. n
    BY <1>1
  <2>4. \A k \in 1 .. n - 1 : AtEdge(r[k], r[k + 1].a)
    BY <1>4, <2>1, <2>3
  <2> QED
    BY <1>1, <2>2, <2>4
<1>9. r[1].a = a
  BY <1>1, <1>4 DEF SearchInv
<1> QED
  BY <1>1, <1>2, <1>4, <1>5, <1>7, <1>8, <1>9 DEF SearchInv, PastIsUseless, AtEdge, Nodes

LEMMA SearchStepKeeps ==
  ASSUME SearchInv, [Search!Next]_(Search!vars)
  PROVE  SearchInv'
<1> USE DEF Search!NoValue
<1> DEFINE top == Search!Top
<1>f. ASSUME stack # << >>
      PROVE  /\ top \in Frames /\ top.a \in Nodes /\ top.i \in -1 .. current_maxid
             /\ top.a # b /\ PastIsUseless(top)
  <2>1. Len(stack) \in 1 .. Len(stack) /\ top \in Frames /\ top = stack[Len(stack)]
    BY <1>f, TopFacts DEF SearchInv, SearchTypes, Search!Top
  <2> QED
    BY <2>1 DEF SearchInv, Frames
<1>t. /\ current_maxid \in Nat /\ current_maxid <= SearchLocks /\ SearchLocks \in Nat
      /\ follows \subseteq Nodes \X Nodes
      /\ value \in {"none", "true", "false"} /\ b \in Nodes
  BY DEF SearchInv, SearchTypes
<1>1. CASE Search!Enter
  <2>1. stack # << >> /\ top.i = -1 /\ UNCHANGED Search!query
    BY <1>1 DEF Search!Enter
  <2>2. value = "none"
    BY <2>1 DEF SearchInv, AtEdge
  <2>3. CASE <<top.a, b>> \in follows
    <3>1. Search!Reaches(follows, top.a, b)
      BY <2>3, ReachesForward
    <3> QED
      BY <1>1, <2>1, <2>3, <3>1, ReturnKeeps DEF Search!Enter
  <2>4. CASE <<top.a, b>> \notin follows
    <3>1. PastIsUseless([top EXCEPT !.i = 0])
      BY <1>f, <2>1, <2>4 DEF PastIsUseless, Frames, Nodes
    <3>2. 0 \in 0 .. current_maxid
      BY <1>t
    <3> QED
      BY <1>1, <2>1, <2>2, <2>4, <3>1, <3>2, LoopKeeps DEF Search!Enter
  <2> QED
    BY <2>3, <2>4
<1>2. CASE Search!Call
  BY <1>2, CallKeeps
<1>3. CASE Search!Skip
  <2>1. /\ stack # << >> /\ top.i >= 0 /\ top.i < current_maxid /\ value = "none"
        /\ <<top.a, top.i>> \notin follows
        /\ Search!Loop(top.i + 1) /\ UNCHANGED Search!query /\ value' = value
    BY <1>3 DEF Search!Skip, Search!Looping
  <2>2. top.i + 1 \in 0 .. current_maxid
    BY <1>t, <1>f, <2>1
  <2>3. PastIsUseless([top EXCEPT !.i = top.i + 1])
    BY <1>f, <1>t, <2>1 DEF PastIsUseless, Frames, Nodes
  <2> QED
    BY <2>1, <2>2, <2>3, LoopKeeps
<1>4. CASE Search!Exhausted
  <2>1. /\ stack # << >> /\ top.i = current_maxid
        /\ Search!Returns("false") /\ UNCHANGED Search!query
    BY <1>4 DEF Search!Exhausted, Search!Looping
  <2>2. \A y \in Nodes : <<top.a, y>> \in follows => ~ Search!Reaches(follows, y, b)
    BY <1>f, <1>t, <2>1 DEF PastIsUseless, Nodes
  <2>3. Nodes \subseteq Search!Id
    BY <1>t DEF Nodes, Search!Id
  <2>4. ~ Search!Reaches(follows, top.a, b)
    <3>1. top.a \in Search!Id /\ top.a # b /\ follows \subseteq Search!Id \X Search!Id
      BY <1>f, <1>t, <2>1, <2>3
    <3>2. \A y \in Search!Id : <<top.a, y>> \in follows => ~ Search!Reaches(follows, y, b)
      BY <1>t, <2>2
    <3> QED
      BY <3>1, <3>2, ReachesBackward
  <2> QED
    BY <2>1, <2>4, ReturnKeeps
<1>5. CASE Search!Back
  <2>1. /\ stack # << >> /\ value # "none" /\ UNCHANGED Search!query
        /\ AtEdge(top, top.i) /\ Answers(top.i)
    BY <1>5 DEF Search!Back, SearchInv
  <2>2. CASE value = "true"
    <3>1. Search!Reaches(follows, top.i, b) /\ <<top.a, top.i>> \in follows
      BY <2>1, <2>2 DEF Answers, AtEdge
    <3>2. Search!Reaches(follows, top.a, b)
      BY <3>1, ReachesForward
    <3> QED
      BY <1>5, <2>1, <2>2, <3>2, ReturnKeeps DEF Search!Back
  <2>3. CASE value # "true"
    <3>1. ~ Search!Reaches(follows, top.i, b) /\ top.i >= 0 /\ top.i \in Nodes
      BY <1>t, <2>1, <2>3 DEF Answers, AtEdge
    <3>2. top.i + 1 \in 0 .. current_maxid
      BY <1>t, <3>1 DEF Nodes
    <3>3. PastIsUseless([top EXCEPT !.i = top.i + 1])
      BY <1>f, <1>t, <2>1, <3>1 DEF PastIsUseless, Frames, Nodes
    <3> QED
      BY <1>5, <2>1, <2>3, <3>2, <3>3, LoopKeeps DEF Search!Back
  <2> QED
    BY <2>2, <2>3
<1>6. CASE UNCHANGED Search!vars
  BY <1>6 DEF Search!vars, SearchInv, SearchTypes, PastIsUseless, AtEdge, Answers, Nodes, Frames,
              Search!Top
<1> QED
  BY <1>1, <1>2, <1>3, <1>4, <1>5, <1>6 DEF Search!Next

(* does_follow, which visits an id as often as there are paths to it and      *)
(* marks none, answers whether b comes after a in the order, in every order. *)
THEOREM SearchIsRight == Spec => []AnswersReachability
<1> DEFINE I == part = "search" => SearchInv
<1>1. Init => I
  <2> SUFFICES ASSUME Search!Init PROVE SearchInv
    BY PartsBegin
  <2> DEFINE f == [a |-> a, i |-> -1]
  <2>1. /\ current_maxid \in Nat /\ current_maxid <= SearchLocks /\ SearchLocks \in Nat
        /\ follows \subseteq Nodes \X Nodes /\ a \in Nodes /\ b \in Nodes /\ a # b
        /\ stack = <<f>> /\ value = Search!NoValue
    BY PartsAssumption DEF Search!Init, Nodes
  <2>2. f \in Frames /\ f.a = a /\ f.i = -1
    BY <2>1 DEF Frames, Nodes
  <2> HIDE DEF f
  <2>3. /\ stack \in Seq(Frames) /\ Len(stack) = 1 /\ stack[1] = f /\ stack # << >>
    BY <2>1, <2>2
  <2> QED
    BY <2>1, <2>2, <2>3 DEF SearchInv, SearchTypes, PastIsUseless
<1>2. I /\ [Next]_vars => I'
  BY PartsMove, SearchStepKeeps
<1>3. I => AnswersReachability
  BY DEF SearchInv, SearchTypes, Answers, Search!NoValue, Search!AnswersReachability,
         AnswersReachability
<1> QED
  BY <1>1, <1>2, <1>3, PTL DEF Spec

=============================================================================

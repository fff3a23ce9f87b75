---------------------------- MODULE FatalSignal ----------------------------
(***************************************************************************)
(* The handler of fatal signals, handle_oneshot_fatal_signal of            *)
(* src/src/common/signal_handler.cpp, in the threads of a process that     *)
(* run into trouble at the same time: one compare-and-swap decides which   *)
(* of them dumps and re-raises.  The handlers are installed with           *)
(* SA_NODEFER and an empty mask, so any signal may interrupt any handler,  *)
(* one of its own number included.                                         *)
(*                                                                         *)
(* A thread is a stack of contexts: the code it was running, and above it  *)
(* a context for each handler that has interrupted the one below.          *)
(***************************************************************************)
EXTENDS Naturals, Sequences, FiniteSets, SequencesExt

CONSTANTS
  Thread,
  FaultSignal,  \* what a failing instruction raises: SIGSEGV, SIGBUS, ...
  MaxTroubles   \* bound: faults, aborts and signals from outside in all

NULL_TID == "NULL_TID"
NoSignal == "none"

(* No thread's id is the one that stands for "no thread".                    *)
FatalAssumption == NULL_TID \notin Thread

(* What install_fatal_sighandlers installs the handler for.                  *)
SIGABRT == "SIGABRT"
Signal == FaultSignal \cup {SIGABRT}

(* Why a signal was raised: what happens when its handler returns.           *)
Raised ==
  {[cause |-> "fault", signum |-> s] : s \in FaultSignal}  \* the instruction is executed again
  \cup {[cause |-> "abort", signum |-> SIGABRT]}           \* abort() takes the default action
  \cup {[cause |-> "sent", signum |-> s] : s \in Signal}   \* the thread goes on

VARIABLES
  handler_tid,
  action,       \* the process's action of each signal: "handler" or SIG_DFL
  stack,        \* thread -> its contexts, the innermost last
  troubles,
  dumped,       \* threads that have written the whole dump
  dumps,        \* dumps begun
  interrupted,  \* a signal has hit the thread that dumps in the middle of its dump
  killed        \* why the process has ended

vars == <<handler_tid, action, stack, troubles, dumped, dumps, interrupted, killed>>

Alive == "alive"
Context(s, c) == [signum |-> s, cause |-> c, at |-> "entry"]
Program == [signum |-> NoSignal, cause |-> "none", at |-> "program"]

Init ==
  /\ handler_tid = NULL_TID
  /\ action = [s \in Signal |-> "handler"]
  /\ stack = [th \in Thread |-> <<Program>>]
  /\ troubles = 0
  /\ dumped = {} /\ dumps = 0
  /\ interrupted = FALSE
  /\ killed = Alive

Running == killed = Alive
Top(th) == Last(stack[th])
At(th, where) == Running /\ Top(th).at = where
Goto(th, where) == stack' = [stack EXCEPT ![th] = Append(Front(@), [Last(@) EXCEPT !.at = where])]

----------------------------------------------------------------------------
(* Signals.                                                                  *)

(* s is delivered to th: its default action dumps core and ends the process. *)
Deliver(th, s, cause) ==
  IF action[s] = "handler"
    THEN stack' = [stack EXCEPT ![th] = Append(@, Context(s, cause))] /\ UNCHANGED killed
    ELSE killed' = cause /\ UNCHANGED stack

(* A thread is sent a signal at any time, or it faults or calls abort() in   *)
(* the program or while it dumps ("this uses the heap extensively").         *)
Trouble(th, r) ==
  /\ Running /\ (r.cause = "sent" \/ At(th, "program") \/ At(th, "dump"))
  /\ interrupted' = (interrupted \/ At(th, "dump"))
  /\ troubles < MaxTroubles /\ troubles' = troubles + 1
  /\ Deliver(th, r.signum, r.cause)
  /\ UNCHANGED <<handler_tid, action, dumped, dumps>>

(* The handler returns.                                                      *)
Return(th) == Goto(th, "returned")

Again(th) ==
  /\ At(th, "returned") /\ Top(th).cause = "fault"
  /\ IF action[Top(th).signum] = "handler"
       THEN Goto(th, "entry") /\ UNCHANGED killed
       ELSE killed' = "fault" /\ UNCHANGED stack
  /\ UNCHANGED <<handler_tid, action, troubles, dumped, dumps, interrupted>>

AbortGoesOn(th) ==
  /\ At(th, "returned") /\ Top(th).cause = "abort"
  /\ killed' = "abort"
  /\ action' = [action EXCEPT ![Top(th).signum] = "SIG_DFL"]
  /\ UNCHANGED <<handler_tid, stack, troubles, dumped, dumps, interrupted>>

Resume(th) ==
  /\ At(th, "returned") /\ Top(th).cause = "sent"
  /\ stack' = [stack EXCEPT ![th] = Front(@)]
  /\ UNCHANGED <<handler_tid, action, troubles, dumped, dumps, interrupted, killed>>

----------------------------------------------------------------------------
(* handle_oneshot_fatal_signal                                               *)

(* The variant lets the thread that dumps begin again.                       *)
nobody_else_handles(th) == handler_tid \in {NULL_TID, th}
exchanges(th) == handler_tid = NULL_TID

First(th) ==
  /\ At(th, "entry") /\ exchanges(th)
  /\ handler_tid' = th
  /\ dumps' = dumps + 1
  /\ Goto(th, "dump")
  /\ UNCHANGED <<action, troubles, dumped, interrupted, killed>>

(* The variants: every loser gives the signal its default action; none does. *)
any_loser(th) == TRUE
no_loser(th) == FALSE
same_thread(th) == handler_tid = th

(* "The handler code may itself trigger a SIGSEGV"; "Huh, another thread got *)
(* into troubles".                                                           *)
NotFirst(th) ==
  /\ At(th, "entry") /\ ~ exchanges(th)
  /\ action' = IF same_thread(th) THEN [action EXCEPT ![Top(th).signum] = "SIG_DFL"] ELSE action
  /\ Return(th)
  /\ UNCHANGED <<handler_tid, troubles, dumped, dumps, interrupted, killed>>

(* Name, signal and backtrace are written.                                   *)
Dump(th) ==
  /\ At(th, "dump")
  /\ dumped' = dumped \cup {th}
  /\ Goto(th, "reraise")
  /\ UNCHANGED <<handler_tid, action, troubles, dumps, interrupted, killed>>

(* reraise_fatal: signal(signum, SIG_DFL), ...                               *)
Reraise(th) ==
  /\ At(th, "reraise")
  /\ action' = [action EXCEPT ![Top(th).signum] = "SIG_DFL"]
  /\ Goto(th, "raise")
  /\ UNCHANGED <<handler_tid, troubles, dumped, dumps, interrupted, killed>>

(* ... raise(signum), which does not return.                                 *)
Raise(th) ==
  /\ At(th, "raise")
  /\ Deliver(th, Top(th).signum, "sent")
  /\ UNCHANGED <<handler_tid, action, troubles, dumped, dumps, interrupted>>

Handler(th) ==
  \/ First(th) \/ NotFirst(th) \/ Dump(th) \/ Reraise(th) \/ Raise(th)
  \/ Again(th) \/ AbortGoesOn(th) \/ Resume(th)

Next ==
  \E th \in Thread : Handler(th) \/ \E r \in Raised : Trouble(th, r)

Fairness == \A th \in Thread : WF_vars(Handler(th))

Spec == Init /\ [][Next]_vars /\ Fairness

----------------------------------------------------------------------------
(* Properties.                                                               *)

(* However many threads fail, and however often, one of them dumps, once:     *)
(* the dump of one thread is not mixed with another's.                       *)
DumpsOnce == dumps <= 1 /\ Cardinality(dumped) <= 1

(* The process does not end before the dump is written, unless the thread    *)
(* that dumps is hit by another fatal signal or some thread calls abort():   *)
(* threads that fault meanwhile, over and over, do not cut the dump short    *)
(* ("all those extra threads will run into a busy-wait basically").          *)
DumpNotCutShort ==
  ~ Running /\ dumped = {} => interrupted \/ killed = "abort"

(* A process whose fatal signal has been caught ends, whatever fails on the  *)
(* way.                                                                      *)
Ends == (handler_tid # NULL_TID) ~> ~ Running
=============================================================================

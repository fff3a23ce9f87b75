---------------------------- MODULE AsyncSignal ----------------------------
(***************************************************************************)
(* The asynchronous signal handler (src/src/common/signal_handler_async.cpp) *)
(* A signal hook, which may interrupt any thread at any of its steps and    *)
(* takes no lock, writes a byte into the pipe of the signal's handler; one  *)
(* thread polls all those pipes and calls the handlers back.  A caller      *)
(* registers and unregisters handlers, starts and shuts down the whole.     *)
(*                                                                          *)
(* The environment: the kernel delivers a signal to the calling thread or   *)
(* to the polling one (Thread::try_create blocks only SIGPIPE there); a     *)
(* poll that a signal interrupts returns EINTR; the hook runs with all      *)
(* signals masked, so it is not interrupted itself.  The caller registers a *)
(* signal again only after it unregistered it, and shuts down only when no  *)
(* hook is installed.  A hook that runs when the caller unregisters its     *)
(* signal goes on: nothing in unregister_handler waits for it.              *)
(***************************************************************************)
EXTENDS Naturals, FiniteSets

CONSTANTS
  NumSignals,      \* signals 0 .. NumSignals-1 (32 in the code)
  MaxHandlers,     \* bound: safe_handler objects created
  MaxSignals       \* bound: signals sent

ASSUME SignalAssumption ==
  NumSignals \in Nat \ {0} /\ MaxHandlers \in Nat /\ MaxSignals \in Nat

Signum == 0 .. (NumSignals - 1)
safe_handler == 1 .. MaxHandlers
NULL == 0
Caller == "caller"
Poller == "poller"      \* the thread of AsyncSignalHandler
Thread == {Caller, Poller}

VARIABLES
  handlers,    \* signal -> its safe_handler or NULL
  action,      \* signal -> "default", "hook" or "oneshot" (SA_RESETHAND)
  stop,
  lock,        \* the poller holds AsyncSignalHandler::lock over a step
  kicks,       \* bytes in the pipe of the handler thread
  bytes,       \* safe_handler -> bytes in its pipe
  created,     \* safe_handlers created so far
  deleted,     \* and those deleted
  pc,          \* thread -> where it is
  call,        \* the caller's operation: its signal, its h and its oneshot
  fds,         \* the poller: the safe_handlers whose pipes it polls
  signum,      \* the poller: its loop variable
  hook,        \* thread -> the hook that interrupts it
  sent,        \* signals sent
  failed       \* an assertion failed or freed memory was used

(* History.                                                                  *)
VARIABLE
  overtaken    \* threads whose hook ran, or runs, when its entry was removed

vars == <<handlers, action, stop, lock, kicks, bytes, created, deleted, pc, call,
          fds, signum, hook, sent, failed, overtaken>>
pipes == <<kicks, bytes>>
objects == <<created, deleted>>
signals == <<hook, sent, failed, overtaken>>
polling == <<fds, signum>>

NoHook == [at |-> "none", sig |-> 0, h |-> NULL]
NoCall == [sig |-> 0, h |-> NULL, oneshot |-> FALSE]

Init ==
  /\ handlers = [s \in Signum |-> NULL]
  /\ action = [s \in Signum |-> "default"]
  /\ stop = FALSE /\ lock = FALSE
  /\ kicks = 0 /\ bytes = [o \in safe_handler |-> 0]
  /\ created = 0 /\ deleted = {}
  /\ pc = [t \in Thread |-> "down"]
  /\ call = NoCall
  /\ fds = {} /\ signum = 0
  /\ hook = [t \in Thread |-> NoHook]
  /\ sent = 0 /\ failed = FALSE /\ overtaken = {}

(* A thread takes a step of its own only when no hook interrupts it.         *)
At(t, l) == pc[t] = l /\ hook[t].at = "none" /\ ~failed
Goto(t, l) == pc' = [pc EXCEPT ![t] = l]

----------------------------------------------------------------------------
(* The caller.                                                               *)

start_async_signal_handler ==
  /\ At(Caller, "down")
  /\ handlers' = [s \in Signum |-> NULL]
  /\ stop' = FALSE /\ kicks' = 0
  /\ pc' = [pc EXCEPT ![Caller] = "idle", ![Poller] = "top"]
  /\ UNCHANGED <<action, lock, bytes, objects, call, polling, signals>>

(* A new safe_handler, known to nobody yet.                                  *)
register_async_signal_handler(s, oneshot) ==
  /\ At(Caller, "idle") /\ handlers[s] = NULL /\ created < MaxHandlers
  /\ created' = created + 1
  /\ call' = [sig |-> s, h |-> created + 1, oneshot |-> oneshot]
  /\ Goto(Caller, "enter")
  /\ UNCHANGED <<handlers, action, stop, lock, pipes, deleted, polling, signals>>

(* Variant: the thread is not signalled.                                     *)
EnterUnsignalled ==
  /\ At(Caller, "enter") /\ ~lock
  /\ handlers' = [handlers EXCEPT ![call.sig] = call.h]
  /\ Goto(Caller, "install")
  /\ UNCHANGED <<action, stop, lock, pipes, objects, call, polling, signals>>

(* handlers[signum] = h, under the lock.                                     *)
Enter ==
  /\ At(Caller, "enter") /\ ~lock
  /\ handlers' = [handlers EXCEPT ![call.sig] = call.h]
  /\ Goto(Caller, "signal_thread")
  /\ UNCHANGED <<action, stop, lock, pipes, objects, call, polling, signals>>

signal_thread ==
  /\ At(Caller, "signal_thread")
  /\ kicks' = kicks + 1
  /\ Goto(Caller, IF stop THEN "join" ELSE "install")
  /\ UNCHANGED <<handlers, action, stop, lock, bytes, objects, call, polling, signals>>

(* sigaction(signum, &act, &oldact)                                          *)
Install ==
  /\ At(Caller, "install")
  /\ action' = [action EXCEPT ![call.sig] = IF call.oneshot THEN "oneshot" ELSE "hook"]
  /\ call' = NoCall
  /\ Goto(Caller, "idle")
  /\ UNCHANGED <<handlers, stop, lock, pipes, objects, polling, signals>>

(* The threads whose hook for s has begun.                                   *)
Hooked(s) == {t \in Thread : hook[t].at # "none" /\ hook[t].sig = s}

(* Variant: the entry is removed before the default action is restored.      *)
UnregisterEntryFirst(s) ==
  /\ At(Caller, "idle") /\ handlers[s] # NULL /\ ~lock
  /\ call' = [NoCall EXCEPT !.sig = s, !.h = handlers[s]]
  /\ handlers' = [handlers EXCEPT ![s] = NULL]
  /\ overtaken' = overtaken \cup Hooked(s)
  /\ Goto(Caller, "restore")
  /\ UNCHANGED <<action, stop, lock, pipes, objects, polling, hook, sent, failed>>

unregister_async_signal_handler(s) ==
  /\ At(Caller, "idle") /\ handlers[s] # NULL
  /\ call' = [NoCall EXCEPT !.sig = s, !.h = handlers[s]]
  /\ Goto(Caller, "restore")
  /\ UNCHANGED <<handlers, action, stop, lock, pipes, objects, polling, signals>>

(* signal(signum, SIG_DFL)                                                   *)
Restore ==
  /\ At(Caller, "restore")
  /\ action' = [action EXCEPT ![call.sig] = "default"]
  /\ Goto(Caller, "remove")
  /\ UNCHANGED <<handlers, stop, lock, pipes, objects, call, polling, signals>>

(* Variant: the entry is removed without the lock.                           *)
RemoveUnlocked ==
  /\ At(Caller, "remove")
  /\ handlers' = [handlers EXCEPT ![call.sig] = NULL]
  /\ overtaken' = overtaken \cup Hooked(call.sig)
  /\ Goto(Caller, "delete")
  /\ UNCHANGED <<action, stop, lock, pipes, objects, call, polling, hook, sent, failed>>

(* handlers[signum] = NULL, under the lock.                                  *)
Remove ==
  /\ At(Caller, "remove") /\ ~lock
  /\ handlers' = [handlers EXCEPT ![call.sig] = NULL]
  /\ overtaken' = overtaken \cup Hooked(call.sig)
  /\ Goto(Caller, "delete")
  /\ UNCHANGED <<action, stop, lock, pipes, objects, call, polling, hook, sent, failed>>

(* close both ends of the pipe and delete h                                  *)
Delete ==
  /\ At(Caller, "delete")
  /\ deleted' = deleted \cup {call.h}
  /\ call' = NoCall
  /\ Goto(Caller, "idle")
  /\ UNCHANGED <<handlers, action, stop, lock, pipes, created, polling, signals>>

queue_async_signal(s) ==
  /\ At(Caller, "idle") /\ handlers[s] # NULL /\ sent < MaxSignals
  /\ bytes' = [bytes EXCEPT ![handlers[s]] = @ + 1]
  /\ sent' = sent + 1
  /\ UNCHANGED <<handlers, action, stop, lock, kicks, objects, pc, call, polling, hook, failed,
                 overtaken>>

(* Variant: the thread is not signalled.                                     *)
ShutdownUnsignalled ==
  /\ At(Caller, "idle") /\ \A s \in Signum : action[s] = "default"
  /\ stop' = TRUE
  /\ Goto(Caller, "join")
  /\ UNCHANGED <<handlers, action, lock, pipes, objects, call, polling, signals>>

(* delete g_signal_handler: shutdown, stop = true.                           *)
shutdown_async_signal_handler ==
  /\ At(Caller, "idle") /\ \A s \in Signum : action[s] = "default"
  /\ stop' = TRUE
  /\ Goto(Caller, "signal_thread")
  /\ UNCHANGED <<handlers, action, lock, pipes, objects, call, polling, signals>>

(* join() returns; the AsyncSignalHandler is gone, handlers still in it leak.*)
Join ==
  /\ At(Caller, "join") /\ pc[Poller] = "exited"
  /\ handlers' = [s \in Signum |-> NULL]
  /\ pc' = [t \in Thread |-> "down"]
  /\ UNCHANGED <<action, stop, lock, pipes, objects, call, polling, signals>>

----------------------------------------------------------------------------
(* The hook, in the thread t.                                                *)

(* The kernel: SA_RESETHAND restores the default action on delivery; a poll  *)
(* that is interrupted fails with EINTR.                                     *)
Deliver(t, s) ==
  /\ At(t, pc[t]) /\ pc[t] \notin {"exited", "down"}
  /\ action[s] # "default" /\ sent < MaxSignals
  /\ sent' = sent + 1
  /\ hook' = [hook EXCEPT ![t] = [at |-> "assert", sig |-> s, h |-> NULL]]
  /\ action' = [action EXCEPT ![s] = IF @ = "oneshot" THEN "default" ELSE @]
  /\ overtaken' = overtaken \ {t}
  /\ IF t = Poller /\ pc[t] = "poll" THEN Goto(t, "interrupted") ELSE UNCHANGED pc
  /\ UNCHANGED <<handlers, stop, lock, pipes, objects, call, polling, failed>>

InHook(t, l) == hook[t].at = l /\ ~failed
HookGoto(t, l) == hook' = [hook EXCEPT ![t].at = l]
UnchangedByHook ==
  <<handlers, action, stop, lock, kicks, objects, pc, call, polling, sent, overtaken>>

(* assert(handlers[signum])                                                  *)
HookAsserts(t) ==
  /\ InHook(t, "assert")
  /\ LET h == handlers[hook[t].sig] IN
     /\ hook' = [hook EXCEPT ![t].at = "memcpy", ![t].h = h]
     /\ failed' = (h = NULL)
  /\ UNCHANGED <<UnchangedByHook, bytes>>

(* handlers[signum] is read without the lock each time it is used; the build *)
(* may reuse the value it read before.                                       *)
Loaded(t) == {hook[t].h, handlers[hook[t].sig]}
Dangling(h) == h = NULL \/ h \in deleted

(* memcpy(&handlers[signum]->info_t, siginfo, ...)                           *)
HookCopies(t) ==
  /\ InHook(t, "memcpy")
  /\ \E h \in Loaded(t) :
       /\ hook' = [hook EXCEPT ![t].at = "write", ![t].h = h]
       /\ failed' = Dangling(h)
  /\ UNCHANGED <<UnchangedByHook, bytes>>

(* Variant: the hook takes the lock to write.                                *)
HookWritesLocked(t) ==
  /\ InHook(t, "write") /\ ~lock
  /\ \E h \in Loaded(t) :
       /\ failed' = Dangling(h)
       /\ bytes' = IF Dangling(h) THEN bytes ELSE [bytes EXCEPT ![h] = @ + 1]
  /\ hook' = [hook EXCEPT ![t] = NoHook]
  /\ UNCHANGED UnchangedByHook

(* write(handlers[signum]->pipefd[1], " ", 1)                                *)
HookWrites(t) ==
  /\ InHook(t, "write")
  /\ \E h \in Loaded(t) :
       /\ failed' = Dangling(h)
       /\ bytes' = IF Dangling(h) THEN bytes ELSE [bytes EXCEPT ![h] = @ + 1]
  /\ hook' = [hook EXCEPT ![t] = NoHook]
  /\ UNCHANGED UnchangedByHook

----------------------------------------------------------------------------
(* AsyncSignalHandler::entry, in the poller.                                 *)

registered == {handlers[s] : s \in Signum} \ {NULL}

(* while (!stop)                                                             *)
Exit ==
  /\ At(Poller, "top") /\ stop
  /\ Goto(Poller, "exited")
  /\ UNCHANGED <<handlers, action, stop, lock, pipes, objects, call, polling, signals>>

(* The pipes to poll, collected under the lock.                              *)
Build ==
  /\ At(Poller, "top") /\ ~stop
  /\ fds' = registered
  /\ Goto(Poller, "poll")
  /\ UNCHANGED <<handlers, action, stop, lock, pipes, objects, call, signum, signals>>

(* Data in the thread's own pipe or in a polled one, or a polled pipe that   *)
(* was closed (POLLHUP, POLLNVAL).                                           *)
Ready == kicks > 0 \/ \E h \in fds : bytes[h] > 0 \/ h \in deleted

PollReturns ==
  /\ At(Poller, "poll") /\ Ready
  /\ Goto(Poller, IF stop THEN "exited" ELSE "readable")
  /\ UNCHANGED <<handlers, action, stop, lock, pipes, objects, call, polling, signals>>

PollInterrupted ==
  /\ At(Poller, "interrupted")
  /\ Goto(Poller, IF stop THEN "exited" ELSE "top")
  /\ UNCHANGED <<handlers, action, stop, lock, pipes, objects, call, polling, signals>>

(* Consume a byte of the thread's own pipe, if any.                          *)
ReadKick ==
  /\ At(Poller, "readable")
  /\ kicks' = IF kicks > 0 THEN kicks - 1 ELSE 0
  /\ Goto(Poller, "lock")
  /\ UNCHANGED <<handlers, action, stop, lock, bytes, objects, call, polling, signals>>

Lock ==
  /\ At(Poller, "lock")
  /\ lock' = TRUE /\ signum' = 0
  /\ Goto(Poller, "scan")
  /\ UNCHANGED <<handlers, action, stop, pipes, objects, call, fds, signals>>

(* Variant: the handler is called whether or not a byte was read.            *)
ScanUnread ==
  /\ At(Poller, "scan") /\ signum < NumSignals /\ handlers[signum] # NULL
  /\ bytes' = [bytes EXCEPT ![handlers[signum]] = @ - 1]
  /\ Goto(Poller, "handler")
  /\ UNCHANGED <<handlers, action, stop, lock, kicks, objects, call, polling, signals>>

HasByte(s) == handlers[s] # NULL /\ bytes[handlers[s]] > 0

(* read() got the byte of handlers[signum].                                  *)
Scan ==
  /\ At(Poller, "scan") /\ signum < NumSignals /\ HasByte(signum)
  /\ bytes' = [bytes EXCEPT ![handlers[signum]] = @ - 1]
  /\ Goto(Poller, "handler")
  /\ UNCHANGED <<handlers, action, stop, lock, kicks, objects, call, polling, signals>>

(* No handler, or no byte.                                                   *)
Skip ==
  /\ At(Poller, "scan") /\ signum < NumSignals /\ ~HasByte(signum)
  /\ signum' = signum + 1
  /\ UNCHANGED <<handlers, action, stop, lock, pipes, objects, pc, call, fds, signals>>

(* handlers[signum]->handler(signum) returns.                                *)
Handled ==
  /\ At(Poller, "handler")
  /\ signum' = signum + 1
  /\ Goto(Poller, "scan")
  /\ UNCHANGED <<handlers, action, stop, lock, pipes, objects, call, fds, signals>>

Unlock ==
  /\ At(Poller, "scan") /\ signum = NumSignals
  /\ lock' = FALSE /\ signum' = 0
  /\ Goto(Poller, "top")
  /\ UNCHANGED <<handlers, action, stop, pipes, objects, call, fds, signals>>

PollerSteps ==
  \/ Exit \/ Build \/ PollReturns \/ PollInterrupted \/ ReadKick \/ Lock
  \/ Scan \/ Skip \/ Handled \/ Unlock

HookSteps(t) == HookAsserts(t) \/ HookCopies(t) \/ HookWrites(t)

(* The rest of an operation the caller began.                                *)
CallerSteps == Enter \/ signal_thread \/ Install \/ Restore \/ Remove \/ Delete \/ Join

Next ==
  \/ start_async_signal_handler
  \/ shutdown_async_signal_handler
  \/ \E s \in Signum :
       \/ \E oneshot \in BOOLEAN : register_async_signal_handler(s, oneshot)
       \/ unregister_async_signal_handler(s)
       \/ queue_async_signal(s)
  \/ CallerSteps
  \/ PollerSteps
  \/ \E t \in Thread : HookSteps(t) \/ \E s \in Signum : Deliver(t, s)

Spec == Init /\ [][Next]_vars

(* Both threads and the hooks in them go on; no operation has to be called   *)
(* and no signal sent.                                                       *)
Fairness ==
  /\ WF_vars(CallerSteps) /\ WF_vars(PollerSteps)
  /\ \A t \in Thread : WF_vars(HookSteps(t))

FairSpec == Spec /\ Fairness

----------------------------------------------------------------------------
(* Types and bounds.                                                         *)
TypeOK ==
  /\ handlers \in [Signum -> safe_handler \cup {NULL}]
  /\ action \in [Signum -> {"default", "hook", "oneshot"}]
  /\ stop \in BOOLEAN /\ lock \in BOOLEAN /\ failed \in BOOLEAN
  /\ kicks \in 0 .. (MaxHandlers + 1)
  /\ bytes \in [safe_handler -> 0 .. MaxSignals]
  /\ created \in 0 .. MaxHandlers /\ deleted \subseteq 1 .. created
  /\ pc[Caller] \in {"down", "idle", "enter", "signal_thread", "install",
                     "restore", "remove", "delete", "join"}
  /\ pc[Poller] \in {"down", "top", "poll", "interrupted", "readable", "lock", "scan",
                     "handler", "exited"}
  /\ call \in [sig : Signum, h : safe_handler \cup {NULL}, oneshot : BOOLEAN]
  /\ fds \subseteq safe_handler /\ signum \in 0 .. NumSignals
  /\ hook \in [Thread -> [at : {"none", "assert", "memcpy", "write"}, sig : Signum,
                          h : safe_handler \cup {NULL}]]
  /\ sent \in 0 .. MaxSignals /\ overtaken \subseteq Thread

(* "We can do this without the lock because we will never have the signal    *)
(* handler defined without the handlers entry also being filled in."         *)
(* (queue_signal, queue_signal_info.)  Neither the assertion of the hook     *)
(* fails nor does it touch a safe_handler that unregister_handler deleted.   *)
HookFindsHandler == ~failed

(* What the order of register_handler (entry, then sigaction) and of          *)
(* unregister_handler (default action, then entry) does give: the hook that   *)
(* fails ran already when unregister_handler removed its entry; none that     *)
(* the kernel starts later finds the entry gone.                             *)
OnlyOvertakenHooksFail ==
  [][~failed /\ failed' => \E t \in overtaken : hook'[t] # hook[t]]_vars

(* While the poller is in a handler, holding the lock, that handler stays    *)
(* registered and its safe_handler is not deleted: the lock of               *)
(* unregister_handler waits for the callback.                                *)
CallbackIsLive ==
  pc[Poller] = "handler" => handlers[signum] # NULL /\ handlers[signum] \notin deleted

(* A poller asleep in poll, with nothing in its own pipe, polls the pipe of  *)
(* every handler a hook may write to: signal_thread in register_handler is   *)
(* before sigaction, so that the new pipe is polled first or the poll        *)
(* returns.                                                                  *)
SleeperPollsAll ==
  pc[Poller] = "poll" /\ kicks = 0 =>
    \A s \in Signum : action[s] # "default" => handlers[s] \in fds

(* A signal written into the pipe of a registered handler is read by the     *)
(* poller, which then calls the handler, unless it is unregistered first,    *)
(* all is shut down or an overtaken hook ends the process.                   *)
SignalHandled ==
  \A h \in safe_handler :
    (h \in registered /\ bytes[h] > 0) ~> (bytes[h] = 0 \/ h \notin registered \/ failed)

(* The destructor's join returns: stop is set before the byte that wakes the *)
(* poller is written, so it cannot fall asleep in between.  (An overtaken     *)
(* hook in the poller may end the process first.)                            *)
ShutdownReturns == (stop /\ pc[Caller] # "down") ~> (pc[Caller] = "down" \/ failed)

=============================================================================

------------------------- MODULE AsyncSignalProofs -------------------------
(***************************************************************************)
(* Proofs about the asynchronous signal handler, for any number of signals *)
(* and of handlers, in any interleaving of caller, poller and hooks.       *)
(***************************************************************************)
EXTENDS AsyncSignal, Integers, TLAPS

----------------------------------------------------------------------------
(* The inductive invariant.                                                  *)

CallerPlaces == {"down", "idle", "enter", "signal_thread", "install", "restore", "remove",
                 "delete", "join"}
PollerPlaces == {"down", "top", "poll", "interrupted", "readable", "lock", "scan", "handler",
                 "exited"}
Objects == safe_handler \cup {NULL}
Hooks == [at : {"none", "assert", "memcpy", "write"}, sig : Signum, h : Objects]

Types ==
  /\ handlers \in [Signum -> Objects]
  /\ action \in [Signum -> {"default", "hook", "oneshot"}]
  /\ stop \in BOOLEAN /\ lock \in BOOLEAN /\ failed \in BOOLEAN
  /\ kicks \in Nat /\ bytes \in [safe_handler -> Nat]
  /\ created \in 0 .. MaxHandlers /\ deleted \subseteq 1 .. created
  /\ pc \in [Thread -> CallerPlaces \cup PollerPlaces]
  /\ pc[Caller] \in CallerPlaces /\ pc[Poller] \in PollerPlaces
  /\ call \in [sig : Signum, h : Objects, oneshot : BOOLEAN]
  /\ fds \subseteq safe_handler /\ signum \in 0 .. NumSignals
  /\ hook \in [Thread -> Hooks]
  /\ sent \in 0 .. MaxSignals /\ overtaken \subseteq Thread

(* A registered safe_handler exists, for one signal.                         *)
Registered ==
  /\ \A s \in Signum : handlers[s] # NULL => handlers[s] \in (1 .. created) \ deleted
  /\ \A r, s \in Signum : handlers[r] = handlers[s] /\ handlers[r] # NULL => r = s

(* What the caller is in the middle of.                                      *)
Entering == pc[Caller] = "signal_thread" /\ ~ stop

InCall ==
  /\ pc[Caller] \in {"enter", "delete"} =>
       /\ call.h \in (1 .. created) \ deleted
       /\ \A s \in Signum : handlers[s] # call.h
       /\ handlers[call.sig] = NULL
  /\ Entering \/ pc[Caller] \in {"install", "restore", "remove"} =>
       handlers[call.sig] = call.h /\ call.h # NULL
  /\ pc[Caller] \in {"enter", "remove"} \/ Entering => action[call.sig] = "default"

(* No hook without its entry, ...                                            *)
EntryBeforeHook == \A s \in Signum : action[s] # "default" => handlers[s] # NULL

(* ... neither installed nor running, whose pointer is the entry's, unless    *)
(* the entry was removed while the hook ran.                                 *)
HookHasEntry ==
  \A t \in Thread \ overtaken :
    hook[t].at # "none" =>
      /\ handlers[hook[t].sig] # NULL
      /\ hook[t].at # "assert" => hook[t].h = handlers[hook[t].sig]

(* The life of the AsyncSignalHandler.                                       *)
Life ==
  /\ stop => pc[Caller] \in {"signal_thread", "join", "down"}
  /\ pc[Caller] = "join" => stop
  /\ pc[Caller] = "down" <=> pc[Poller] = "down"
  /\ pc[Poller] = "exited" => stop
  /\ stop \/ pc[Caller] = "down" => \A s \in Signum : action[s] = "default"
  /\ pc[Caller] = "down" => hook[Caller].at = "none"
  /\ pc[Poller] \in {"exited", "down"} => hook[Poller].at = "none"

(* The poller has the lock over its scan.                                    *)
Scanning ==
  /\ lock <=> pc[Poller] \in {"scan", "handler"}
  /\ pc[Poller] = "handler" => signum \in Signum /\ handlers[signum] # NULL

(* A poll that nothing wakes is over all pipes, but that of the handler      *)
(* whose registration is about to wake it.                                   *)
Polled ==
  pc[Poller] = "poll" /\ kicks = 0 =>
    \A s \in Signum :
      handlers[s] # NULL /\ ~ (pc[Caller] = "signal_thread" /\ s = call.sig) =>
        handlers[s] \in fds

IInv ==
  /\ Types /\ Registered /\ InCall /\ EntryBeforeHook /\ HookHasEntry /\ Life /\ Scanning
  /\ Polled

LEMMA InvInit ==
  ASSUME SignalAssumption, Init
  PROVE  IInv
<1>1. 0 \in Signum /\ NULL = 0
  BY DEF Signum, SignalAssumption, NULL
<1>2. NoHook \in Hooks /\ NoHook.at = "none"
  BY <1>1 DEF NoHook, Hooks, Objects
<1>3. NoCall \in [sig : Signum, h : Objects, oneshot : BOOLEAN]
  BY <1>1 DEF NoCall, Objects
<1>4. Types
  <2>1. /\ handlers \in [Signum -> Objects]
        /\ action \in [Signum -> {"default", "hook", "oneshot"}]
        /\ call \in [sig : Signum, h : Objects, oneshot : BOOLEAN]
        /\ fds \subseteq safe_handler /\ signum \in 0 .. NumSignals
    BY <1>1, <1>3 DEF Init, SignalAssumption, Objects
  <2>2. /\ kicks \in Nat /\ bytes \in [safe_handler -> Nat] /\ sent \in 0 .. MaxSignals
        /\ created \in 0 .. MaxHandlers /\ deleted \subseteq 1 .. created
    BY DEF Init, SignalAssumption
  <2>3. stop \in BOOLEAN /\ lock \in BOOLEAN /\ failed \in BOOLEAN /\ overtaken \subseteq Thread
    BY DEF Init
  <2>4. /\ pc \in [Thread -> CallerPlaces \cup PollerPlaces]
        /\ pc[Caller] \in CallerPlaces /\ pc[Poller] \in PollerPlaces
        /\ hook \in [Thread -> Hooks]
    BY <1>2 DEF Init, CallerPlaces, PollerPlaces, Thread
  <2> QED
    BY <2>1, <2>2, <2>3, <2>4 DEF Types
<1>5. Life
  BY <1>2 DEF Init, Life, Thread, Caller, Poller
<1>6. Registered /\ InCall /\ EntryBeforeHook /\ HookHasEntry /\ Scanning /\ Polled
  BY <1>2
  DEF Init, Registered, InCall, Entering, EntryBeforeHook, HookHasEntry, Scanning, Polled,
      Thread, Caller, Poller
<1> QED
  BY <1>4, <1>5, <1>6 DEF IInv

----------------------------------------------------------------------------
(* The caller.                                                               *)

LEMMA RegisterKeeps ==
  ASSUME SignalAssumption, IInv, NEW s \in Signum, NEW oneshot \in BOOLEAN,
         register_async_signal_handler(s, oneshot)
  PROVE  IInv'
<1>1. /\ pc[Caller] = "idle" /\ handlers[s] = NULL /\ created < MaxHandlers
      /\ created' = created + 1 /\ pc' = [pc EXCEPT ![Caller] = "enter"]
      /\ call' = [sig |-> s, h |-> created + 1, oneshot |-> oneshot]
      /\ UNCHANGED <<handlers, action, stop, lock, kicks, bytes, deleted, fds, signum, hook,
                     sent, failed, overtaken>>
  BY DEF register_async_signal_handler, At, Goto, pipes, polling, signals
<1>2. pc'[Caller] = "enter" /\ pc'[Poller] = pc[Poller]
  BY <1>1 DEF IInv, Types, Thread, Caller, Poller
<1>3. created + 1 \in 1 .. MaxHandlers /\ created \in Nat
  BY <1>1 DEF IInv, Types, SignalAssumption
<1>4. Types'
  BY <1>1, <1>2, <1>3 DEF IInv, Types, safe_handler, Objects, CallerPlaces, SignalAssumption
<1>5. Registered'
  BY <1>1, <1>3 DEF IInv, Registered
<1>6. InCall'
  <2>1. \A r \in Signum : handlers[r] # created + 1
    BY <1>3 DEF IInv, Registered, NULL
  <2>2. created + 1 \in (1 .. created + 1) \ deleted
    BY <1>3 DEF IInv, Types
  <2>3. action[s] = "default"
    BY <1>1 DEF IInv, EntryBeforeHook
  <2> QED
    BY <1>1, <1>2, <2>1, <2>2, <2>3 DEF InCall, Entering
<1>7. EntryBeforeHook' /\ HookHasEntry' /\ Scanning' /\ Polled'
  BY <1>1, <1>2 DEF IInv, EntryBeforeHook, HookHasEntry, Scanning, Polled
<1>8. Life'
  BY <1>1, <1>2 DEF IInv, Life
<1> QED
  BY <1>4, <1>5, <1>6, <1>7, <1>8 DEF IInv

(* Steps of the caller from one place to the next; u is what changes besides. *)
LEMMA CallerGoes ==
  ASSUME IInv, NEW l \in CallerPlaces, pc' = [pc EXCEPT ![Caller] = l]
  PROVE  /\ pc'[Caller] = l /\ pc'[Poller] = pc[Poller]
         /\ pc' \in [Thread -> CallerPlaces \cup PollerPlaces]
BY DEF IInv, Types, Thread, Caller, Poller

LEMMA EnterKeeps ==
  ASSUME IInv, Enter
  PROVE  IInv'
<1>1. /\ pc[Caller] = "enter" /\ ~ lock /\ pc' = [pc EXCEPT ![Caller] = "signal_thread"]
      /\ handlers' = [handlers EXCEPT ![call.sig] = call.h]
      /\ UNCHANGED <<action, stop, lock, kicks, bytes, created, deleted, call, fds, signum,
                     hook, sent, failed, overtaken>>
  BY DEF Enter, At, Goto, pipes, objects, polling, signals
<1>2. /\ pc'[Caller] = "signal_thread" /\ pc'[Poller] = pc[Poller]
      /\ pc' \in [Thread -> CallerPlaces \cup PollerPlaces]
  BY <1>1, CallerGoes DEF CallerPlaces
<1>3. /\ call.sig \in Signum /\ call.h \in (1 .. created) \ deleted
      /\ \A s \in Signum : handlers[s] # call.h
      /\ handlers[call.sig] = NULL /\ call.h # NULL
      /\ action[call.sig] = "default"
  BY <1>1 DEF IInv, Types, InCall, NULL
<1>4. handlers'[call.sig] = call.h /\ \A s \in Signum : s # call.sig => handlers'[s] = handlers[s]
  BY <1>1, <1>3 DEF IInv, Types
<1>5. Types'
  <2>1. call.h \in Objects
    BY DEF IInv, Types
  <2> QED
    BY <1>1, <1>2, <2>1 DEF IInv, Types, CallerPlaces
<1>6. Registered'
  BY <1>1, <1>3, <1>4 DEF IInv, Registered
<1>7. InCall'
  BY <1>1, <1>2, <1>3, <1>4 DEF InCall
<1>8. EntryBeforeHook' /\ HookHasEntry' /\ Scanning' /\ Polled'
  <2>1. \A s \in Signum : handlers[s] # NULL => handlers'[s] = handlers[s]
    BY <1>3, <1>4
  <2>2. EntryBeforeHook'
    BY <1>1, <2>1 DEF IInv, EntryBeforeHook
  <2>3. HookHasEntry'
    BY <1>1, <2>1 DEF IInv, Types, Hooks, HookHasEntry
  <2>4. Scanning'
    BY <1>1, <1>2 DEF IInv, Scanning
  <2>5. Polled'
    BY <1>1, <1>2, <1>4 DEF IInv, Polled
  <2> QED
    BY <2>2, <2>3, <2>4, <2>5
<1>9. Life'
  BY <1>1, <1>2 DEF IInv, Life
<1> QED
  BY <1>5, <1>6, <1>7, <1>8, <1>9 DEF IInv

LEMMA SignalThreadKeeps ==
  ASSUME IInv, signal_thread
  PROVE  IInv'
<1> DEFINE l == IF stop THEN "join" ELSE "install"
<1>1. /\ pc[Caller] = "signal_thread" /\ pc' = [pc EXCEPT ![Caller] = l] /\ kicks' = kicks + 1
      /\ UNCHANGED <<handlers, action, stop, lock, bytes, created, deleted, call, fds, signum,
                     hook, sent, failed, overtaken>>
  BY DEF signal_thread, At, Goto, pipes, objects, polling, signals
<1>2. /\ pc'[Caller] = l /\ pc'[Poller] = pc[Poller]
      /\ pc' \in [Thread -> CallerPlaces \cup PollerPlaces]
  BY <1>1, CallerGoes DEF CallerPlaces
<1>3. kicks' \in Nat /\ kicks' # 0
  BY <1>1 DEF IInv, Types
<1>4. Types'
  BY <1>1, <1>2, <1>3 DEF IInv, Types, CallerPlaces
<1>5. Registered' /\ EntryBeforeHook' /\ HookHasEntry' /\ Scanning' /\ Polled'
  BY <1>1, <1>2, <1>3 DEF IInv, Registered, EntryBeforeHook, HookHasEntry, Scanning, Polled
<1>6. InCall'
  BY <1>1, <1>2 DEF IInv, InCall, Entering
<1>7. Life'
  BY <1>1, <1>2 DEF IInv, Life
<1> QED
  BY <1>4, <1>5, <1>6, <1>7 DEF IInv

LEMMA InstallKeeps ==
  ASSUME SignalAssumption, IInv, Install
  PROVE  IInv'
<1> DEFINE x == IF call.oneshot THEN "oneshot" ELSE "hook"
<1>1. /\ pc[Caller] = "install" /\ pc' = [pc EXCEPT ![Caller] = "idle"]
      /\ action' = [action EXCEPT ![call.sig] = x] /\ call' = NoCall
      /\ UNCHANGED <<handlers, stop, lock, kicks, bytes, created, deleted, fds, signum,
                     hook, sent, failed, overtaken>>
  BY DEF Install, At, Goto, pipes, objects, polling, signals
<1>2. /\ pc'[Caller] = "idle" /\ pc'[Poller] = pc[Poller]
      /\ pc' \in [Thread -> CallerPlaces \cup PollerPlaces]
  BY <1>1, CallerGoes DEF CallerPlaces
<1>3. call.sig \in Signum /\ handlers[call.sig] # NULL
  BY <1>1 DEF IInv, Types, InCall
<1>4. NoCall \in [sig : Signum, h : Objects, oneshot : BOOLEAN]
  BY DEF NoCall, Objects, Signum, SignalAssumption
<1>5. Types'
  BY <1>1, <1>2, <1>4 DEF IInv, Types, CallerPlaces
<1>6. EntryBeforeHook'
  BY <1>1, <1>3 DEF IInv, Types, EntryBeforeHook
<1>7. Registered' /\ HookHasEntry' /\ Scanning' /\ Polled'
  BY <1>1, <1>2 DEF IInv, Registered, HookHasEntry, Scanning, Polled
<1>8. InCall'
  BY <1>1, <1>2 DEF InCall, Entering
<1>9. Life'
  BY <1>1, <1>2 DEF IInv, Life
<1> QED
  BY <1>5, <1>6, <1>7, <1>8, <1>9 DEF IInv

LEMMA UnregisterKeeps ==
  ASSUME SignalAssumption, IInv, NEW s \in Signum, unregister_async_signal_handler(s)
  PROVE  IInv'
<1>1. /\ pc[Caller] = "idle" /\ pc' = [pc EXCEPT ![Caller] = "restore"] /\ handlers[s] # NULL
      /\ call' = [NoCall EXCEPT !.sig = s, !.h = handlers[s]]
      /\ UNCHANGED <<handlers, action, stop, lock, kicks, bytes, created, deleted, fds, signum,
                     hook, sent, failed, overtaken>>
  BY DEF unregister_async_signal_handler, At, Goto, pipes, objects, polling, signals
<1>2. /\ pc'[Caller] = "restore" /\ pc'[Poller] = pc[Poller]
      /\ pc' \in [Thread -> CallerPlaces \cup PollerPlaces]
  BY <1>1, CallerGoes DEF CallerPlaces
<1>3. call' = [sig |-> s, h |-> handlers[s], oneshot |-> FALSE] /\ handlers[s] \in Objects
  BY <1>1 DEF NoCall, IInv, Types
<1>4. Types'
  <2>1. call' \in [sig : Signum, h : Objects, oneshot : BOOLEAN]
    BY <1>3
  <2> QED
    BY <1>1, <1>2, <2>1 DEF IInv, Types, CallerPlaces
<1>5. Registered' /\ EntryBeforeHook' /\ HookHasEntry' /\ Scanning' /\ Polled'
  BY <1>1, <1>2 DEF IInv, Registered, EntryBeforeHook, HookHasEntry, Scanning, Polled
<1>6. InCall'
  BY <1>1, <1>2, <1>3 DEF InCall, Entering
<1>7. Life'
  BY <1>1, <1>2 DEF IInv, Life
<1> QED
  BY <1>4, <1>5, <1>6, <1>7 DEF IInv

LEMMA RestoreKeeps ==
  ASSUME IInv, Restore
  PROVE  IInv'
<1>1. /\ pc[Caller] = "restore" /\ pc' = [pc EXCEPT ![Caller] = "remove"]
      /\ action' = [action EXCEPT ![call.sig] = "default"]
      /\ UNCHANGED <<handlers, stop, lock, kicks, bytes, created, deleted, call, fds, signum,
                     hook, sent, failed, overtaken>>
  BY DEF Restore, At, Goto, pipes, objects, polling, signals
<1>2. /\ pc'[Caller] = "remove" /\ pc'[Poller] = pc[Poller]
      /\ pc' \in [Thread -> CallerPlaces \cup PollerPlaces]
  BY <1>1, CallerGoes DEF CallerPlaces
<1>3. call.sig \in Signum /\ action'[call.sig] = "default"
  BY <1>1 DEF IInv, Types
<1>4. Types'
  BY <1>1, <1>2 DEF IInv, Types, CallerPlaces
<1>5. EntryBeforeHook'
  BY <1>1 DEF IInv, Types, EntryBeforeHook
<1>6. Registered' /\ HookHasEntry' /\ Scanning' /\ Polled'
  BY <1>1, <1>2 DEF IInv, Registered, HookHasEntry, Scanning, Polled
<1>7. InCall'
  BY <1>1, <1>2, <1>3 DEF IInv, InCall, Entering
<1>8. Life'
  BY <1>1, <1>2 DEF IInv, Life
<1> QED
  BY <1>4, <1>5, <1>6, <1>7, <1>8 DEF IInv

(* The hooks in the middle of the entry that is removed are overtaken.        *)
LEMMA RemoveKeeps ==
  ASSUME IInv, Remove
  PROVE  IInv'
<1>1. /\ pc[Caller] = "remove" /\ ~ lock /\ pc' = [pc EXCEPT ![Caller] = "delete"]
      /\ overtaken' = overtaken \cup Hooked(call.sig)
      /\ handlers' = [handlers EXCEPT ![call.sig] = NULL]
      /\ UNCHANGED <<action, stop, lock, kicks, bytes, created, deleted, call, fds, signum,
                     hook, sent, failed>>
  BY DEF Remove, At, Goto, pipes, objects, polling, signals
<1>2. /\ pc'[Caller] = "delete" /\ pc'[Poller] = pc[Poller]
      /\ pc' \in [Thread -> CallerPlaces \cup PollerPlaces]
  BY <1>1, CallerGoes DEF CallerPlaces
<1>3. /\ call.sig \in Signum /\ handlers[call.sig] = call.h /\ call.h # NULL
      /\ action[call.sig] = "default"
  BY <1>1 DEF IInv, Types, InCall
<1>4. handlers'[call.sig] = NULL /\ \A s \in Signum : s # call.sig => handlers'[s] = handlers[s]
  BY <1>1, <1>3 DEF IInv, Types
<1>5. Types'
  BY <1>1, <1>2 DEF IInv, Types, CallerPlaces, Objects, Hooked
<1>6. Registered'
  BY <1>1, <1>3, <1>4 DEF IInv, Registered
<1>7. InCall'
  <2>1. call.h \in (1 .. created) \ deleted
    BY <1>3 DEF IInv, Registered
  <2>2. \A s \in Signum : handlers'[s] # call.h
    BY <1>3, <1>4 DEF IInv, Registered
  <2> QED
    BY <1>1, <1>2, <1>4, <2>1, <2>2 DEF InCall, Entering
<1>8. EntryBeforeHook'
  BY <1>1, <1>3, <1>4 DEF IInv, EntryBeforeHook
<1>9. HookHasEntry'
  <2>1. \A t \in Thread \ overtaken' :
          /\ t \notin overtaken
          /\ hook[t].at # "none" => hook[t].sig \in Signum /\ hook[t].sig # call.sig
    BY <1>1 DEF Hooked, IInv, Types, Hooks
  <2> QED
    BY <1>1, <1>4, <2>1 DEF IInv, HookHasEntry
<1>10. Scanning' /\ Polled'
  BY <1>1, <1>2, <1>4 DEF IInv, Scanning, Polled
<1>11. Life'
  BY <1>1, <1>2 DEF IInv, Life
<1> QED
  BY <1>5, <1>6, <1>7, <1>8, <1>9, <1>10, <1>11 DEF IInv

LEMMA DeleteKeeps ==
  ASSUME SignalAssumption, IInv, Delete
  PROVE  IInv'
<1>1. /\ pc[Caller] = "delete" /\ pc' = [pc EXCEPT ![Caller] = "idle"]
      /\ deleted' = deleted \cup {call.h} /\ call' = NoCall
      /\ UNCHANGED <<handlers, action, stop, lock, kicks, bytes, created, fds, signum,
                     hook, sent, failed, overtaken>>
  BY DEF Delete, At, Goto, pipes, objects, polling, signals
<1>2. /\ pc'[Caller] = "idle" /\ pc'[Poller] = pc[Poller]
      /\ pc' \in [Thread -> CallerPlaces \cup PollerPlaces]
  BY <1>1, CallerGoes DEF CallerPlaces
<1>3. call.h \in 1 .. created /\ \A s \in Signum : handlers[s] # call.h
  BY <1>1 DEF IInv, InCall
<1>4. NoCall \in [sig : Signum, h : Objects, oneshot : BOOLEAN]
  BY DEF NoCall, Objects, Signum, SignalAssumption
<1>5. Types'
  BY <1>1, <1>2, <1>3, <1>4 DEF IInv, Types, CallerPlaces
<1>6. Registered'
  BY <1>1, <1>3 DEF IInv, Registered
<1>7. EntryBeforeHook' /\ HookHasEntry' /\ Scanning' /\ Polled'
  BY <1>1, <1>2 DEF IInv, EntryBeforeHook, HookHasEntry, Scanning, Polled
<1>8. InCall'
  BY <1>1, <1>2 DEF InCall, Entering
<1>9. Life'
  BY <1>1, <1>2 DEF IInv, Life
<1> QED
  BY <1>5, <1>6, <1>7, <1>8, <1>9 DEF IInv

LEMMA QueueKeeps ==
  ASSUME SignalAssumption, IInv, NEW s \in Signum, queue_async_signal(s)
  PROVE  IInv'
<1>1. /\ handlers[s] # NULL /\ sent < MaxSignals /\ sent' = sent + 1
      /\ bytes' = [bytes EXCEPT ![handlers[s]] = @ + 1]
      /\ UNCHANGED <<handlers, action, stop, lock, kicks, created, deleted, pc, call, fds,
                     signum, hook, failed, overtaken>>
  BY DEF queue_async_signal, objects, polling
<1>2. Types'
  <2>1. bytes' \in [safe_handler -> Nat]
    <3>1. handlers[s] \in safe_handler
      BY <1>1 DEF IInv, Types, Objects
    <3> QED
      BY <1>1, <3>1 DEF IInv, Types
  <2>2. sent' \in 0 .. MaxSignals
    BY <1>1 DEF IInv, Types, SignalAssumption
  <2> QED
    BY <1>1, <2>1, <2>2 DEF IInv, Types
<1>3. Registered' /\ InCall' /\ EntryBeforeHook' /\ HookHasEntry' /\ Scanning' /\ Polled'
  BY <1>1
  DEF IInv, Registered, InCall, Entering, EntryBeforeHook, HookHasEntry, Scanning, Polled
<1>4. Life'
  BY <1>1 DEF IInv, Life
<1> QED
  BY <1>2, <1>3, <1>4 DEF IInv

LEMMA ShutdownKeeps ==
  ASSUME IInv, shutdown_async_signal_handler
  PROVE  IInv'
<1>1. /\ pc[Caller] = "idle" /\ pc' = [pc EXCEPT ![Caller] = "signal_thread"] /\ stop' = TRUE
      /\ \A s \in Signum : action[s] = "default"
      /\ UNCHANGED <<handlers, action, lock, kicks, bytes, created, deleted, call, fds, signum,
                     hook, sent, failed, overtaken>>
  BY DEF shutdown_async_signal_handler, At, Goto, pipes, objects, polling, signals
<1>2. /\ pc'[Caller] = "signal_thread" /\ pc'[Poller] = pc[Poller]
      /\ pc' \in [Thread -> CallerPlaces \cup PollerPlaces]
  BY <1>1, CallerGoes DEF CallerPlaces
<1>3. Types'
  BY <1>1, <1>2 DEF IInv, Types, CallerPlaces
<1>4. Registered' /\ EntryBeforeHook' /\ HookHasEntry' /\ Scanning' /\ Polled'
  BY <1>1, <1>2 DEF IInv, Registered, EntryBeforeHook, HookHasEntry, Scanning, Polled
<1>5. InCall'
  BY <1>1, <1>2 DEF InCall, Entering
<1>6. Life'
  BY <1>1, <1>2 DEF IInv, Life
<1> QED
  BY <1>3, <1>4, <1>5, <1>6 DEF IInv

(* Start and end: no signal has a hook, so none misses its entry.            *)
LEMMA StartKeeps ==
  ASSUME SignalAssumption, IInv, start_async_signal_handler
  PROVE  IInv'
<1>1. /\ pc[Caller] = "down" /\ pc' = [pc EXCEPT ![Caller] = "idle", ![Poller] = "top"]
      /\ handlers' = [s \in Signum |-> NULL] /\ stop' = FALSE /\ kicks' = 0
      /\ UNCHANGED <<action, lock, bytes, created, deleted, call, fds, signum, hook, sent, failed,
                     overtaken>>
  BY DEF start_async_signal_handler, At, objects, polling, signals
<1>2. /\ pc'[Caller] = "idle" /\ pc'[Poller] = "top" /\ pc[Poller] = "down"
      /\ pc' \in [Thread -> CallerPlaces \cup PollerPlaces]
  BY <1>1 DEF IInv, Types, Life, Thread, Caller, Poller, CallerPlaces, PollerPlaces
<1>3. /\ \A s \in Signum : action[s] = "default"
      /\ \A s \in Signum : handlers'[s] = NULL
  BY <1>1 DEF IInv, Life
<1>4. Types'
  <2>1. handlers' \in [Signum -> Objects]
    BY <1>1 DEF Objects
  <2> QED
    BY <1>1, <1>2, <2>1 DEF IInv, Types, CallerPlaces, PollerPlaces
<1>5. HookHasEntry'
  <2>1. \A t \in Thread : hook[t].at = "none"
    BY <1>1 DEF IInv, Life, Thread
  <2> QED
    BY <1>1, <2>1 DEF IInv, HookHasEntry
<1>6. Registered' /\ EntryBeforeHook' /\ Scanning' /\ Polled'
  BY <1>1, <1>2, <1>3 DEF IInv, Registered, EntryBeforeHook, Scanning, Polled
<1>7. InCall'
  BY <1>2 DEF InCall, Entering
<1>8. Life'
  BY <1>1, <1>2 DEF Life
<1> QED
  BY <1>4, <1>5, <1>6, <1>7, <1>8 DEF IInv

LEMMA JoinKeeps ==
  ASSUME IInv, Join
  PROVE  IInv'
<1>1. /\ pc[Caller] = "join" /\ pc[Poller] = "exited" /\ pc' = [t \in Thread |-> "down"]
      /\ handlers' = [s \in Signum |-> NULL] /\ hook[Caller].at = "none"
      /\ UNCHANGED <<action, stop, lock, kicks, bytes, created, deleted, call, fds, signum, hook,
                     sent, failed, overtaken>>
  BY DEF Join, At, pipes, objects, polling, signals
<1>2. /\ pc'[Caller] = "down" /\ pc'[Poller] = "down"
      /\ pc' \in [Thread -> CallerPlaces \cup PollerPlaces]
  BY <1>1 DEF Thread, CallerPlaces
<1>3. /\ \A s \in Signum : action[s] = "default"
      /\ \A s \in Signum : handlers'[s] = NULL
  BY <1>1 DEF IInv, Life
<1>4. Types'
  <2>1. handlers' \in [Signum -> Objects]
    BY <1>1 DEF Objects
  <2> QED
    BY <1>1, <1>2, <2>1 DEF IInv, Types, CallerPlaces, PollerPlaces
<1>5. HookHasEntry'
  <2>1. \A t \in Thread : hook[t].at = "none"
    BY <1>1 DEF IInv, Life, Thread
  <2> QED
    BY <1>1, <2>1 DEF IInv, HookHasEntry
<1>6. Registered' /\ EntryBeforeHook' /\ Scanning' /\ Polled'
  BY <1>1, <1>2, <1>3 DEF IInv, Registered, EntryBeforeHook, Scanning, Polled
<1>7. InCall'
  BY <1>2 DEF InCall, Entering
<1>8. Life'
  BY <1>1, <1>2, <1>3 DEF IInv, Life
<1> QED
  BY <1>4, <1>5, <1>6, <1>7, <1>8 DEF IInv

----------------------------------------------------------------------------
(* The hook.                                                                 *)

LEMMA DeliverKeeps ==
  ASSUME SignalAssumption, IInv, NEW t \in Thread, NEW s \in Signum, Deliver(t, s)
  PROVE  IInv'
<1> DEFINE x == [at |-> "assert", sig |-> s, h |-> NULL]
<1>1. /\ hook[t].at = "none" /\ pc[t] \notin {"exited", "down"}
      /\ action[s] # "default" /\ sent < MaxSignals /\ sent' = sent + 1
      /\ hook' = [hook EXCEPT ![t] = x]
      /\ action' = [action EXCEPT ![s] = IF @ = "oneshot" THEN "default" ELSE @]
      /\ (pc' = [pc EXCEPT ![Poller] = "interrupted"] /\ pc[Poller] = "poll") \/ UNCHANGED pc
      /\ UNCHANGED <<handlers, stop, lock, kicks, bytes, created, deleted, call, fds, signum,
                     failed>>
      /\ overtaken' = overtaken \ {t}
  BY DEF Deliver, At, Goto, pipes, objects, polling
<1>2. /\ pc'[Caller] = pc[Caller]
      /\ \/ pc'[Poller] = pc[Poller]
         \/ pc[Poller] = "poll" /\ pc'[Poller] = "interrupted"
      /\ pc' \in [Thread -> CallerPlaces \cup PollerPlaces]
  BY <1>1 DEF IInv, Types, Thread, Caller, Poller, PollerPlaces
<1>3. x \in Hooks /\ x.at = "assert" /\ x.sig = s
  BY DEF Hooks, Objects
<1> HIDE DEF x
<1>4. hook' \in [Thread -> Hooks] /\ hook'[t] = x /\ \A u \in Thread : u # t => hook'[u] = hook[u]
  BY <1>1, <1>3 DEF IInv, Types
<1>5. /\ action' \in [Signum -> {"default", "hook", "oneshot"}]
      /\ \A r \in Signum : action'[r] # "default" => action[r] # "default"
      /\ \A r \in Signum : action[r] = "default" => action'[r] = "default"
  BY <1>1 DEF IInv, Types
<1>6. handlers[s] # NULL
  BY <1>1 DEF IInv, EntryBeforeHook
<1>7. Types'
  <2>1. sent' \in 0 .. MaxSignals
    BY <1>1 DEF IInv, Types, SignalAssumption
  <2>2. pc'[Caller] \in CallerPlaces /\ pc'[Poller] \in PollerPlaces
    BY <1>2 DEF IInv, Types, PollerPlaces
  <2> QED
    BY <1>1, <1>2, <1>4, <1>5, <2>1, <2>2 DEF IInv, Types
<1>8. Registered' /\ EntryBeforeHook'
  BY <1>1, <1>5 DEF IInv, Registered, EntryBeforeHook
<1>9. InCall'
  <2>1. call.sig \in Signum
    BY DEF IInv, Types
  <2> QED
    BY <1>1, <1>2, <1>5, <2>1 DEF IInv, InCall, Entering
<1>10. HookHasEntry'
  BY <1>1, <1>3, <1>4, <1>6 DEF IInv, HookHasEntry
<1>11. Scanning' /\ Polled'
  BY <1>1, <1>2 DEF IInv, Scanning, Polled
<1>12. Life'
  <2>1. ~ stop /\ pc[Caller] # "down"
    BY <1>1 DEF IInv, Life
  <2> QED
    BY <1>1, <1>2, <1>4, <2>1 DEF IInv, Life, Thread, Caller, Poller
<1> QED
  BY <1>7, <1>8, <1>9, <1>10, <1>11, <1>12 DEF IInv

(* What a running hook reads is the entry of its signal, whether or not the   *)
(* build reads it again, unless the hook is overtaken.                       *)
LEMMA LoadedFacts ==
  ASSUME IInv, NEW t \in Thread, hook[t].at \in {"memcpy", "write"}, NEW h \in Loaded(t)
  PROVE  /\ h \in Objects /\ (~ Dangling(h) => h \in safe_handler)
         /\ t \notin overtaken => h = handlers[hook[t].sig] /\ ~ Dangling(h)
<1>1. hook[t].sig \in Signum /\ hook[t].h \in Objects
  BY DEF IInv, Types, Hooks
<1>2. h \in Objects
  BY <1>1 DEF Loaded, IInv, Types
<1>3. ASSUME t \notin overtaken PROVE h = handlers[hook[t].sig] /\ ~ Dangling(h)
  <2>1. handlers[hook[t].sig] # NULL /\ hook[t].h = handlers[hook[t].sig]
    BY <1>3 DEF IInv, HookHasEntry
  <2>2. h = handlers[hook[t].sig]
    BY <2>1 DEF Loaded
  <2>3. h \in (1 .. created) \ deleted /\ h # NULL
    BY <1>1, <2>1, <2>2 DEF IInv, Registered
  <2> QED
    BY <2>2, <2>3 DEF Dangling
<1> QED
  BY <1>2, <1>3 DEF Dangling, Objects

(* A hook that goes on, or ends.                                             *)
LEMMA HookGoes ==
  ASSUME IInv, NEW t \in Thread, hook[t].at # "none", NEW x \in Hooks,
         hook' = [hook EXCEPT ![t] = x], failed' \in BOOLEAN, bytes' \in [safe_handler -> Nat],
         x.at # "none" =>
           /\ x.sig = hook[t].sig
           /\ t \notin overtaken /\ x.at # "assert" => x.h = handlers[hook[t].sig],
         UNCHANGED UnchangedByHook
  PROVE  IInv'
<1>1. UNCHANGED <<handlers, action, stop, lock, kicks, created, deleted, pc, call, fds, signum,
                  sent, overtaken>>
  BY DEF UnchangedByHook, objects, polling
<1>2. /\ hook' \in [Thread -> Hooks] /\ hook'[t] = x
      /\ \A u \in Thread : u # t => hook'[u] = hook[u]
  BY DEF IInv, Types
<1>3. Types'
  BY <1>1, <1>2 DEF IInv, Types
<1>4. Registered' /\ InCall' /\ EntryBeforeHook' /\ Scanning' /\ Polled'
  BY <1>1 DEF IInv, Registered, InCall, Entering, EntryBeforeHook, Scanning, Polled
<1>5. HookHasEntry'
  <2>1. t \notin overtaken => handlers[hook[t].sig] # NULL
    BY DEF IInv, HookHasEntry
  <2> QED
    BY <1>1, <1>2, <2>1 DEF IInv, HookHasEntry
<1>6. Life'
  BY <1>1, <1>2 DEF IInv, Life, Thread, Caller, Poller
<1> QED
  BY <1>3, <1>4, <1>5, <1>6 DEF IInv

LEMMA HookRecord ==
  \A r \in Hooks, l \in {"memcpy", "write"}, h \in Objects :
    [r EXCEPT !.at = l, !.h = h] = [at |-> l, sig |-> r.sig, h |-> h]
<1> SUFFICES ASSUME NEW r \in Hooks, NEW l, NEW h
             PROVE  [r EXCEPT !.at = l, !.h = h] = [at |-> l, sig |-> r.sig, h |-> h]
  OBVIOUS
<1> DEFINE q == [r EXCEPT !.at = l]
<1>1. r = [at |-> r.at, sig |-> r.sig, h |-> r.h]
  BY DEF Hooks
<1>2. q = [at |-> l, sig |-> r.sig, h |-> r.h]
  BY <1>1
<1> HIDE DEF q
<1>3. [q EXCEPT !.h = h] = [at |-> l, sig |-> r.sig, h |-> h]
  BY <1>2
<1> QED
  BY <1>3 DEF q

LEMMA HookKeeps ==
  ASSUME SignalAssumption, IInv, NEW t \in Thread, HookSteps(t)
  PROVE  IInv'
<1>1. CASE HookAsserts(t)
  <2> DEFINE h == handlers[hook[t].sig]
             x == [at |-> "memcpy", sig |-> hook[t].sig, h |-> h]
  <2>1. hook[t].at = "assert" /\ hook[t] \in Hooks
    BY <1>1 DEF HookAsserts, InHook, IInv, Types
  <2>2. h \in Objects
    BY <2>1 DEF IInv, Types, Hooks
  <2>3. hook' = [hook EXCEPT ![t] = x]
    <3>1. [hook[t] EXCEPT !.at = "memcpy", !.h = h] = x
      BY <2>1, <2>2, HookRecord
    <3>2. hook' = [hook EXCEPT ![t] = [hook[t] EXCEPT !.at = "memcpy", !.h = h]]
      BY <1>1 DEF HookAsserts, IInv, Types
    <3> QED
      BY <3>1, <3>2
  <2>4. failed' \in BOOLEAN /\ bytes' \in [safe_handler -> Nat] /\ UNCHANGED UnchangedByHook
    BY <1>1, <2>2 DEF HookAsserts, IInv, Types
  <2>5. x \in Hooks /\ x.sig = hook[t].sig /\ x.h = h
    BY <2>1, <2>2 DEF Hooks
  <2> HIDE DEF x
  <2> QED
    BY <2>1, <2>3, <2>4, <2>5, HookGoes
<1>2. CASE HookCopies(t)
  <2>1. hook[t].at = "memcpy" /\ hook[t] \in Hooks
    BY <1>2 DEF HookCopies, InHook, IInv, Types
  <2>2. PICK h \in Loaded(t) : hook' = [hook EXCEPT ![t].at = "write", ![t].h = h]
                               /\ failed' = Dangling(h)
    BY <1>2 DEF HookCopies
  <2>3. h \in Objects /\ (t \notin overtaken => h = handlers[hook[t].sig])
    BY <2>1, LoadedFacts
  <2> DEFINE x == [at |-> "write", sig |-> hook[t].sig, h |-> h]
  <2>4. hook' = [hook EXCEPT ![t] = x]
    <3>1. [hook[t] EXCEPT !.at = "write", !.h = h] = x
      BY <2>1, <2>3, HookRecord
    <3>2. hook' = [hook EXCEPT ![t] = [hook[t] EXCEPT !.at = "write", !.h = h]]
      BY <2>2 DEF IInv, Types
    <3> QED
      BY <3>1, <3>2
  <2>5. failed' \in BOOLEAN /\ bytes' \in [safe_handler -> Nat] /\ UNCHANGED UnchangedByHook
    BY <1>2, <2>2 DEF HookCopies, Dangling, IInv, Types
  <2>6. x \in Hooks /\ x.sig = hook[t].sig /\ x.h = h
    BY <2>1, <2>3 DEF Hooks
  <2> HIDE DEF x
  <2> QED
    BY <2>1, <2>3, <2>4, <2>5, <2>6, HookGoes
<1>3. CASE HookWrites(t)
  <2>1. hook[t].at = "write"
    BY <1>3 DEF HookWrites, InHook
  <2>2. PICK h \in Loaded(t) :
          /\ failed' = Dangling(h)
          /\ bytes' = IF Dangling(h) THEN bytes ELSE [bytes EXCEPT ![h] = @ + 1]
    BY <1>3 DEF HookWrites
  <2>3. ~ Dangling(h) => h \in safe_handler
    BY <2>1, LoadedFacts
  <2>4. bytes' \in [safe_handler -> Nat]
    BY <2>2, <2>3 DEF IInv, Types
  <2>7. failed' \in BOOLEAN
    BY <2>2 DEF Dangling
  <2>5. NoHook \in Hooks /\ NoHook.at = "none"
    BY DEF NoHook, Hooks, Objects, Signum, SignalAssumption
  <2>6. hook' = [hook EXCEPT ![t] = NoHook] /\ UNCHANGED UnchangedByHook
    BY <1>3 DEF HookWrites
  <2> QED
    BY <2>1, <2>4, <2>5, <2>6, <2>7, HookGoes
<1> QED
  BY <1>1, <1>2, <1>3 DEF HookSteps

----------------------------------------------------------------------------
(* The poller.                                                               *)

(* What it does changes nothing the caller and the hooks look at: its place,  *)
(* its loop variables, its lock, the bytes it reads.                         *)
LEMMA PollerGoes ==
  ASSUME IInv, NEW l \in PollerPlaces, l # "down", pc[Poller] # "down",
         pc' = [pc EXCEPT ![Poller] = l], l = "exited" => stop /\ hook[Poller].at = "none",
         lock' \in BOOLEAN, kicks' \in Nat, bytes' \in [safe_handler -> Nat],
         fds' \subseteq safe_handler, signum' \in 0 .. NumSignals,
         lock' <=> l \in {"scan", "handler"},
         l = "handler" => signum' \in Signum /\ handlers[signum'] # NULL,
         l = "poll" => \A s \in Signum : handlers[s] # NULL => handlers[s] \in fds',
         UNCHANGED <<handlers, action, stop, created, deleted, call, hook, sent, failed, overtaken>>
  PROVE  IInv'
<1>1. /\ pc'[Poller] = l /\ pc'[Caller] = pc[Caller]
      /\ pc' \in [Thread -> CallerPlaces \cup PollerPlaces]
  BY DEF IInv, Types, Thread, Caller, Poller
<1>2. Types'
  BY <1>1 DEF IInv, Types
<1>3. Registered' /\ EntryBeforeHook' /\ HookHasEntry'
  BY DEF IInv, Registered, EntryBeforeHook, HookHasEntry
<1>4. InCall'
  BY <1>1 DEF IInv, InCall, Entering
<1>5. Life'
  BY <1>1 DEF IInv, Life
<1>6. Scanning' /\ Polled'
  BY <1>1 DEF Scanning, Polled
<1> QED
  BY <1>2, <1>3, <1>4, <1>5, <1>6 DEF IInv

LEMMA PollerKeeps ==
  ASSUME SignalAssumption, IInv, PollerSteps
  PROVE  IInv'
<1> USE DEF At, Goto, pipes, objects, polling, signals, PollerPlaces
<1>t. /\ lock \in BOOLEAN /\ kicks \in Nat /\ bytes \in [safe_handler -> Nat]
      /\ fds \subseteq safe_handler /\ signum \in 0 .. NumSignals
      /\ lock <=> pc[Poller] \in {"scan", "handler"}
      /\ 0 \in 0 .. NumSignals /\ NumSignals \in Nat
  BY DEF IInv, Types, Scanning, SignalAssumption
<1>1. CASE Exit
  BY <1>1, <1>t, PollerGoes DEF Exit
<1>2. CASE Build
  <2>1. /\ pc[Poller] = "top" /\ ~ stop /\ fds' = registered
        /\ pc' = [pc EXCEPT ![Poller] = "poll"]
        /\ UNCHANGED <<handlers, action, stop, lock, kicks, bytes, created, deleted, call,
                       signum, hook, sent, failed, overtaken>>
    BY <1>2 DEF Build
  <2>2. registered \subseteq safe_handler
    BY DEF registered, IInv, Types, Objects
  <2>3. \A s \in Signum : handlers[s] # NULL => handlers[s] \in fds'
    BY <2>1 DEF registered
  <2> QED
    BY <1>t, <2>1, <2>2, <2>3, PollerGoes
<1>3. CASE PollReturns
  BY <1>3, <1>t, PollerGoes DEF PollReturns
<1>4. CASE PollInterrupted
  BY <1>4, <1>t, PollerGoes DEF PollInterrupted
<1>5. CASE ReadKick
  BY <1>5, <1>t, PollerGoes DEF ReadKick
<1>6. CASE Lock
  BY <1>6, <1>t, PollerGoes DEF Lock
<1>7. CASE Scan
  <2>1. /\ pc[Poller] = "scan" /\ signum < NumSignals /\ HasByte(signum)
        /\ bytes' = [bytes EXCEPT ![handlers[signum]] = @ - 1]
        /\ pc' = [pc EXCEPT ![Poller] = "handler"]
        /\ UNCHANGED <<handlers, action, stop, lock, kicks, created, deleted, call, fds,
                       signum, hook, sent, failed, overtaken>>
    BY <1>7 DEF Scan
  <2>2. signum \in Signum
    BY <1>t, <2>1 DEF Signum
  <2>3. handlers[signum] # NULL /\ handlers[signum] \in safe_handler
        /\ bytes[handlers[signum]] > 0
    BY <2>1, <2>2 DEF HasByte, IInv, Types, Objects
  <2>4. bytes' \in [safe_handler -> Nat]
    BY <1>t, <2>1, <2>3
  <2> QED
    BY <1>t, <2>1, <2>2, <2>3, <2>4, PollerGoes
<1>8. CASE Skip
  <2>1. /\ pc[Poller] = "scan" /\ signum < NumSignals /\ signum' = signum + 1
        /\ UNCHANGED <<handlers, action, stop, lock, kicks, bytes, created, deleted, call, fds,
                       pc, hook, sent, failed, overtaken>>
    BY <1>8 DEF Skip
  <2>2. signum' \in 0 .. NumSignals
    BY <1>t, <2>1
  <2>3. pc' = [pc EXCEPT ![Poller] = "scan"]
    BY <2>1 DEF IInv, Types
  <2> QED
    BY <1>t, <2>1, <2>2, <2>3, PollerGoes
<1>9. CASE Handled
  <2>1. /\ pc[Poller] = "handler" /\ signum' = signum + 1
        /\ pc' = [pc EXCEPT ![Poller] = "scan"]
        /\ UNCHANGED <<handlers, action, stop, lock, kicks, bytes, created, deleted, call, fds,
                       hook, sent, failed, overtaken>>
    BY <1>9 DEF Handled
  <2>2. signum \in Signum
    BY <2>1 DEF IInv, Scanning
  <2>3. signum' \in 0 .. NumSignals
    BY <1>t, <2>1, <2>2 DEF Signum
  <2> QED
    BY <1>t, <2>1, <2>3, PollerGoes
<1>10. CASE Unlock
  BY <1>10, <1>t, PollerGoes DEF Unlock
<1> QED
  BY <1>1, <1>2, <1>3, <1>4, <1>5, <1>6, <1>7, <1>8, <1>9, <1>10 DEF PollerSteps

----------------------------------------------------------------------------
(* Every step.                                                               *)

LEMMA InvStep ==
  ASSUME SignalAssumption, IInv, [Next]_vars
  PROVE  IInv'
<1>1. CASE start_async_signal_handler \/ shutdown_async_signal_handler
  BY <1>1, StartKeeps, ShutdownKeeps
<1>2. ASSUME NEW s \in Signum,
             \/ \E oneshot \in BOOLEAN : register_async_signal_handler(s, oneshot)
             \/ unregister_async_signal_handler(s)
             \/ queue_async_signal(s)
      PROVE  IInv'
  BY <1>2, RegisterKeeps, UnregisterKeeps, QueueKeeps
<1>3. CASE CallerSteps
  BY <1>3, EnterKeeps, SignalThreadKeeps, InstallKeeps, RestoreKeeps, RemoveKeeps, DeleteKeeps,
     JoinKeeps DEF CallerSteps
<1>4. CASE PollerSteps
  BY <1>4, PollerKeeps
<1>5. ASSUME NEW t \in Thread, HookSteps(t) \/ \E s \in Signum : Deliver(t, s)
      PROVE  IInv'
  BY <1>5, HookKeeps, DeliverKeeps
<1>6. CASE UNCHANGED vars
  <2>1. UNCHANGED <<handlers, action, stop, lock, kicks, bytes, created, deleted, pc, call,
                    fds, signum, hook, sent, failed, overtaken>>
    BY <1>6 DEF vars
  <2> QED
    BY <2>1
    DEF IInv, Types, Registered, InCall, Entering, EntryBeforeHook, HookHasEntry, Life,
        Scanning, Polled
<1> QED
  BY <1>1, <1>2, <1>3, <1>4, <1>5, <1>6 DEF Next

(* Every reachable state satisfies the invariant.                            *)
THEOREM Handling == Spec => []IInv
<1>1. Init => IInv
  BY SignalAssumption, InvInit
<1>2. IInv /\ [Next]_vars => IInv'
  BY SignalAssumption, InvStep
<1> QED
  BY <1>1, <1>2, PTL DEF Spec

----------------------------------------------------------------------------
(* The bytes in the pipes.                                                   *)

Busy(t) == IF hook[t].at = "none" THEN 0 ELSE 1

(* The byte that the registration under way will write to the thread's pipe,  *)
(* and the one that the shutdown has written.                                *)
Owed == IF pc[Caller] = "enter" \/ Entering THEN 1 ELSE 0
Stopped == IF stop /\ pc[Caller] # "signal_thread" THEN 1 ELSE 0

(* One byte for each registration and one for the shutdown, one in any        *)
(* handler's pipe for each signal sent that no hook still has to write.       *)
Bounded ==
  /\ kicks + Owed <= created + Stopped
  /\ \A h \in safe_handler : bytes[h] + Busy(Caller) + Busy(Poller) <= sent

LEMMA BoundedCaller ==
  ASSUME SignalAssumption, IInv, Bounded, UNCHANGED <<bytes, hook, sent>>,
         kicks' + Owed' <= created' + Stopped'
  PROVE  Bounded'
BY DEF Bounded, Busy

LEMMA SmallerFits == \A a, b, c, d, e \in Nat : a <= b /\ b + c <= d + e => a + c <= d + e
OBVIOUS

LEMMA BoundedStep ==
  ASSUME SignalAssumption, IInv, Bounded, [Next]_vars
  PROVE  Bounded'
<1> USE DEF At, Goto, pipes, objects, polling, signals
<1>t. /\ kicks \in Nat /\ created \in Nat /\ sent \in Nat /\ bytes \in [safe_handler -> Nat]
      /\ Caller \in Thread /\ Poller \in Thread /\ Caller # Poller
      /\ hook \in [Thread -> Hooks] /\ pc \in [Thread -> CallerPlaces \cup PollerPlaces]
      /\ pc[Caller] = "idle" => ~ stop
      /\ pc[Caller] = "enter" => ~ stop
  BY DEF IInv, Types, Life, Thread, Caller, Poller
<1>1. CASE start_async_signal_handler \/ shutdown_async_signal_handler
  BY <1>1, <1>t, BoundedCaller
  DEF start_async_signal_handler, shutdown_async_signal_handler, Bounded, Owed, Entering, Stopped
<1>2. ASSUME NEW s \in Signum, NEW oneshot \in BOOLEAN, register_async_signal_handler(s, oneshot)
      PROVE  Bounded'
  BY <1>2, <1>t, BoundedCaller
  DEF register_async_signal_handler, Bounded, Owed, Entering, Stopped
<1>3. ASSUME NEW s \in Signum, unregister_async_signal_handler(s)
      PROVE  Bounded'
  BY <1>3, <1>t, BoundedCaller
  DEF unregister_async_signal_handler, Bounded, Owed, Entering, Stopped
<1>4. ASSUME NEW s \in Signum, queue_async_signal(s)
      PROVE  Bounded'
  BY <1>4, <1>t DEF queue_async_signal, Bounded, Owed, Entering, Stopped, Busy
<1>5. CASE CallerSteps
  BY <1>5, <1>t, BoundedCaller
  DEF CallerSteps, Enter, signal_thread, Install, Restore, Remove, Delete, Join, Bounded, Owed,
      Entering, Stopped
<1>6. CASE PollerSteps
  <2>1. UNCHANGED <<stop, created, sent, hook>> /\ pc'[Caller] = pc[Caller]
    BY <1>6, <1>t
    DEF PollerSteps, Exit, Build, PollReturns, PollInterrupted, ReadKick, Lock, Scan, Skip,
        Handled, Unlock
  <2>2. kicks' <= kicks /\ kicks' \in Nat
    BY <1>6, <1>t
    DEF PollerSteps, Exit, Build, PollReturns, PollInterrupted, ReadKick, Lock, Scan, Skip,
        Handled, Unlock
  <2>3. \A h \in safe_handler : bytes'[h] <= bytes[h] /\ bytes'[h] \in Int
    BY <1>6, <1>t
    DEF PollerSteps, Exit, Build, PollReturns, PollInterrupted, ReadKick, Lock, Scan, Skip,
        Handled, Unlock
  <2>4. Owed' = Owed /\ Stopped' = Stopped /\ Owed \in Nat /\ Stopped \in Nat
    BY <2>1 DEF Owed, Entering, Stopped
  <2>5. kicks' + Owed' <= created' + Stopped'
    <3>1. kicks + Owed <= created + Stopped
      BY DEF Bounded
    <3>2. kicks' + Owed <= created + Stopped
      BY <1>t, <2>2, <2>4, <3>1, SmallerFits
    <3> QED
      BY <2>1, <2>4, <3>2
  <2>6. /\ Busy(Caller)' = Busy(Caller) /\ Busy(Poller)' = Busy(Poller)
        /\ Busy(Caller) \in {0, 1} /\ Busy(Poller) \in {0, 1}
    BY <2>1 DEF Busy
  <2>7. \A h \in safe_handler : bytes'[h] + Busy(Caller)' + Busy(Poller)' <= sent'
    BY <1>t, <2>1, <2>3, <2>6 DEF Bounded
  <2> QED
    BY <2>5, <2>7 DEF Bounded
<1>7. ASSUME NEW t \in Thread, NEW s \in Signum, Deliver(t, s)
      PROVE  Bounded'
  <2>1. pc'[Caller] = pc[Caller] /\ UNCHANGED <<stop, created, kicks, bytes>>
    BY <1>7, <1>t DEF Deliver
  <2>2. /\ sent' = sent + 1 /\ hook[t].at = "none"
        /\ \A u \in Thread : u # t => hook'[u] = hook[u]
    BY <1>7, <1>t DEF Deliver
  <2> QED
    BY <1>t, <2>1, <2>2 DEF Bounded, Owed, Entering, Stopped, Busy, Thread
<1>8. ASSUME NEW t \in Thread, HookSteps(t)
      PROVE  Bounded'
  <2>1. UNCHANGED <<stop, created, kicks, pc, sent>>
    BY <1>8 DEF HookSteps, HookAsserts, HookCopies, HookWrites, UnchangedByHook
  <2>2. hook[t].at # "none" /\ \A u \in Thread : u # t => hook'[u] = hook[u]
    BY <1>8, <1>t DEF HookSteps, HookAsserts, HookCopies, HookWrites, InHook
  <2>3. CASE HookWrites(t)
    <3>1. hook'[t].at = "none"
      BY <1>t, <2>3 DEF HookWrites, NoHook
    <3>2. \A h \in safe_handler : bytes'[h] <= bytes[h] + 1 /\ bytes'[h] \in Int
      BY <1>t, <2>3 DEF HookWrites
    <3> QED
      BY <1>t, <2>1, <2>2, <3>1, <3>2 DEF Bounded, Owed, Entering, Stopped, Busy, Thread
  <2>4. CASE HookAsserts(t) \/ HookCopies(t)
    BY <1>t, <2>1, <2>2, <2>4
    DEF HookAsserts, HookCopies, Bounded, Owed, Entering, Stopped, Busy, Thread
  <2> QED
    BY <1>8, <2>3, <2>4 DEF HookSteps
<1>9. CASE UNCHANGED vars
  BY <1>9 DEF vars, Bounded, Owed, Entering, Stopped, Busy
<1> QED
  BY <1>1, <1>2, <1>3, <1>4, <1>5, <1>6, <1>7, <1>8, <1>9 DEF Next

(* The types, and with them that a pipe never holds more bytes than were      *)
(* written for registrations and for signals.                                *)
THEOREM TypeCorrect == Spec => []TypeOK
<1>1. Init => IInv /\ Bounded
  <2>1. ASSUME Init PROVE Bounded
    BY <2>1 DEF Init, Bounded, Owed, Entering, Stopped, Busy, NoHook, Thread
  <2> QED
    BY <2>1, SignalAssumption, InvInit
<1>2. (IInv /\ Bounded) /\ [Next]_vars => (IInv /\ Bounded)'
  BY SignalAssumption, InvStep, BoundedStep
<1>3. IInv /\ Bounded => TypeOK
  <2> SUFFICES ASSUME IInv, Bounded PROVE TypeOK
    OBVIOUS
  <2>1. kicks \in 0 .. (MaxHandlers + 1)
    BY SignalAssumption DEF IInv, Types, Bounded, Owed, Stopped
  <2>2. bytes \in [safe_handler -> 0 .. MaxSignals]
    BY SignalAssumption DEF IInv, Types, Bounded, Busy
  <2> QED
    BY <2>1, <2>2 DEF IInv, Types, TypeOK, CallerPlaces, PollerPlaces, Objects, Hooks
<1> QED
  BY <1>1, <1>2, <1>3, PTL DEF Spec

----------------------------------------------------------------------------
(* What follows from it.                                                     *)

(* The assertion of queue_signal_info fails, or the hook uses a deleted       *)
(* safe_handler, only in a hook that ran when unregister_handler removed its  *)
(* entry, though it reads handlers[signum] without the lock: sigaction comes  *)
(* after the entry in register_handler, and the default action before the    *)
(* entry is removed in unregister_handler.                                   *)
THEOREM OnlyRemovalFailsHooks == Spec => OnlyOvertakenHooksFail
<1> DEFINE Culprit == ~ failed /\ failed' => \E t \in overtaken : hook'[t] # hook[t]
<1>1. ASSUME IInv, NEW t \in Thread, HookSteps(t) PROVE Culprit
  <2>t. hook[t] \in Hooks /\ hook[t].sig \in Signum /\ hook \in [Thread -> Hooks]
    BY <1>1 DEF IInv, Types, Hooks
  <2>1. CASE HookAsserts(t)
    <3>1. hook[t].at = "assert" /\ hook'[t].at = "memcpy"
      BY <2>1, <2>t DEF HookAsserts, InHook
    <3>2. t \notin overtaken => ~ failed'
      BY <1>1, <2>1, <3>1 DEF HookAsserts, IInv, HookHasEntry
    <3> QED
      BY <3>1, <3>2
  <2>2. CASE HookCopies(t)
    <3>1. hook[t].at = "memcpy" /\ hook'[t].at = "write"
      BY <2>2, <2>t DEF HookCopies, InHook
    <3>2. t \notin overtaken => ~ failed'
      BY <1>1, <2>2, <3>1, LoadedFacts DEF HookCopies
    <3> QED
      BY <3>1, <3>2
  <2>3. CASE HookWrites(t)
    <3>1. hook[t].at = "write" /\ hook'[t].at = "none"
      BY <2>3, <2>t DEF HookWrites, InHook, NoHook
    <3>2. t \notin overtaken => ~ failed'
      BY <1>1, <2>3, <3>1, LoadedFacts DEF HookWrites
    <3> QED
      BY <3>1, <3>2
  <2> QED
    BY <1>1, <2>1, <2>2, <2>3 DEF HookSteps
<1>2. ASSUME IInv, [Next]_vars PROVE Culprit
  <2>1. CASE UNCHANGED failed
    BY <2>1
  <2>2. ASSUME NEW t \in Thread, HookSteps(t) PROVE Culprit
    BY <1>1, <1>2, <2>2
  <2>3. ASSUME NEW s \in Signum,
               \/ \E oneshot \in BOOLEAN : register_async_signal_handler(s, oneshot)
               \/ unregister_async_signal_handler(s)
               \/ queue_async_signal(s)
               \/ \E t \in Thread : Deliver(t, s)
        PROVE  UNCHANGED failed
    BY <2>3 DEF register_async_signal_handler, unregister_async_signal_handler,
       queue_async_signal, Deliver, signals
  <2>4. CASE \/ start_async_signal_handler \/ shutdown_async_signal_handler
             \/ CallerSteps \/ PollerSteps \/ UNCHANGED vars
    BY <2>4 DEF start_async_signal_handler, shutdown_async_signal_handler, CallerSteps, Enter,
       signal_thread, Install, Restore, Remove, Delete, Join, PollerSteps, Exit, Build,
       PollReturns, PollInterrupted, ReadKick, Lock, Scan, Skip, Handled, Unlock, signals, vars
  <2> QED
    BY <1>2, <2>1, <2>2, <2>3, <2>4 DEF Next
<1>3. IInv /\ [Next]_vars => [Culprit]_vars
  BY <1>2
<1> QED
  BY <1>3, Handling, PTL DEF Spec, OnlyOvertakenHooksFail

(* entry calls a handler back only while it is registered and not deleted.    *)
THEOREM CallbackKeepsHandler == Spec => []CallbackIsLive
<1>1. IInv => CallbackIsLive
  BY DEF IInv, Scanning, Registered, CallbackIsLive
<1> QED
  BY <1>1, Handling, PTL

(* entry never sleeps over a set of pipes that misses one a hook writes to:   *)
(* signal_thread comes before sigaction in register_handler.                 *)
THEOREM NothingSleptOver == Spec => []SleeperPollsAll
<1>1. ASSUME IInv, pc[Poller] = "poll", kicks = 0, NEW s \in Signum, action[s] # "default"
      PROVE  handlers[s] \in fds
  <2>1. handlers[s] # NULL /\ ~ stop
    BY <1>1 DEF IInv, EntryBeforeHook, Life
  <2>2. ~ (pc[Caller] = "signal_thread" /\ s = call.sig)
    BY <1>1, <2>1 DEF IInv, InCall, Entering
  <2> QED
    BY <1>1, <2>1, <2>2 DEF IInv, Polled
<1>2. IInv => SleeperPollsAll
  BY <1>1 DEF SleeperPollsAll
<1> QED
  BY <1>2, Handling, PTL
=============================================================================

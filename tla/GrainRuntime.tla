---------------------------- MODULE GrainRuntime ----------------------------
(***************************************************************************)
(* The grain runtime of one silo (server/runtime.py, GrainRuntime).        *)
(*                                                                         *)
(* Callers, grain workers, the idle collector, stop() and the tasks that   *)
(* deactivate_on_idle or the directory start are asyncio tasks of one      *)
(* event loop.  A task runs without interruption up to its next await      *)
(* that suspends, so every action below is the code between two such       *)
(* awaits.  A task that asyncio has made runnable takes its step some time *)
(* later: the ready queue's order is left open.                            *)
(*                                                                         *)
(* An activation object (GrainActivation) is named by the call that        *)
(* created it: a call creates at most one, so no counter is needed.        *)
(* The grain directory is the LocalGrainDirectory of a single silo; calls  *)
(* that cross silos are left out.                                          *)
(***************************************************************************)
EXTENDS Naturals, Sequences, FiniteSets

CONSTANTS
  Grains,        \* grain identities
  Calls,         \* invocations; also the names of the activations they create
  Scheduled,     \* tasks started by deactivate_on_idle or by the directory
  Collector,     \* the idle collector task
  Stopper,       \* the task that runs stop()
  Hooked,        \* the grains whose class has on_activate and on_deactivate
  ReadSuspends,  \* TRUE iff storage.read gives up the event loop (a database)
  InboxMax,      \* _INBOX_MAX_SIZE
  Sentinel,      \* _SENTINEL
  None           \* Python's None

Tasks == Scheduled \union {Collector, Stopper}
Items == Calls \X {"hook", "call"}

ASSUME RuntimeAssumption ==
  /\ Hooked \subseteq Grains
  /\ ReadSuspends \in BOOLEAN
  /\ InboxMax \in Nat \ {0}
  /\ Collector # Stopper
  /\ Collector \notin Scheduled
  /\ Stopper \notin Scheduled
  /\ None \notin Calls
  /\ Sentinel \notin Items

VARIABLES
  activations,  \* _activations: the published activation of a grain, or None
  registered,   \* the grains the local directory has an entry for
  target,       \* the grain a call is for
  cpc,          \* where the calling task is
  cact,         \* the activation object the calling task holds
  fut,          \* the futures of the queued method calls
  inbox,        \* the inbox of each activation
  worker,       \* the state of each activation's worker task
  turn,         \* the item a busy worker is executing (Sentinel: none)
  idle,         \* TRUE iff last_activity is older than the idle timeout
  dpc,          \* where each deactivating task is
  todo,         \* the grains a deactivating task has still to deactivate
  dact,         \* the activation a deactivating task holds
  phase         \* the progress of start() and stop()

callVars == <<target, cpc, cact>>
workVars == <<worker, turn, idle>>
taskVars == <<dpc, todo, dact>>
vars == <<activations, registered, callVars, fut, inbox, workVars, taskVars, phase>>

Init ==
  /\ activations = [g \in Grains |-> None]
  /\ registered = {}
  /\ target \in [Calls -> Grains]
  /\ cpc = [c \in Calls |-> "new"]
  /\ cact = [c \in Calls |-> None]
  /\ fut = [i \in Items |-> "unset"]
  /\ inbox = [a \in Calls |-> <<>>]
  /\ worker = [a \in Calls |-> "none"]
  /\ turn = [a \in Calls |-> Sentinel]
  /\ idle = [a \in Calls |-> FALSE]
  /\ dpc = [d \in Tasks |-> "off"]
  /\ todo = [d \in Tasks |-> {}]
  /\ dact = [d \in Tasks |-> None]
  /\ phase = "new"

Alive(a) == worker[a] \in {"ready", "busy"}
Dead(a) == worker[a] \in {"exited", "cancelled"}
Full(a) == Len(inbox[a]) >= InboxMax

-----------------------------------------------------------------------------
(* Callers: invoke, handle_grain_call, _invoke_local, activate_grain.      *)

\* The end of _invoke_local: the call is put in the inbox of the activation
\* the caller holds, whatever has become of that activation meanwhile; a
\* method the class does not have is refused; a full inbox makes it wait.
Submit(c, a) ==
  \/ /\ ~Full(a)
     /\ inbox' = [inbox EXCEPT ![a] = Append(@, <<c, "call">>)]
     /\ fut' = [fut EXCEPT ![<<c, "call">>] = "pending"]
     /\ cpc' = [cpc EXCEPT ![c] = "waiting"]
  \/ /\ Full(a)
     /\ fut' = [fut EXCEPT ![<<c, "call">>] = "pending"]
     /\ cpc' = [cpc EXCEPT ![c] = "putting"]
     /\ UNCHANGED inbox
  \/ /\ cpc' = [cpc EXCEPT ![c] = "failed"]
     /\ UNCHANGED <<inbox, fut>>

\* Mutant of Publish: the call is queued ahead of on_activate.
Publish_HookLast(c) ==
  /\ worker' = [worker EXCEPT ![c] = "ready"]
  /\ activations' = [activations EXCEPT ![target[c]] = c]
  /\ cact' = [cact EXCEPT ![c] = c]
  /\ inbox' = [inbox EXCEPT ![c] = <<<<c, "call">>, <<c, "hook">>>>]
  /\ fut' = [fut EXCEPT ![<<c, "hook">>] = "pending", ![<<c, "call">>] = "pending"]
  /\ cpc' = [cpc EXCEPT ![c] = "waiting"]
  /\ UNCHANGED <<target, turn, idle>>

\* The end of activate_grain once the state is loaded: create the worker,
\* publish the activation, and queue on_activate or, if the class has none,
\* go on to queue the call itself.
Publish(c) ==
  /\ worker' = [worker EXCEPT ![c] = "ready"]
  /\ activations' = [activations EXCEPT ![target[c]] = c]
  /\ cact' = [cact EXCEPT ![c] = c]
  /\ IF target[c] \in Hooked
     THEN /\ inbox' = [inbox EXCEPT ![c] = Append(@, <<c, "hook">>)]
          /\ fut' = [fut EXCEPT ![<<c, "hook">>] = "pending"]
          /\ cpc' = [cpc EXCEPT ![c] = "activating"]
     ELSE Submit(c, c)
  /\ UNCHANGED <<target, turn, idle>>

\* The call finds a published activation.
InvokeHosted(c) ==
  LET a == activations[target[c]] IN
  /\ cpc[c] = "new"
  /\ a # None
  /\ registered' = registered \union {target[c]}
  /\ cact' = [cact EXCEPT ![c] = a]
  /\ Submit(c, a)
  /\ UNCHANGED <<activations, target, workVars, taskVars, phase>>

\* Mutant of InvokeActivate: a local activation skips the directory.
InvokeActivate_Unregistered(c) ==
  /\ cpc[c] = "new"
  /\ activations[target[c]] = None
  /\ Publish(c)
  /\ UNCHANGED <<registered, taskVars, phase>>

\* The call finds none and activates the grain.  storage.read either gives
\* up the event loop or runs to its end within the step.
InvokeActivate(c) ==
  /\ cpc[c] = "new"
  /\ activations[target[c]] = None
  /\ registered' = registered \union {target[c]}
  /\ IF ReadSuspends
     THEN /\ cpc' = [cpc EXCEPT ![c] = "loading"]
          /\ UNCHANGED <<activations, target, cact, fut, inbox, workVars>>
     ELSE Publish(c)
  /\ UNCHANGED <<taskVars, phase>>

\* storage.read returns: the activation is published over whatever the map
\* holds by now.
FinishLoad(c) ==
  /\ cpc[c] = "loading"
  /\ Publish(c)
  /\ UNCHANGED <<registered, taskVars, phase>>

\* Mutant of ActivationFails: the directory is given the call, not the grain.
ActivationFails_WrongKey(c) ==
  /\ cpc[c] = "new"
  /\ registered' = registered \union {c}
  /\ cpc' = [cpc EXCEPT ![c] = "failed"]
  /\ UNCHANGED <<activations, target, cact, fut, inbox, workVars, taskVars, phase>>

\* Creating the instance or loading its state raises GrainActivationError.
ActivationFails(c) ==
  /\ \/ cpc[c] = "new" /\ activations[target[c]] = None
     \/ cpc[c] = "loading"
  /\ registered' = IF cpc[c] = "new" THEN registered \union {target[c]} ELSE registered
  /\ cpc' = [cpc EXCEPT ![c] = "failed"]
  /\ UNCHANGED <<activations, target, cact, fut, inbox, workVars, taskVars, phase>>

\* on_activate has run: activate_grain returns or raises.
HookReturns(c) ==
  /\ cpc[c] = "activating"
  /\ \/ fut[<<c, "hook">>] = "result" /\ Submit(c, cact[c])
     \/ /\ fut[<<c, "hook">>] = "error"
        /\ cpc' = [cpc EXCEPT ![c] = "failed"]
        /\ UNCHANGED <<inbox, fut>>
  /\ UNCHANGED <<activations, registered, target, cact, workVars, taskVars, phase>>

\* A place in the inbox has come free for a caller blocked in put.
PutCall(c) ==
  /\ cpc[c] = "putting"
  /\ ~Full(cact[c])
  /\ inbox' = [inbox EXCEPT ![cact[c]] = Append(@, <<c, "call">>)]
  /\ cpc' = [cpc EXCEPT ![c] = "waiting"]
  /\ UNCHANGED <<activations, registered, target, cact, fut, workVars, taskVars, phase>>

\* The caller's future is resolved.
Receive(c) ==
  /\ cpc[c] = "waiting"
  /\ fut[<<c, "call">>] \in {"result", "error"}
  /\ cpc' = [cpc EXCEPT ![c] = IF fut[<<c, "call">>] = "result" THEN "done" ELSE "failed"]
  /\ cact' = [cact EXCEPT ![c] = None]
  /\ UNCHANGED <<activations, registered, target, fut, inbox, workVars, taskVars, phase>>

\* The calling task is cancelled (its client or its connection went away);
\* the future it awaits is cancelled with it.
CancelCaller(c) ==
  /\ cpc[c] \in {"loading", "activating", "putting", "waiting"}
  /\ cpc' = [cpc EXCEPT ![c] = "cancelled"]
  /\ cact' = [cact EXCEPT ![c] = None]
  /\ fut' = [i \in Items |->
               IF i[1] = c /\ fut[i] = "pending" THEN "cancelled" ELSE fut[i]]
  /\ UNCHANGED <<activations, registered, target, inbox, workVars, taskVars, phase>>

-----------------------------------------------------------------------------
(* The worker of an activation: _grain_worker.                             *)

\* Takes the next call and starts its turn.
TakeTurn(a) ==
  /\ worker[a] = "ready"
  /\ inbox[a] # <<>>
  /\ Head(inbox[a]) # Sentinel
  /\ inbox' = [inbox EXCEPT ![a] = Tail(@)]
  /\ turn' = [turn EXCEPT ![a] = Head(inbox[a])]
  /\ worker' = [worker EXCEPT ![a] = "busy"]
  /\ idle' = [idle EXCEPT ![a] = FALSE]
  /\ UNCHANGED <<activations, registered, callVars, fut, taskVars, phase>>

\* Takes the sentinel and leaves the loop.
TakeSentinel(a) ==
  /\ worker[a] = "ready"
  /\ inbox[a] # <<>>
  /\ Head(inbox[a]) = Sentinel
  /\ inbox' = [inbox EXCEPT ![a] = Tail(@)]
  /\ worker' = [worker EXCEPT ![a] = "exited"]
  /\ UNCHANGED <<activations, registered, callVars, fut, turn, idle, taskVars, phase>>

\* Mutants of FinishTurn: the done() test is missing; the exception is lost.
FinishTurn_NoDoneTest(a) ==
  /\ worker[a] = "busy"
  /\ \E outcome \in {"result", "error"} : fut' = [fut EXCEPT ![turn[a]] = outcome]
  /\ worker' = [worker EXCEPT ![a] = "ready"]
  /\ turn' = [turn EXCEPT ![a] = Sentinel]
  /\ UNCHANGED <<activations, registered, callVars, inbox, idle, taskVars, phase>>

FinishTurn_ErrorLost(a) ==
  /\ worker[a] = "busy"
  /\ worker' = [worker EXCEPT ![a] = "ready"]
  /\ turn' = [turn EXCEPT ![a] = Sentinel]
  /\ UNCHANGED <<activations, registered, callVars, fut, inbox, idle, taskVars, phase>>

\* The method returns or raises; the future is resolved unless it is done.
FinishTurn(a) ==
  /\ worker[a] = "busy"
  /\ \E outcome \in {"result", "error"} :
       fut' = [fut EXCEPT ![turn[a]] = IF @ = "pending" THEN outcome ELSE @]
  /\ worker' = [worker EXCEPT ![a] = "ready"]
  /\ turn' = [turn EXCEPT ![a] = Sentinel]
  /\ UNCHANGED <<activations, registered, callVars, inbox, idle, taskVars, phase>>

\* Time passes: last_activity is now older than the idle timeout.
GrowIdle(a) ==
  /\ Alive(a)
  /\ ~idle[a]
  /\ idle' = [idle EXCEPT ![a] = TRUE]
  /\ UNCHANGED <<activations, registered, callVars, fut, inbox, worker, turn, taskVars, phase>>

-----------------------------------------------------------------------------
(* Deactivation: deactivate_grain, run by every task in Tasks.             *)

\* deactivate_grain's await inbox.put(_SENTINEL), on the activation a.
PutSentinelOrWait(d, a) ==
  IF Full(a)
  THEN dpc' = [dpc EXCEPT ![d] = "put"] /\ UNCHANGED inbox
  ELSE /\ inbox' = [inbox EXCEPT ![a] = Append(@, Sentinel)]
       /\ dpc' = [dpc EXCEPT ![d] = "join"]

\* deactivate_grain(g) on a grain with no activation returns at once.
DeactivateAbsent(d) ==
  /\ dpc[d] = "next"
  /\ \E g \in todo[d] :
       /\ activations[g] = None
       /\ todo' = [todo EXCEPT ![d] = @ \ {g}]
  /\ UNCHANGED <<activations, registered, callVars, fut, inbox, workVars, dpc, dact, phase>>

\* deactivate_grain(g) begins: it holds the activation and either awaits
\* on_deactivate, called directly, or goes on to put the sentinel.
DeactivateBegin(d) ==
  /\ dpc[d] = "next"
  /\ \E g \in todo[d] :
       LET a == activations[g] IN
       /\ a # None
       /\ todo' = [todo EXCEPT ![d] = @ \ {g}]
       /\ dact' = [dact EXCEPT ![d] = a]
       /\ IF g \in Hooked
          THEN dpc' = [dpc EXCEPT ![d] = "hook"] /\ UNCHANGED inbox
          ELSE PutSentinelOrWait(d, a)
  /\ UNCHANGED <<activations, registered, callVars, fut, workVars, phase>>

\* on_deactivate returns, or raises and is logged.
DeactivateHookDone(d) ==
  /\ dpc[d] = "hook"
  /\ PutSentinelOrWait(d, dact[d])
  /\ UNCHANGED <<activations, registered, callVars, fut, workVars, todo, dact, phase>>

\* A place in the inbox has come free for the sentinel.
PutSentinel(d) ==
  /\ dpc[d] = "put"
  /\ ~Full(dact[d])
  /\ PutSentinelOrWait(d, dact[d])
  /\ UNCHANGED <<activations, registered, callVars, fut, workVars, todo, dact, phase>>

\* Mutant of JoinTimeout: the worker is awaited without a timeout.
JoinTimeout_Never(d) == FALSE /\ UNCHANGED vars

\* _WORKER_SHUTDOWN_TIMEOUT expires: wait_for cancels the worker.  The
\* CancelledError leaves the worker loop, whose handler catches Exception
\* only: the future of the turn in progress stays unresolved.
JoinTimeout(d) ==
  /\ dpc[d] = "join"
  /\ Alive(dact[d])
  /\ worker' = [worker EXCEPT ![dact[d]] = "cancelled"]
  /\ turn' = [turn EXCEPT ![dact[d]] = Sentinel]
  /\ UNCHANGED <<activations, registered, callVars, fut, inbox, idle, taskVars, phase>>

\* Mutant of JoinDone: the grain is removed without awaiting its worker.
JoinDone_NoWait(d) ==
  LET g == target[dact[d]] IN
  /\ dpc[d] = "join"
  /\ activations' = [activations EXCEPT ![g] = None]
  /\ registered' = registered \ {g}
  /\ dpc' = [dpc EXCEPT ![d] = "next"]
  /\ dact' = [dact EXCEPT ![d] = None]
  /\ UNCHANGED <<callVars, fut, inbox, workVars, todo, phase>>

\* The worker task has ended: the grain is removed from the map, whatever
\* the map holds for it by now, and from the directory.
JoinDone(d) ==
  LET g == target[dact[d]] IN
  /\ dpc[d] = "join"
  /\ Dead(dact[d])
  /\ activations' = [activations EXCEPT ![g] = None]
  /\ registered' = registered \ {g}
  /\ dpc' = [dpc EXCEPT ![d] = "next"]
  /\ dact' = [dact EXCEPT ![d] = None]
  /\ UNCHANGED <<callVars, fut, inbox, workVars, todo, phase>>

\* deactivate_on_idle() schedules a task of its own; so does the directory's
\* request to stand down.
Schedule(d) ==
  /\ d \in Scheduled
  /\ dpc[d] = "off"
  /\ \E g \in Grains : todo' = [todo EXCEPT ![d] = {g}]
  /\ dpc' = [dpc EXCEPT ![d] = "next"]
  /\ UNCHANGED <<activations, registered, callVars, fut, inbox, workVars, dact, phase>>

\* A scheduled task ends with its only grain.
ScheduledDone(d) ==
  /\ d \in Scheduled
  /\ dpc[d] = "next"
  /\ todo[d] = {}
  /\ dpc' = [dpc EXCEPT ![d] = "ended"]
  /\ UNCHANGED <<activations, registered, callVars, fut, inbox, workVars, todo, dact, phase>>

-----------------------------------------------------------------------------
(* start, the idle collector and stop.                                     *)

Start ==
  /\ phase = "new"
  /\ phase' = "running"
  /\ dpc' = [dpc EXCEPT ![Collector] = "rest"]
  /\ UNCHANGED <<activations, registered, callVars, fut, inbox, workVars, todo, dact>>

\* The collector wakes and lists the grains that have been idle too long.
CollectorPass ==
  /\ dpc[Collector] = "rest"
  /\ LET expired == {g \in Grains : activations[g] # None /\ idle[activations[g]]} IN
     /\ expired # {}
     /\ todo' = [todo EXCEPT ![Collector] = expired]
  /\ dpc' = [dpc EXCEPT ![Collector] = "next"]
  /\ UNCHANGED <<activations, registered, callVars, fut, inbox, workVars, dact, phase>>

\* The pass is over: back to sleep.
CollectorRests ==
  /\ dpc[Collector] = "next"
  /\ todo[Collector] = {}
  /\ dpc' = [dpc EXCEPT ![Collector] = "rest"]
  /\ UNCHANGED <<activations, registered, callVars, fut, inbox, workVars, todo, dact, phase>>

\* Mutant of StopBegin: deactivate_grain lets the CancelledError through, so
\* the collector ends wherever it is.
StopBegin_NotSwallowed ==
  /\ phase = "running"
  /\ phase' = "cancelling"
  /\ dpc[Collector] \in {"rest", "hook", "put", "join"}
  /\ dpc' = [dpc EXCEPT ![Collector] = "ended"]
  /\ worker' = [a \in Calls |-> IF a = dact[Collector] /\ Alive(a) THEN "cancelled" ELSE worker[a]]
  /\ UNCHANGED <<activations, registered, callVars, fut, inbox, turn, idle, todo, dact>>

\* stop() cancels the collector and awaits its end.  The cancellation ends
\* a collector that sleeps, awaits on_deactivate or a place in the inbox;
\* one that awaits a worker passes it on to the worker, swallows the
\* CancelledError in deactivate_grain and goes on.
StopBegin ==
  /\ phase = "running"
  /\ phase' = "cancelling"
  /\ \/ /\ dpc[Collector] \in {"rest", "hook", "put"}
        /\ dpc' = [dpc EXCEPT ![Collector] = "ended"]
        /\ todo' = [todo EXCEPT ![Collector] = {}]
        /\ dact' = [dact EXCEPT ![Collector] = None]
        /\ UNCHANGED <<worker, turn>>
     \/ /\ dpc[Collector] = "join"
        /\ IF Alive(dact[Collector])
           THEN /\ worker' = [worker EXCEPT ![dact[Collector]] = "cancelled"]
                /\ turn' = [turn EXCEPT ![dact[Collector]] = Sentinel]
           ELSE UNCHANGED <<worker, turn>>
        /\ UNCHANGED taskVars
  /\ UNCHANGED <<activations, registered, callVars, fut, inbox, idle>>

\* The collector has ended: stop() lists the grains it will deactivate.
StopList ==
  /\ phase = "cancelling"
  /\ dpc[Collector] = "ended"
  /\ phase' = "stopping"
  /\ todo' = [todo EXCEPT ![Stopper] = {g \in Grains : activations[g] # None}]
  /\ dpc' = [dpc EXCEPT ![Stopper] = "next"]
  /\ UNCHANGED <<activations, registered, callVars, fut, inbox, workVars, dact>>

\* Every listed grain has been deactivated: stop() returns.
StopDone ==
  /\ phase = "stopping"
  /\ dpc[Stopper] = "next"
  /\ todo[Stopper] = {}
  /\ phase' = "stopped"
  /\ dpc' = [dpc EXCEPT ![Stopper] = "ended"]
  /\ UNCHANGED <<activations, registered, callVars, fut, inbox, workVars, todo, dact>>

-----------------------------------------------------------------------------

CallStep(c) ==
  \/ InvokeHosted(c) \/ InvokeActivate(c) \/ FinishLoad(c) \/ ActivationFails(c)
  \/ HookReturns(c) \/ PutCall(c) \/ Receive(c) \/ CancelCaller(c)

WorkerStep(a) ==
  \/ TakeTurn(a) \/ TakeSentinel(a) \/ FinishTurn(a) \/ GrowIdle(a)

TaskStep(d) ==
  \/ DeactivateAbsent(d) \/ DeactivateBegin(d) \/ DeactivateHookDone(d)
  \/ PutSentinel(d) \/ JoinTimeout(d) \/ JoinDone(d)
  \/ Schedule(d) \/ ScheduledDone(d)

RuntimeStep ==
  \/ Start \/ CollectorPass \/ CollectorRests \/ StopBegin \/ StopList \/ StopDone

Next ==
  \/ \E c \in Calls : CallStep(c) \/ WorkerStep(c)
  \/ \E d \in Tasks : TaskStep(d)
  \/ RuntimeStep

Spec == Init /\ [][Next]_vars

\* What the event loop guarantees: a task that can run does run, a timer that
\* is due fires, and storage answers.  on_deactivate is assumed to return;
\* a turn, which is grain code, is not assumed to end.
LoopFairness ==
  /\ \A c \in Calls : /\ WF_vars(FinishLoad(c)) /\ WF_vars(HookReturns(c))
                      /\ WF_vars(PutCall(c)) /\ WF_vars(Receive(c))
                      /\ WF_vars(TakeTurn(c)) /\ WF_vars(TakeSentinel(c))
  /\ \A d \in Tasks : /\ WF_vars(DeactivateAbsent(d)) /\ WF_vars(DeactivateBegin(d))
                      /\ WF_vars(DeactivateHookDone(d)) /\ WF_vars(PutSentinel(d))
                      /\ WF_vars(JoinTimeout(d)) /\ WF_vars(JoinDone(d))
                      /\ WF_vars(ScheduledDone(d))
  /\ WF_vars(CollectorRests) /\ WF_vars(StopList) /\ WF_vars(StopDone)

FairSpec == Spec /\ LoopFairness

\* Grain methods that end: the setting in which a caller may expect an answer.
TurnsEnd == \A a \in Calls : WF_vars(FinishTurn(a))
FairTurnsSpec == FairSpec /\ TurnsEnd

-----------------------------------------------------------------------------
(* Properties.                                                             *)

\* Every variable has its type.
TypeOK ==
  /\ activations \in [Grains -> Calls \union {None}]
  /\ registered \subseteq Grains
  /\ target \in [Calls -> Grains]
  /\ cpc \in [Calls -> {"new", "loading", "activating", "putting", "waiting",
                        "done", "failed", "cancelled"}]
  /\ cact \in [Calls -> Calls \union {None}]
  /\ fut \in [Items -> {"unset", "pending", "result", "error", "cancelled"}]
  /\ inbox \in [Calls -> Seq(Items \union {Sentinel})]
  /\ worker \in [Calls -> {"none", "ready", "busy", "exited", "cancelled"}]
  /\ turn \in [Calls -> Items \union {Sentinel}]
  /\ idle \in [Calls -> BOOLEAN]
  /\ dpc \in [Tasks -> {"off", "rest", "next", "hook", "put", "join", "ended"}]
  /\ todo \in [Tasks -> SUBSET Grains]
  /\ dact \in [Tasks -> Calls \union {None}]
  /\ phase \in {"new", "running", "cancelling", "stopping", "stopped"}

\* An activation whose worker has ended and that is still published has a
\* task that awaits that worker and will remove it: deactivate_grain never
\* leaves a dead activation in the map, where every later call would queue
\* in an inbox that nobody drains.
DeadWorkerIsReaped ==
  \A g \in Grains :
    (activations[g] # None /\ Dead(activations[g])) =>
       \E d \in Tasks : dpc[d] = "join" /\ dact[d] = activations[g]

\* A caller that waits has its call in the inbox of the activation it holds,
\* or in that activation's turn, or was answered, or the worker was cancelled:
\* the worker loop forgets no call, whether the method returns or raises.
WaitingIsAccountedFor ==
  \A c \in Calls :
    (cpc[c] = "waiting" /\ fut[<<c, "call">>] = "pending") =>
       \/ \E i \in 1..Len(inbox[cact[c]]) : inbox[cact[c]][i] = <<c, "call">>
       \/ turn[cact[c]] = <<c, "call">>
       \/ worker[cact[c]] = "cancelled"

\* on_activate is the first turn of an activation: no call that reaches the
\* published activation overtakes it in the inbox.
OnActivateFirst ==
  \A a \in Calls :
    /\ \A i \in 2..Len(inbox[a]) : inbox[a][i] # <<a, "hook">>
    /\ worker[a] = "busy" =>
         \A i \in 1..Len(inbox[a]) : inbox[a][i] # <<a, "hook">>

\* A future is resolved once: neither the worker nor a cancelled caller ever
\* changes the outcome of a done future (asyncio would raise
\* InvalidStateError inside the worker loop).
FuturesWriteOnce ==
  [][\A i \in Items : fut[i] \notin {"unset", "pending"} => fut'[i] = fut[i]]_vars

\* At most one activation of a grain has a live worker: the single-activation
\* contract within one silo.
SingleActivation ==
  \A a, b \in Calls : (Alive(a) /\ Alive(b) /\ target[a] = target[b]) => a = b

\* A live activation is the published one: no worker is left running that the
\* map has forgotten, where neither calls nor stop() would find it.
NoOrphan ==
  \A a \in Calls : Alive(a) => activations[target[a]] = a

\* A published grain has its directory entry, so that the directory never
\* offers another place for a grain this silo hosts.
HostedIsRegistered ==
  \A g \in Grains : activations[g] # None => g \in registered

\* Only one piece of grain code runs at a time on an activation: no turn is in
\* progress while its on_deactivate runs.
OneMethodAtATime ==
  \A d \in Tasks : dpc[d] = "hook" => worker[dact[d]] # "busy"

\* Every deactivation that has begun comes to its end, even behind a turn that
\* never does: the worker is cancelled after the shutdown timeout.
DeactivationEnds ==
  \A d \in Tasks : dpc[d] \in {"hook", "put", "join"} ~> dpc[d] \in {"next", "rest", "ended"}

\* A caller that waits for its answer gets one, unless the shutdown timeout
\* cancelled the worker that had the call.
CallsAnswered ==
  \A c \in Calls :
    cpc[c] = "waiting" ~> (cpc[c] # "waiting" \/ worker[cact[c]] = "cancelled")

\* A stop() that has begun deactivates the grains and returns.
StopReturns == phase = "cancelling" ~> phase = "stopped"

=============================================================================

------------------------- MODULE GrainRuntimeProofs -------------------------
(***************************************************************************)
(* Proofs about GrainRuntime, for every set of grains, calls and scheduled *)
(* tasks, every inbox size and both kinds of storage.                      *)
(***************************************************************************)
EXTENDS GrainRuntime, TLAPS

\* The items a caller queues, and what the inbox holds.
LEMMA ItemFacts ==
  /\ \A c \in Calls : <<c, "hook">> \in Items /\ <<c, "call">> \in Items
  /\ \A i \in Items : i[1] \in Calls
  /\ Sentinel \notin Items
BY RuntimeAssumption DEF Items

\* Queueing an entry keeps every inbox a sequence.
LEMMA AppendTyped ==
  ASSUME NEW D, NEW S, NEW f \in [D -> Seq(S)], NEW a, NEW x \in S
  PROVE  [f EXCEPT ![a] = Append(@, x)] \in [D -> Seq(S)]
<1>1. CASE a \in D
  <2>1. Append(f[a], x) \in Seq(S)
    BY <1>1
  <2> QED
    BY <1>1, <2>1
<1>2. CASE a \notin D
  BY <1>2
<1> QED
  BY <1>1, <1>2

\* Taking the first entry keeps every inbox a sequence.
LEMMA TailTyped ==
  ASSUME NEW D, NEW S, NEW f \in [D -> Seq(S)], NEW a \in D, f[a] # <<>>
  PROVE  /\ [f EXCEPT ![a] = Tail(@)] \in [D -> Seq(S)]
         /\ Head(f[a]) \in S
OBVIOUS

\* The variables that Submit changes keep their types.
LEMMA SubmitTyped ==
  ASSUME TypeOK, NEW c \in Calls, NEW a, Submit(c, a)
  PROVE  /\ inbox' \in [Calls -> Seq(Items \union {Sentinel})]
         /\ fut' \in [Items -> {"unset", "pending", "result", "error", "cancelled"}]
         /\ cpc' \in [Calls -> {"new", "loading", "activating", "putting", "waiting",
                                "done", "failed", "cancelled"}]
<1>1. [inbox EXCEPT ![a] = Append(@, <<c, "call">>)]
         \in [Calls -> Seq(Items \union {Sentinel})]
  BY ItemFacts, AppendTyped DEF TypeOK
<1>2. [fut EXCEPT ![<<c, "call">>] = "pending"]
         \in [Items -> {"unset", "pending", "result", "error", "cancelled"}]
  BY DEF TypeOK
<1> QED
  BY <1>1, <1>2 DEF TypeOK, Submit

\* The variables that Publish changes keep their types.
LEMMA PublishTyped ==
  ASSUME TypeOK, NEW c \in Calls, Publish(c)
  PROVE  /\ inbox' \in [Calls -> Seq(Items \union {Sentinel})]
         /\ fut' \in [Items -> {"unset", "pending", "result", "error", "cancelled"}]
         /\ cpc' \in [Calls -> {"new", "loading", "activating", "putting", "waiting",
                                "done", "failed", "cancelled"}]
         /\ worker' \in [Calls -> {"none", "ready", "busy", "exited", "cancelled"}]
         /\ activations' \in [Grains -> Calls \union {None}]
         /\ cact' \in [Calls -> Calls \union {None}]
         /\ UNCHANGED <<target, turn, idle>>
<1>1. [inbox EXCEPT ![c] = Append(@, <<c, "hook">>)]
         \in [Calls -> Seq(Items \union {Sentinel})]
  BY ItemFacts, AppendTyped DEF TypeOK
<1>2. CASE target[c] \in Hooked
  BY <1>1, <1>2, ItemFacts DEF TypeOK, Publish
<1>3. CASE target[c] \notin Hooked
  BY <1>3, SubmitTyped DEF TypeOK, Publish
<1> QED
  BY <1>2, <1>3

\* The variables that PutSentinelOrWait changes keep their types.
LEMMA PutSentinelTyped ==
  ASSUME TypeOK, NEW d \in Tasks, NEW a, PutSentinelOrWait(d, a)
  PROVE  /\ inbox' \in [Calls -> Seq(Items \union {Sentinel})]
         /\ dpc' \in [Tasks -> {"off", "rest", "next", "hook", "put", "join", "ended"}]
<1>1. [inbox EXCEPT ![a] = Append(@, Sentinel)] \in [Calls -> Seq(Items \union {Sentinel})]
  BY AppendTyped DEF TypeOK
<1> QED
  BY <1>1 DEF TypeOK, PutSentinelOrWait

\* The types of the variables are preserved by every step of every task.
LEMMA TypeStep == TypeOK /\ [Next]_vars => TypeOK'
<1> USE RuntimeAssumption
<1> SUFFICES ASSUME TypeOK, [Next]_vars PROVE TypeOK'
  OBVIOUS
<1>1. ASSUME NEW c \in Calls, CallStep(c) PROVE TypeOK'
  <2>1. CASE InvokeHosted(c)
    BY <2>1, SubmitTyped DEF TypeOK, InvokeHosted, workVars, taskVars
  <2>2. CASE InvokeActivate(c)
    <3>1. CASE ReadSuspends
      <4>1. /\ cpc' = [cpc EXCEPT ![c] = "loading"]
            /\ registered' = registered \union {target[c]}
            /\ UNCHANGED <<activations, target, cact, fut, inbox, worker, turn, idle,
                           dpc, todo, dact, phase>>
        BY <2>2, <3>1 DEF InvokeActivate, workVars, taskVars
      <4> QED
        BY <4>1 DEF TypeOK
    <3>2. CASE ~ReadSuspends
      BY <2>2, <3>2, PublishTyped DEF TypeOK, InvokeActivate, taskVars
    <3> QED
      BY <3>1, <3>2
  <2>3. CASE FinishLoad(c)
    BY <2>3, PublishTyped DEF TypeOK, FinishLoad, taskVars
  <2>4. CASE ActivationFails(c)
    BY <2>4 DEF TypeOK, ActivationFails, workVars, taskVars
  <2>5. CASE HookReturns(c)
    BY <2>5, SubmitTyped DEF TypeOK, HookReturns, workVars, taskVars
  <2>6. CASE PutCall(c)
    BY <2>6, ItemFacts, AppendTyped DEF TypeOK, PutCall, workVars, taskVars
  <2>7. CASE Receive(c)
    BY <2>7 DEF TypeOK, Receive, workVars, taskVars
  <2>8. CASE CancelCaller(c)
    BY <2>8 DEF TypeOK, CancelCaller, workVars, taskVars
  <2> QED
    BY <1>1, <2>1, <2>2, <2>3, <2>4, <2>5, <2>6, <2>7, <2>8 DEF CallStep
<1>2. ASSUME NEW a \in Calls, WorkerStep(a) PROVE TypeOK'
  <2>1. CASE TakeTurn(a)
    BY <2>1, TailTyped DEF TypeOK, TakeTurn, callVars, taskVars
  <2>2. CASE TakeSentinel(a)
    BY <2>2, TailTyped DEF TypeOK, TakeSentinel, callVars, taskVars
  <2>3. CASE FinishTurn(a)
    <3>1. PICK outcome \in {"result", "error"} :
            fut' = [fut EXCEPT ![turn[a]] = IF @ = "pending" THEN outcome ELSE @]
      BY <2>3 DEF FinishTurn
    <3>2. fut' \in [Items -> {"unset", "pending", "result", "error", "cancelled"}]
      BY <3>1 DEF TypeOK
    <3> QED
      BY <2>3, <3>2 DEF TypeOK, FinishTurn, callVars, taskVars
  <2>4. CASE GrowIdle(a)
    BY <2>4 DEF TypeOK, GrowIdle, callVars, taskVars
  <2> QED
    BY <1>2, <2>1, <2>2, <2>3, <2>4 DEF WorkerStep
<1>3. ASSUME NEW d \in Tasks, TaskStep(d) PROVE TypeOK'
  <2>1. CASE DeactivateAbsent(d)
    BY <2>1 DEF TypeOK, DeactivateAbsent, callVars, workVars
  <2>2. CASE DeactivateBegin(d)
    <3>1. PICK g \in todo[d] :
            /\ activations[g] # None
            /\ todo' = [todo EXCEPT ![d] = @ \ {g}]
            /\ dact' = [dact EXCEPT ![d] = activations[g]]
            /\ \/ dpc' = [dpc EXCEPT ![d] = "hook"] /\ UNCHANGED inbox
               \/ PutSentinelOrWait(d, activations[g])
      BY <2>2 DEF DeactivateBegin
    <3>2. activations[g] \in Calls
      BY <3>1 DEF TypeOK
    <3>3. /\ dpc' \in [Tasks -> {"off", "rest", "next", "hook", "put", "join", "ended"}]
          /\ inbox' \in [Calls -> Seq(Items \union {Sentinel})]
      BY <3>1, <3>2, PutSentinelTyped DEF TypeOK
    <3>4. dact' \in [Tasks -> Calls \union {None}] /\ todo' \in [Tasks -> SUBSET Grains]
      BY <3>1, <3>2 DEF TypeOK
    <3> QED
      BY <2>2, <3>3, <3>4 DEF TypeOK, DeactivateBegin, callVars, workVars
  <2>3. CASE DeactivateHookDone(d)
    BY <2>3, PutSentinelTyped DEF TypeOK, DeactivateHookDone, callVars, workVars
  <2>4. CASE PutSentinel(d)
    BY <2>4, PutSentinelTyped DEF TypeOK, PutSentinel, callVars, workVars
  <2>5. CASE JoinTimeout(d)
    BY <2>5 DEF TypeOK, JoinTimeout, callVars, taskVars
  <2>6. CASE JoinDone(d)
    BY <2>6 DEF TypeOK, JoinDone, callVars, workVars
  <2>7. CASE Schedule(d)
    BY <2>7 DEF TypeOK, Schedule, callVars, workVars
  <2>8. CASE ScheduledDone(d)
    BY <2>8 DEF TypeOK, ScheduledDone, callVars, workVars
  <2> QED
    BY <1>3, <2>1, <2>2, <2>3, <2>4, <2>5, <2>6, <2>7, <2>8 DEF TaskStep
<1>4. ASSUME RuntimeStep PROVE TypeOK'
  <2>1. CASE Start
    BY <2>1 DEF TypeOK, Start, Tasks, callVars, workVars
  <2>2. CASE CollectorPass
    BY <2>2 DEF TypeOK, CollectorPass, Tasks, callVars, workVars
  <2>3. CASE CollectorRests
    BY <2>3 DEF TypeOK, CollectorRests, Tasks, callVars, workVars
  <2>4. CASE StopBegin
    <3>1. /\ worker' \in [Calls -> {"none", "ready", "busy", "exited", "cancelled"}]
          /\ turn' \in [Calls -> Items \union {Sentinel}]
      BY <2>4 DEF TypeOK, StopBegin
    <3>2. /\ dpc' \in [Tasks -> {"off", "rest", "next", "hook", "put", "join", "ended"}]
          /\ todo' \in [Tasks -> SUBSET Grains]
          /\ dact' \in [Tasks -> Calls \union {None}]
      BY <2>4 DEF TypeOK, StopBegin, taskVars
    <3> QED
      BY <2>4, <3>1, <3>2 DEF TypeOK, StopBegin, callVars
  <2>5. CASE StopList
    BY <2>5 DEF TypeOK, StopList, Tasks, callVars, workVars
  <2>6. CASE StopDone
    BY <2>6 DEF TypeOK, StopDone, Tasks, callVars, workVars
  <2> QED
    BY <1>4, <2>1, <2>2, <2>3, <2>4, <2>5, <2>6 DEF RuntimeStep
<1>5. CASE UNCHANGED vars
  BY <1>5 DEF TypeOK, vars, callVars, workVars, taskVars
<1> QED
  BY <1>1, <1>2, <1>3, <1>4, <1>5 DEF Next

\* Every variable of the runtime keeps its type in every behaviour.
THEOREM TypeCorrect == Spec => []TypeOK
<1>1. Init => TypeOK
  BY RuntimeAssumption DEF Init, TypeOK, Items, Tasks
<1> QED
  BY <1>1, TypeStep, PTL DEF Spec

-----------------------------------------------------------------------------
(* No dead activation stays published.                                     *)

\* A call that has not published its activation has neither worker nor inbox.
Fresh ==
  \A c \in Calls : /\ cpc[c] \in {"new", "loading"} => worker[c] = "none"
                   /\ worker[c] = "none" => inbox[c] = <<>>

\* What the map, a caller or a deactivating task holds is an activation that
\* was created, and the map files it under its own grain.
Held ==
  /\ \A g \in Grains : activations[g] # None =>
       target[activations[g]] = g /\ worker[activations[g]] # "none"
  /\ \A c \in Calls : cpc[c] \in {"activating", "putting", "waiting"} =>
       cact[c] \in Calls /\ worker[cact[c]] # "none"
  /\ \A d \in Tasks : dpc[d] \in {"hook", "put", "join"} =>
       dact[d] \in Calls /\ worker[dact[d]] # "none"

\* The activation a is being shut down: its worker has ended or will find a
\* sentinel in its inbox.
ShuttingDown(a) ==
  Dead(a) \/ \E i \in 1..Len(inbox[a]) : inbox[a][i] = Sentinel

\* A published activation that is being shut down has a task that awaits it.
Owned ==
  \A g \in Grains :
    (activations[g] # None /\ ShuttingDown(activations[g])) =>
       \E d \in Tasks : dpc[d] = "join" /\ dact[d] = activations[g]

\* The collector runs only after start(), and stop()'s own task only after it
\* has found the collector ended.
Stages ==
  /\ phase = "new" => dpc[Collector] = "off"
  /\ phase \in {"new", "running", "cancelling"} => dpc[Stopper] = "off"

ReapInv == TypeOK /\ Stages /\ Fresh /\ Held /\ Owned

\* Submit queues a call: no sentinel and no worker changes.
LEMMA SubmitFrame ==
  ASSUME TypeOK, NEW c \in Calls, NEW a \in Calls, Submit(c, a)
  PROVE  /\ \A b \in Calls : \A i \in 1..Len(inbox'[b]) :
              inbox'[b][i] = Sentinel => i \in 1..Len(inbox[b]) /\ inbox[b][i] = Sentinel
         /\ \A b \in Calls : b # a => inbox'[b] = inbox[b]
         /\ cpc'[c] \in {"waiting", "putting", "failed"}
         /\ \A b \in Calls : b # c => cpc'[b] = cpc[b]
<1> USE DEF TypeOK
<1>1. /\ cpc'[c] \in {"waiting", "putting", "failed"}
      /\ \A b \in Calls : b # c => cpc'[b] = cpc[b]
  BY DEF Submit
<1>2. CASE inbox' = inbox
  BY <1>1, <1>2
<1>3. CASE inbox' = [inbox EXCEPT ![a] = Append(@, <<c, "call">>)]
  <2>1. <<c, "call">> # Sentinel
    BY ItemFacts
  <2>2. inbox'[a] = Append(inbox[a], <<c, "call">>) /\ inbox[a] \in Seq(Items \union {Sentinel})
    BY <1>3
  <2>3. \A i \in 1..Len(inbox'[a]) :
          inbox'[a][i] = Sentinel => i \in 1..Len(inbox[a]) /\ inbox[a][i] = Sentinel
    BY <2>1, <2>2
  <2>4. \A b \in Calls : b # a => inbox'[b] = inbox[b]
    BY <1>3
  <2>5. \A b \in Calls : \A i \in 1..Len(inbox'[b]) :
          inbox'[b][i] = Sentinel => i \in 1..Len(inbox[b]) /\ inbox[b][i] = Sentinel
    <3> TAKE b \in Calls
    <3>1. CASE b = a
      BY <2>3, <3>1
    <3>2. CASE b # a
      BY <2>4, <3>2
    <3> QED
      BY <3>1, <3>2
  <2> QED
    BY <1>1, <2>4, <2>5
<1>4. inbox' = inbox \/ inbox' = [inbox EXCEPT ![a] = Append(@, <<c, "call">>)]
  BY DEF Submit
<1> QED
  BY <1>2, <1>3, <1>4

\* start() finds the collector off, and stop() finds its own task off.
LEMMA StagesStep == TypeOK /\ Stages /\ [Next]_vars => Stages'
<1> SUFFICES ASSUME TypeOK, Stages, [Next]_vars PROVE Stages'
  OBVIOUS
<1> USE RuntimeAssumption DEF TypeOK, Stages, Tasks
<1>1. ASSUME NEW c \in Calls, CallStep(c) \/ WorkerStep(c) PROVE Stages'
  <2>1. UNCHANGED <<phase, dpc>>
    BY <1>1 DEF CallStep, WorkerStep, InvokeHosted, InvokeActivate, FinishLoad, ActivationFails,
                HookReturns, PutCall, Receive, CancelCaller, TakeTurn, TakeSentinel,
                FinishTurn, GrowIdle, taskVars
  <2> QED
    BY <2>1
<1>2. ASSUME NEW d \in Tasks, TaskStep(d) PROVE Stages'
  <2>1. phase' = phase
    BY <1>2 DEF TaskStep, DeactivateAbsent, DeactivateBegin, DeactivateHookDone, PutSentinel,
                JoinTimeout, JoinDone, Schedule, ScheduledDone
  <2>2. \A e \in Tasks : e # d => dpc'[e] = dpc[e]
    BY <1>2 DEF TaskStep, DeactivateAbsent, DeactivateBegin, DeactivateHookDone, PutSentinel,
                PutSentinelOrWait, JoinTimeout, JoinDone, Schedule, ScheduledDone, taskVars
  <2>3. dpc[d] = "off" => d \in Scheduled
    BY <1>2 DEF TaskStep, DeactivateAbsent, DeactivateBegin, DeactivateHookDone, PutSentinel,
                JoinTimeout, JoinDone, Schedule, ScheduledDone
  <2> QED
    BY <2>1, <2>2, <2>3
<1>3. ASSUME RuntimeStep PROVE Stages'
  BY <1>3 DEF RuntimeStep, Start, CollectorPass, CollectorRests, StopBegin, StopList, StopDone,
              taskVars
<1>4. CASE UNCHANGED vars
  BY <1>4 DEF vars, taskVars
<1> QED
  BY <1>1, <1>2, <1>3, <1>4 DEF Next

\* A step that publishes nothing, shuts nothing down and moves no task out of
\* its wait for a worker keeps every activation that is shut down awaited.
LEMMA OwnedFrame ==
  ASSUME TypeOK, TypeOK', Owned,
         \A g \in Grains : activations'[g] \in {activations[g], None},
         \A b \in Calls : ShuttingDown(b)' => ShuttingDown(b),
         \A d \in Tasks : dpc[d] = "join" => dpc'[d] = "join" /\ dact'[d] = dact[d]
  PROVE  Owned'
<1> SUFFICES ASSUME NEW g \in Grains, activations'[g] # None,
                    (ShuttingDown(activations[g]))'
             PROVE  \E d \in Tasks : dpc'[d] = "join" /\ dact'[d] = activations'[g]
  BY DEF Owned
<1>1. activations'[g] = activations[g] /\ activations[g] \in Calls
  BY DEF TypeOK
<1>2. ShuttingDown(activations[g])
  BY <1>1
<1>3. PICK d \in Tasks : dpc[d] = "join" /\ dact[d] = activations[g]
  BY <1>1, <1>2 DEF Owned
<1> QED
  BY <1>1, <1>3

\* A step that changes no inbox and no worker shuts nothing down.
LEMMA QuietShutdown ==
  ASSUME TypeOK, inbox' = inbox, worker' = worker
  PROVE  \A b \in Calls : ShuttingDown(b)' => ShuttingDown(b)
BY DEF ShuttingDown, Dead

\* Submit shuts nothing down.
LEMMA SubmitShutdown ==
  ASSUME TypeOK, NEW c \in Calls, NEW a \in Calls, Submit(c, a), worker' = worker
  PROVE  \A b \in Calls : ShuttingDown(b)' => ShuttingDown(b)
BY SubmitFrame DEF ShuttingDown, Dead

\* Taking the first entry of an inbox leaves the others in it.
LEMMA TailEntries ==
  ASSUME NEW S, NEW s \in Seq(S), s # <<>>
  PROVE  /\ Tail(s) \in Seq(S)
         /\ Len(Tail(s)) = Len(s) - 1
         /\ \A i \in 1..Len(Tail(s)) : i + 1 \in 1..Len(s) /\ Tail(s)[i] = s[i + 1]
         /\ Head(s) = s[1] /\ 1 \in 1..Len(s)
OBVIOUS

\* A published activation is fresh: its inbox has one entry at most, a call.
LEMMA PublishFrame ==
  ASSUME TypeOK, Fresh, NEW c \in Calls, worker[c] = "none", Publish(c)
  PROVE  /\ \A b \in Calls : b # c => inbox'[b] = inbox[b]
         /\ \A i \in 1..Len(inbox'[c]) : inbox'[c][i] # Sentinel
         /\ cpc'[c] \in {"activating", "waiting", "putting", "failed"}
         /\ \A b \in Calls : b # c => cpc'[b] = cpc[b]
<1>1. inbox[c] = <<>>
  BY DEF Fresh
<1>2. CASE target[c] \in Hooked
  <2>1. <<c, "hook">> # Sentinel
    BY ItemFacts
  <2>2. inbox'[c] = Append(<<>>, <<c, "hook">>)
    BY <1>1, <1>2 DEF Publish, TypeOK
  <2>3. \A i \in 1..Len(inbox'[c]) : inbox'[c][i] # Sentinel
    BY <2>1, <2>2
  <2> QED
    BY <1>2, <2>3 DEF Publish, TypeOK
<1>3. CASE target[c] \notin Hooked
  <2>1. Submit(c, c)
    BY <1>3 DEF Publish
  <2> QED
    BY <1>1, <2>1, SubmitFrame
<1> QED
  BY <1>2, <1>3

\* Publishing an activation keeps the invariant.
LEMMA PublishReap ==
  ASSUME TypeOK, TypeOK', Fresh, Held, Owned, NEW c \in Calls, worker[c] = "none",
         Publish(c), UNCHANGED taskVars
  PROVE  (Fresh /\ Held /\ Owned)'
<1>1. /\ worker' = [worker EXCEPT ![c] = "ready"]
      /\ activations' = [activations EXCEPT ![target[c]] = c]
      /\ cact' = [cact EXCEPT ![c] = c]
      /\ UNCHANGED <<target, dpc, todo, dact>>
  BY DEF Publish, taskVars
<1>0. /\ \A b \in Calls : b # c => inbox'[b] = inbox[b] /\ cpc'[b] = cpc[b]
      /\ \A i \in 1..Len(inbox'[c]) : inbox'[c][i] # Sentinel
      /\ cpc'[c] \in {"activating", "waiting", "putting", "failed"}
  BY PublishFrame
<1>2. Fresh'
  <2> SUFFICES ASSUME NEW b \in Calls
               PROVE  /\ cpc'[b] \in {"new", "loading"} => worker'[b] = "none"
                      /\ worker'[b] = "none" => inbox'[b] = <<>>
    BY DEF Fresh
  <2>1. CASE b = c
    <3>1. worker'[c] = "ready"
      BY <1>1 DEF TypeOK
    <3>2. cpc'[c] \notin {"new", "loading"}
      BY <1>0
    <3> QED
      BY <2>1, <3>1, <3>2
  <2>2. CASE b # c
    <3>1. inbox'[b] = inbox[b] /\ cpc'[b] = cpc[b]
      BY <1>0, <2>2
    <3>2. worker'[b] = worker[b]
      BY <1>1, <2>2 DEF TypeOK
    <3> QED
      BY <3>1, <3>2 DEF Fresh
  <2> QED
    BY <2>1, <2>2
<1>3. Held'
  BY <1>0, <1>1 DEF Held, TypeOK
<1>4. Owned'
  <2> SUFFICES ASSUME NEW g \in Grains, activations'[g] # None,
                      (ShuttingDown(activations[g]))'
               PROVE  \E d \in Tasks : dpc'[d] = "join" /\ dact'[d] = activations'[g]
    BY DEF Owned
  <2>1. g # target[c]
    BY <1>0, <1>1 DEF ShuttingDown, Dead, TypeOK
  <2>2. activations'[g] = activations[g] /\ activations[g] \in Calls /\ activations[g] # c
    BY <1>1, <2>1 DEF TypeOK, Held
  <2>3. ShuttingDown(activations[g])
    BY <1>0, <1>1, <2>2 DEF ShuttingDown, Dead, TypeOK
  <2> QED
    BY <1>1, <2>2, <2>3 DEF Owned
<1> QED
  BY <1>2, <1>3, <1>4

\* Putting the sentinel, or waiting for a place to put it, keeps the invariant.
LEMMA PutSentinelReap ==
  ASSUME TypeOK, TypeOK', Fresh, Held, Owned, NEW d \in Tasks, NEW a \in Calls,
         worker[a] # "none", dpc[d] # "join",
         PutSentinelOrWait(d, a), dact' = [dact EXCEPT ![d] = a],
         UNCHANGED <<activations, target, cpc, cact, worker>>
  PROVE  (Fresh /\ Held /\ Owned)'
<1>1. \A b \in Calls : b # a => inbox'[b] = inbox[b]
  BY DEF PutSentinelOrWait, TypeOK
<1>2. Fresh'
  BY <1>1 DEF Fresh, TypeOK
<1>3. Held'
  BY DEF Held, PutSentinelOrWait, TypeOK
<1>4. CASE dpc'[d] = "join"
  <2> SUFFICES ASSUME NEW g \in Grains, activations'[g] # None,
                      (ShuttingDown(activations[g]))'
               PROVE  \E e \in Tasks : dpc'[e] = "join" /\ dact'[e] = activations'[g]
    BY <1>2, <1>3 DEF Owned
  <2>1. CASE activations[g] = a
    BY <1>4, <2>1 DEF TypeOK
  <2>2. CASE activations[g] # a
    <3>1. activations[g] \in Calls /\ ShuttingDown(activations[g])
      BY <1>1, <2>2 DEF ShuttingDown, Dead, TypeOK
    <3>2. PICK e \in Tasks : dpc[e] = "join" /\ dact[e] = activations[g]
      BY <3>1 DEF Owned, TypeOK
    <3>3. e # d
      BY <3>2
    <3>4. dact'[e] = dact[e] /\ dpc'[e] = dpc[e]
      BY <3>3 DEF PutSentinelOrWait, TypeOK
    <3> QED
      BY <3>2, <3>4
  <2> QED
    BY <2>1, <2>2
<1>5. CASE dpc'[d] # "join"
  <2>1. inbox' = inbox /\ dpc' = [dpc EXCEPT ![d] = "put"]
    BY <1>5 DEF PutSentinelOrWait, TypeOK
  <2> QED
    BY <1>2, <1>3, <2>1, QuietShutdown, OwnedFrame DEF TypeOK
<1> QED
  BY <1>2, <1>3, <1>4, <1>5

\* Every step keeps the invariant behind DeadWorkerIsReaped.
LEMMA ReapStep == ReapInv /\ [Next]_vars => ReapInv'
<1> SUFFICES ASSUME ReapInv, [Next]_vars PROVE (Fresh /\ Held /\ Owned)'
  BY TypeStep, StagesStep DEF ReapInv
<1> TypeOK /\ TypeOK' /\ Stages /\ Fresh /\ Held /\ Owned
  BY TypeStep DEF ReapInv
<1> USE RuntimeAssumption
<1>1. ASSUME NEW c \in Calls, CallStep(c) PROVE (Fresh /\ Held /\ Owned)'
  <2>1. CASE InvokeHosted(c)
    <3> DEFINE b == activations[target[c]]
    <3>1. b \in Calls /\ Submit(c, b) /\ worker[b] # "none"
      BY <2>1 DEF TypeOK, Held, InvokeHosted
    <3>2. UNCHANGED <<activations, target, worker, dpc, dact>>
      BY <2>1 DEF InvokeHosted, callVars, workVars, taskVars
    <3>3. Fresh'
      BY <2>1, <3>1, <3>2, SubmitFrame DEF Fresh, TypeOK, InvokeHosted
    <3>4. Held'
      BY <2>1, <3>1, <3>2, SubmitFrame DEF Held, TypeOK, InvokeHosted
    <3>5. Owned'
      BY <3>1, <3>2, SubmitShutdown, OwnedFrame
    <3> QED
      BY <3>3, <3>4, <3>5
  <2>2. CASE InvokeActivate(c)
    <3>1. CASE ReadSuspends
      <4>1. /\ cpc' = [cpc EXCEPT ![c] = "loading"]
            /\ cpc[c] = "new"
            /\ UNCHANGED <<activations, target, cact, inbox, worker, dpc, dact>>
        BY <2>2, <3>1 DEF InvokeActivate, callVars, workVars, taskVars
      <4>2. Fresh' /\ Held'
        BY <4>1 DEF TypeOK, Fresh, Held
      <4> QED
        BY <4>1, <4>2, QuietShutdown, OwnedFrame
    <3>2. CASE ~ReadSuspends
      <4>1. worker[c] = "none" /\ Publish(c) /\ UNCHANGED taskVars
        BY <2>2, <3>2 DEF InvokeActivate, Fresh
      <4> QED
        BY <4>1, PublishReap
    <3> QED
      BY <3>1, <3>2
  <2>3. CASE FinishLoad(c)
    <3>1. worker[c] = "none" /\ Publish(c) /\ UNCHANGED taskVars
      BY <2>3 DEF FinishLoad, Fresh
    <3> QED
      BY <3>1, PublishReap
  <2>4. CASE ActivationFails(c)
    <3>1. Fresh' /\ Held'
      BY <2>4 DEF TypeOK, Fresh, Held, ActivationFails, callVars, workVars, taskVars
    <3>2. inbox' = inbox /\ worker' = worker
      BY <2>4 DEF ActivationFails, callVars, workVars, taskVars
    <3>3. /\ \A g \in Grains : activations'[g] \in {activations[g], None}
          /\ \A e \in Tasks : dpc[e] = "join" => dpc'[e] = "join" /\ dact'[e] = dact[e]
      BY <2>4 DEF TypeOK, ActivationFails, callVars, workVars, taskVars
    <3> QED
      BY <3>1, <3>2, <3>3, QuietShutdown, OwnedFrame
  <2>5. CASE HookReturns(c)
    <3>1. CASE fut[<<c, "hook">>] = "error"
      <4>1. /\ cpc' = [cpc EXCEPT ![c] = "failed"]
            /\ UNCHANGED <<activations, target, cact, inbox, worker, dpc, dact>>
        BY <2>5, <3>1 DEF HookReturns, callVars, workVars, taskVars
      <4>2. Fresh' /\ Held'
        BY <4>1 DEF TypeOK, Fresh, Held
      <4> QED
        BY <4>1, <4>2, QuietShutdown, OwnedFrame
    <3>2. CASE fut[<<c, "hook">>] # "error"
      <4> DEFINE b == cact[c]
      <4>1. b \in Calls /\ Submit(c, b) /\ worker[b] # "none"
        BY <2>5, <3>2 DEF TypeOK, Held, HookReturns
      <4>2. UNCHANGED <<activations, target, cact, worker, dpc, dact>>
        BY <2>5 DEF HookReturns, callVars, workVars, taskVars
      <4>3. Fresh'
        <5>1. \A x \in Calls : worker[x] = "none" => inbox'[x] = inbox[x]
          BY <4>1, SubmitFrame
        <5>2. cpc'[c] \notin {"new", "loading"} /\ \A x \in Calls : x # c => cpc'[x] = cpc[x]
          BY <4>1, SubmitFrame
        <5> QED
          BY <4>2, <5>1, <5>2 DEF Fresh
      <4>4. Held'
        BY <4>1, <4>2, SubmitFrame DEF Held, TypeOK
      <4>5. Owned'
        BY <4>1, <4>2, SubmitShutdown, OwnedFrame
      <4> QED
        BY <4>3, <4>4, <4>5
    <3> QED
      BY <3>1, <3>2
  <2>6. CASE PutCall(c)
    <3> DEFINE b == cact[c]
    <3>1. /\ b \in Calls /\ worker[b] # "none" /\ ~Full(b)
          /\ inbox' = [inbox EXCEPT ![b] = Append(@, <<c, "call">>)]
          /\ cpc' = [cpc EXCEPT ![c] = "waiting"]
          /\ cpc[c] = "putting"
          /\ UNCHANGED <<activations, target, cact, worker, dpc, dact>>
      BY <2>6 DEF PutCall, Held, callVars, workVars, taskVars
    <3>2. Fresh'
      BY <3>1 DEF Fresh, TypeOK
    <3>3. Held'
      BY <3>1 DEF Held, TypeOK
    <3>4. \A x \in Calls : ShuttingDown(x)' => ShuttingDown(x)
      <4>1. <<c, "call">> # Sentinel
        BY ItemFacts
      <4> QED
        BY <3>1, <4>1 DEF ShuttingDown, Dead, TypeOK
    <3> QED
      BY <3>1, <3>2, <3>3, <3>4, OwnedFrame
  <2>7. CASE Receive(c)
    <3>1. Fresh' /\ Held'
      BY <2>7 DEF TypeOK, Fresh, Held, Receive, callVars, workVars, taskVars
    <3>2. inbox' = inbox /\ worker' = worker
      BY <2>7 DEF Receive, callVars, workVars, taskVars
    <3>3. /\ \A g \in Grains : activations'[g] \in {activations[g], None}
          /\ \A e \in Tasks : dpc[e] = "join" => dpc'[e] = "join" /\ dact'[e] = dact[e]
      BY <2>7 DEF TypeOK, Receive, callVars, workVars, taskVars
    <3> QED
      BY <3>1, <3>2, <3>3, QuietShutdown, OwnedFrame
  <2>8. CASE CancelCaller(c)
    <3>1. Fresh' /\ Held'
      BY <2>8 DEF TypeOK, Fresh, Held, CancelCaller, callVars, workVars, taskVars
    <3>2. inbox' = inbox /\ worker' = worker
      BY <2>8 DEF CancelCaller, callVars, workVars, taskVars
    <3>3. /\ \A g \in Grains : activations'[g] \in {activations[g], None}
          /\ \A e \in Tasks : dpc[e] = "join" => dpc'[e] = "join" /\ dact'[e] = dact[e]
      BY <2>8 DEF TypeOK, CancelCaller, callVars, workVars, taskVars
    <3> QED
      BY <3>1, <3>2, <3>3, QuietShutdown, OwnedFrame
  <2> QED
    BY <1>1, <2>1, <2>2, <2>3, <2>4, <2>5, <2>6, <2>7, <2>8 DEF CallStep
<1>2. ASSUME NEW a \in Calls, WorkerStep(a) PROVE (Fresh /\ Held /\ Owned)'
  <2>1. CASE TakeTurn(a)
    <3>1. /\ worker[a] = "ready" /\ worker' = [worker EXCEPT ![a] = "busy"]
          /\ inbox[a] # <<>> /\ inbox' = [inbox EXCEPT ![a] = Tail(@)]
          /\ UNCHANGED <<activations, target, cpc, cact, dpc, dact>>
      BY <2>1 DEF TakeTurn, callVars, workVars, taskVars
    <3>2. Fresh' /\ Held'
      BY <3>1 DEF Fresh, Held, TypeOK
    <3>3. \A b \in Calls : ShuttingDown(b)' => ShuttingDown(b)
      <4> SUFFICES ASSUME NEW b \in Calls, ShuttingDown(b)' PROVE ShuttingDown(b)
        OBVIOUS
      <4>1. CASE b = a
        BY <3>1, <4>1, TailEntries DEF ShuttingDown, Dead, TypeOK
      <4>2. CASE b # a
        BY <3>1, <4>2 DEF ShuttingDown, Dead, TypeOK
      <4> QED
        BY <4>1, <4>2
    <3> QED
      BY <3>1, <3>2, <3>3, OwnedFrame
  <2>2. CASE TakeSentinel(a)
    <3>1. /\ worker[a] = "ready" /\ worker' = [worker EXCEPT ![a] = "exited"]
          /\ inbox[a] # <<>> /\ inbox' = [inbox EXCEPT ![a] = Tail(@)]
          /\ Head(inbox[a]) = Sentinel
          /\ UNCHANGED <<activations, target, cpc, cact, dpc, dact>>
      BY <2>2 DEF TakeSentinel, callVars, workVars, taskVars
    <3>2. Fresh' /\ Held'
      BY <3>1 DEF Fresh, Held, TypeOK
    <3>3. \A b \in Calls : ShuttingDown(b)' => ShuttingDown(b)
      <4> SUFFICES ASSUME NEW b \in Calls, ShuttingDown(b)' PROVE ShuttingDown(b)
        OBVIOUS
      <4>1. CASE b = a
        <5>1. 1 \in 1..Len(inbox[a]) /\ inbox[a][1] = Sentinel
          BY <3>1, TailEntries DEF TypeOK
        <5> QED
          BY <4>1, <5>1 DEF ShuttingDown
      <4>2. CASE b # a
        BY <3>1, <4>2 DEF ShuttingDown, Dead, TypeOK
      <4> QED
        BY <4>1, <4>2
    <3> QED
      BY <3>1, <3>2, <3>3, OwnedFrame
  <2>3. CASE FinishTurn(a)
    <3>1. /\ worker[a] = "busy" /\ worker' = [worker EXCEPT ![a] = "ready"]
          /\ UNCHANGED <<activations, target, cpc, cact, inbox, dpc, dact>>
      BY <2>3 DEF FinishTurn, callVars, workVars, taskVars
    <3>2. Fresh' /\ Held'
      BY <3>1 DEF Fresh, Held, TypeOK
    <3>3. \A b \in Calls : ShuttingDown(b)' => ShuttingDown(b)
      BY <3>1 DEF ShuttingDown, Dead, TypeOK
    <3> QED
      BY <3>1, <3>2, <3>3, OwnedFrame
  <2>4. CASE GrowIdle(a)
    <3>1. Fresh' /\ Held'
      BY <2>4 DEF TypeOK, Fresh, Held, GrowIdle, callVars, workVars, taskVars
    <3>2. inbox' = inbox /\ worker' = worker
      BY <2>4 DEF GrowIdle, callVars, workVars, taskVars
    <3>3. /\ \A g \in Grains : activations'[g] \in {activations[g], None}
          /\ \A e \in Tasks : dpc[e] = "join" => dpc'[e] = "join" /\ dact'[e] = dact[e]
      BY <2>4 DEF TypeOK, GrowIdle, callVars, workVars, taskVars
    <3> QED
      BY <3>1, <3>2, <3>3, QuietShutdown, OwnedFrame
  <2> QED
    BY <1>2, <2>1, <2>2, <2>3, <2>4 DEF WorkerStep
<1>3. ASSUME NEW d \in Tasks, TaskStep(d) PROVE (Fresh /\ Held /\ Owned)'
  <2>1. CASE DeactivateAbsent(d)
    <3>1. Fresh' /\ Held'
      BY <2>1 DEF TypeOK, Fresh, Held, DeactivateAbsent, callVars, workVars, taskVars
    <3>2. inbox' = inbox /\ worker' = worker
      BY <2>1 DEF DeactivateAbsent, callVars, workVars, taskVars
    <3>3. /\ \A g \in Grains : activations'[g] \in {activations[g], None}
          /\ \A e \in Tasks : dpc[e] = "join" => dpc'[e] = "join" /\ dact'[e] = dact[e]
      BY <2>1 DEF TypeOK, DeactivateAbsent, callVars, workVars, taskVars
    <3> QED
      BY <3>1, <3>2, <3>3, QuietShutdown, OwnedFrame
  <2>2. CASE DeactivateBegin(d)
    <3>1. PICK g \in todo[d] :
            /\ activations[g] # None
            /\ dact' = [dact EXCEPT ![d] = activations[g]]
            /\ IF g \in Hooked
               THEN dpc' = [dpc EXCEPT ![d] = "hook"] /\ UNCHANGED inbox
               ELSE PutSentinelOrWait(d, activations[g])
      BY <2>2 DEF DeactivateBegin
    <3>2. /\ dpc[d] = "next"
          /\ UNCHANGED <<activations, target, cpc, cact, worker>>
      BY <2>2 DEF DeactivateBegin, callVars, workVars, taskVars
    <3>3. activations[g] \in Calls /\ worker[activations[g]] # "none"
      BY <3>1 DEF TypeOK, Held
    <3>4. CASE g \in Hooked
      <4>1. dpc' = [dpc EXCEPT ![d] = "hook"] /\ UNCHANGED inbox
        BY <3>1, <3>4
      <4>2. Fresh' /\ Held'
        BY <3>1, <3>2, <3>3, <4>1 DEF TypeOK, Fresh, Held
      <4>3. \A e \in Tasks : dpc[e] = "join" => dpc'[e] = "join" /\ dact'[e] = dact[e]
        BY <3>1, <3>2, <4>1 DEF TypeOK
      <4> QED
        BY <3>2, <4>1, <4>2, <4>3, QuietShutdown, OwnedFrame
    <3>5. CASE g \notin Hooked
      BY <3>1, <3>2, <3>3, <3>5, PutSentinelReap
    <3> QED
      BY <3>4, <3>5
  <2>3. CASE DeactivateHookDone(d)
    <3>1. /\ dact[d] \in Calls /\ worker[dact[d]] # "none" /\ dpc[d] # "join"
          /\ PutSentinelOrWait(d, dact[d])
          /\ UNCHANGED <<activations, target, cpc, cact, worker, dact>>
      BY <2>3 DEF DeactivateHookDone, Held, callVars, workVars, taskVars
    <3>2. dact' = [dact EXCEPT ![d] = dact[d]]
      BY <3>1 DEF TypeOK
    <3> QED
      BY <3>1, <3>2, PutSentinelReap
  <2>4. CASE PutSentinel(d)
    <3>1. /\ dact[d] \in Calls /\ worker[dact[d]] # "none" /\ dpc[d] # "join"
          /\ PutSentinelOrWait(d, dact[d])
          /\ UNCHANGED <<activations, target, cpc, cact, worker, dact>>
      BY <2>4 DEF PutSentinel, Held, callVars, workVars, taskVars
    <3>2. dact' = [dact EXCEPT ![d] = dact[d]]
      BY <3>1 DEF TypeOK
    <3> QED
      BY <3>1, <3>2, PutSentinelReap
  <2>5. CASE JoinTimeout(d)
    <3>1. /\ dpc[d] = "join" /\ worker' = [worker EXCEPT ![dact[d]] = "cancelled"]
          /\ UNCHANGED <<activations, target, cpc, cact, inbox, dpc, dact>>
      BY <2>5 DEF JoinTimeout, callVars, workVars, taskVars
    <3>2. Fresh' /\ Held'
      BY <3>1 DEF Fresh, Held, TypeOK
    <3>3. Owned'
      <4> SUFFICES ASSUME NEW g \in Grains, activations'[g] # None,
                          (ShuttingDown(activations[g]))'
                   PROVE  \E e \in Tasks : dpc'[e] = "join" /\ dact'[e] = activations'[g]
        BY DEF Owned
      <4>1. CASE activations[g] = dact[d]
        BY <3>1, <4>1 DEF Tasks
      <4>2. CASE activations[g] # dact[d]
        BY <3>1, <4>2 DEF Owned, ShuttingDown, Dead, TypeOK
      <4> QED
        BY <4>1, <4>2
    <3> QED
      BY <3>2, <3>3
  <2>6. CASE JoinDone(d)
    <3> DEFINE b == dact[d]
    <3>1. /\ dpc[d] = "join" /\ b \in Calls
          /\ activations' = [activations EXCEPT ![target[b]] = None]
          /\ dpc' = [dpc EXCEPT ![d] = "next"]
          /\ dact' = [dact EXCEPT ![d] = None]
          /\ UNCHANGED <<target, cpc, cact, inbox, worker>>
      BY <2>6 DEF JoinDone, Held, callVars, workVars, taskVars
    <3>2. Fresh' /\ Held'
      BY <3>1 DEF Fresh, Held, TypeOK
    <3>3. Owned'
      <4> SUFFICES ASSUME NEW g \in Grains, activations'[g] # None,
                          (ShuttingDown(activations[g]))'
                   PROVE  \E e \in Tasks : dpc'[e] = "join" /\ dact'[e] = activations'[g]
        BY DEF Owned
      <4>1. g # target[b] /\ activations'[g] = activations[g] /\ activations[g] \in Calls
        BY <3>1 DEF TypeOK
      <4>2. activations[g] # b
        BY <4>1 DEF Held
      <4>3. ShuttingDown(activations[g])
        BY <3>1, <4>1 DEF ShuttingDown, Dead
      <4>4. PICK e \in Tasks : dpc[e] = "join" /\ dact[e] = activations[g]
        BY <4>1, <4>3 DEF Owned
      <4> QED
        BY <3>1, <4>1, <4>2, <4>4 DEF TypeOK
    <3> QED
      BY <3>2, <3>3
  <2>7. CASE Schedule(d)
    <3>1. Fresh' /\ Held'
      BY <2>7 DEF TypeOK, Fresh, Held, Schedule, callVars, workVars, taskVars
    <3>2. inbox' = inbox /\ worker' = worker
      BY <2>7 DEF Schedule, callVars, workVars, taskVars
    <3>3. /\ \A g \in Grains : activations'[g] \in {activations[g], None}
          /\ \A e \in Tasks : dpc[e] = "join" => dpc'[e] = "join" /\ dact'[e] = dact[e]
      BY <2>7 DEF TypeOK, Schedule, callVars, workVars, taskVars
    <3> QED
      BY <3>1, <3>2, <3>3, QuietShutdown, OwnedFrame
  <2>8. CASE ScheduledDone(d)
    <3>1. Fresh' /\ Held'
      BY <2>8 DEF TypeOK, Fresh, Held, ScheduledDone, callVars, workVars, taskVars
    <3>2. inbox' = inbox /\ worker' = worker
      BY <2>8 DEF ScheduledDone, callVars, workVars, taskVars
    <3>3. /\ \A g \in Grains : activations'[g] \in {activations[g], None}
          /\ \A e \in Tasks : dpc[e] = "join" => dpc'[e] = "join" /\ dact'[e] = dact[e]
      BY <2>8 DEF TypeOK, ScheduledDone, callVars, workVars, taskVars
    <3> QED
      BY <3>1, <3>2, <3>3, QuietShutdown, OwnedFrame
  <2> QED
    BY <1>3, <2>1, <2>2, <2>3, <2>4, <2>5, <2>6, <2>7, <2>8 DEF TaskStep
<1>4. ASSUME RuntimeStep PROVE (Fresh /\ Held /\ Owned)'
  <2>1. CASE Start
    <3>1. Fresh' /\ Held'
      BY <2>1 DEF TypeOK, Fresh, Held, Start, Tasks, callVars, workVars, taskVars
    <3>2. inbox' = inbox /\ worker' = worker
      BY <2>1 DEF Start, callVars, workVars, taskVars
    <3>3. /\ \A g \in Grains : activations'[g] \in {activations[g], None}
          /\ \A e \in Tasks : dpc[e] = "join" => dpc'[e] = "join" /\ dact'[e] = dact[e]
      BY <2>1 DEF TypeOK, Stages, Start, Tasks, callVars, workVars, taskVars
    <3> QED
      BY <3>1, <3>2, <3>3, QuietShutdown, OwnedFrame
  <2>2. CASE CollectorPass
    <3>1. Fresh' /\ Held'
      BY <2>2 DEF TypeOK, Fresh, Held, CollectorPass, Tasks, callVars, workVars, taskVars
    <3>2. inbox' = inbox /\ worker' = worker
      BY <2>2 DEF CollectorPass, callVars, workVars, taskVars
    <3>3. /\ \A g \in Grains : activations'[g] \in {activations[g], None}
          /\ \A e \in Tasks : dpc[e] = "join" => dpc'[e] = "join" /\ dact'[e] = dact[e]
      BY <2>2 DEF TypeOK, Stages, CollectorPass, Tasks, callVars, workVars, taskVars
    <3> QED
      BY <3>1, <3>2, <3>3, QuietShutdown, OwnedFrame
  <2>3. CASE CollectorRests
    <3>1. Fresh' /\ Held'
      BY <2>3 DEF TypeOK, Fresh, Held, CollectorRests, Tasks, callVars, workVars, taskVars
    <3>2. inbox' = inbox /\ worker' = worker
      BY <2>3 DEF CollectorRests, callVars, workVars, taskVars
    <3>3. /\ \A g \in Grains : activations'[g] \in {activations[g], None}
          /\ \A e \in Tasks : dpc[e] = "join" => dpc'[e] = "join" /\ dact'[e] = dact[e]
      BY <2>3 DEF TypeOK, Stages, CollectorRests, Tasks, callVars, workVars, taskVars
    <3> QED
      BY <3>1, <3>2, <3>3, QuietShutdown, OwnedFrame
  <2>4. CASE StopBegin
    <3>1. UNCHANGED <<activations, target, cpc, cact, inbox>> /\ Collector \in Tasks
      BY <2>4 DEF StopBegin, Tasks, callVars, workVars, taskVars
    <3>2. CASE worker' = worker
      <4>1. \/ UNCHANGED <<dpc, dact>>
            \/ /\ dpc[Collector] # "join"
               /\ dpc' = [dpc EXCEPT ![Collector] = "ended"]
               /\ dact' = [dact EXCEPT ![Collector] = None]
        BY <2>4 DEF StopBegin, taskVars
      <4>2. Fresh' /\ Held'
        BY <3>1, <3>2, <4>1 DEF Fresh, Held, TypeOK
      <4>3. \A e \in Tasks : dpc[e] = "join" => dpc'[e] = "join" /\ dact'[e] = dact[e]
        BY <3>1, <4>1 DEF TypeOK
      <4> QED
        BY <3>1, <3>2, <4>2, <4>3, QuietShutdown, OwnedFrame
    <3>3. CASE worker' # worker
      <4>1. /\ dpc[Collector] = "join" /\ UNCHANGED <<dpc, dact>>
            /\ worker' = [worker EXCEPT ![dact[Collector]] = "cancelled"]
        BY <2>4, <3>3 DEF StopBegin, taskVars
      <4>2. Fresh' /\ Held'
        BY <3>1, <4>1 DEF Fresh, Held, TypeOK
      <4>3. Owned'
        <5> SUFFICES ASSUME NEW g \in Grains, activations'[g] # None,
                            (ShuttingDown(activations[g]))'
                     PROVE  \E e \in Tasks : dpc'[e] = "join" /\ dact'[e] = activations'[g]
          BY DEF Owned
        <5>1. CASE activations[g] = dact[Collector]
          BY <3>1, <4>1, <5>1
        <5>2. CASE activations[g] # dact[Collector]
          BY <3>1, <4>1, <5>2 DEF Owned, ShuttingDown, Dead, TypeOK
        <5> QED
          BY <5>1, <5>2
      <4> QED
        BY <4>2, <4>3
    <3> QED
      BY <3>2, <3>3
  <2>5. CASE StopList
    <3>1. Fresh' /\ Held'
      BY <2>5 DEF TypeOK, Fresh, Held, StopList, Tasks, callVars, workVars, taskVars
    <3>2. inbox' = inbox /\ worker' = worker
      BY <2>5 DEF StopList, callVars, workVars, taskVars
    <3>3. /\ \A g \in Grains : activations'[g] \in {activations[g], None}
          /\ \A e \in Tasks : dpc[e] = "join" => dpc'[e] = "join" /\ dact'[e] = dact[e]
      BY <2>5 DEF TypeOK, Stages, StopList, Tasks, callVars, workVars, taskVars
    <3> QED
      BY <3>1, <3>2, <3>3, QuietShutdown, OwnedFrame
  <2>6. CASE StopDone
    <3>1. Fresh' /\ Held'
      BY <2>6 DEF TypeOK, Fresh, Held, StopDone, Tasks, callVars, workVars, taskVars
    <3>2. inbox' = inbox /\ worker' = worker
      BY <2>6 DEF StopDone, callVars, workVars, taskVars
    <3>3. /\ \A g \in Grains : activations'[g] \in {activations[g], None}
          /\ \A e \in Tasks : dpc[e] = "join" => dpc'[e] = "join" /\ dact'[e] = dact[e]
      BY <2>6 DEF TypeOK, Stages, StopDone, Tasks, callVars, workVars, taskVars
    <3> QED
      BY <3>1, <3>2, <3>3, QuietShutdown, OwnedFrame
  <2> QED
    BY <1>4, <2>1, <2>2, <2>3, <2>4, <2>5, <2>6 DEF RuntimeStep
<1>5. CASE UNCHANGED vars
  BY <1>5 DEF Fresh, Held, Owned, ShuttingDown, Dead, vars, callVars, workVars, taskVars
<1> QED
  BY <1>1, <1>2, <1>3, <1>4, <1>5 DEF Next

\* The initial states satisfy the invariant behind DeadWorkerIsReaped.
LEMMA ReapInit == Init => ReapInv
<1>1. Init => TypeOK
  BY RuntimeAssumption DEF Init, TypeOK, Items, Tasks
<1> QED
  BY <1>1, RuntimeAssumption DEF Init, ReapInv, Stages, Fresh, Held, Owned, Tasks

\* deactivate_grain never leaves an activation in the map whose worker has
\* ended, unless a task is about to remove it.
THEOREM DeadWorkerReaped == Spec => []DeadWorkerIsReaped
<1>1. ReapInv => DeadWorkerIsReaped
  BY DEF ReapInv, Owned, ShuttingDown, DeadWorkerIsReaped
<1> QED
  BY <1>1, ReapInit, ReapStep, PTL DEF Spec

-----------------------------------------------------------------------------
(* Single activation, where storage does not suspend and the only tasks    *)
(* that deactivate are the collector and stop().                           *)

\* No caller is suspended in storage.read; the collector has ended before
\* stop()'s own task begins; whoever deactivates holds the published
\* activation; a published grain is registered.
Sole ==
  /\ \A c \in Calls : cpc[c] # "loading"
  /\ dpc[Stopper] # "off" => dpc[Collector] = "ended"
  /\ \A d \in Tasks : dpc[d] \in {"hook", "put", "join"} =>
       activations[target[dact[d]]] = dact[d]

SoleInv == ReapInv /\ Sole /\ NoOrphan /\ HostedIsRegistered

\* Publishing an activation where none is published keeps it the only one.
LEMMA PublishSole ==
  ASSUME SoleInv, TypeOK', NEW c \in Calls, activations[target[c]] = None, Publish(c),
         registered' = registered \union {target[c]}, UNCHANGED taskVars,
         worker[c] = "none"
  PROVE  (Sole /\ NoOrphan /\ HostedIsRegistered)'
<1> TypeOK /\ Fresh /\ Held /\ Sole /\ NoOrphan /\ HostedIsRegistered /\ None \notin Calls
  BY RuntimeAssumption DEF SoleInv, ReapInv
<1>1. /\ worker' = [worker EXCEPT ![c] = "ready"]
      /\ activations' = [activations EXCEPT ![target[c]] = c]
      /\ UNCHANGED <<target, dpc, dact>>
  BY DEF Publish, taskVars
<1>2. Sole'
  <2>1. \A b \in Calls : cpc'[b] # "loading"
    BY PublishFrame DEF Sole
  <2>2. \A d \in Tasks : dpc[d] \in {"hook", "put", "join"} =>
          dact[d] \in Calls /\ target[dact[d]] # target[c]
    BY DEF Sole, Held
  <2>3. \A d \in Tasks : dpc'[d] \in {"hook", "put", "join"} =>
          activations'[target'[dact'[d]]] = dact'[d]
    BY <1>1, <2>2 DEF Sole, TypeOK
  <2> QED
    BY <1>1, <2>1, <2>3 DEF Sole
<1>3. NoOrphan'
  BY <1>1 DEF NoOrphan, Alive, TypeOK
<1>4. HostedIsRegistered'
  BY <1>1 DEF HostedIsRegistered, TypeOK
<1> QED
  BY <1>2, <1>3, <1>4

\* Every step keeps the invariant behind SingleActivation.
LEMMA SoleStep ==
  ASSUME ~ReadSuspends, Scheduled = {}
  PROVE  SoleInv /\ [Next]_vars => SoleInv'
<1> SUFFICES ASSUME SoleInv, [Next]_vars PROVE (Sole /\ NoOrphan /\ HostedIsRegistered)'
  BY ReapStep DEF SoleInv
<1> TypeOK /\ TypeOK' /\ Stages /\ Fresh /\ Held /\ Sole /\ NoOrphan /\ HostedIsRegistered
  BY ReapStep DEF SoleInv, ReapInv
<1> USE RuntimeAssumption
<1>1. ASSUME NEW c \in Calls, CallStep(c) PROVE (Sole /\ NoOrphan /\ HostedIsRegistered)'
  <2>1. CASE InvokeHosted(c)
    <3>1. Sole'
      BY <2>1
        DEF TypeOK, Held, Stages, Sole, InvokeHosted, Submit, Tasks, callVars, workVars, taskVars
    <3>2. NoOrphan'
      BY <2>1 DEF TypeOK, Held, NoOrphan, Alive, InvokeHosted, callVars, workVars, taskVars
    <3>3. HostedIsRegistered'
      BY <2>1 DEF TypeOK, HostedIsRegistered, InvokeHosted, callVars, workVars, taskVars
    <3> QED
      BY <3>1, <3>2, <3>3
  <2>2. CASE InvokeActivate(c)
    <3>1. /\ activations[target[c]] = None /\ Publish(c) /\ UNCHANGED taskVars
          /\ registered' = registered \union {target[c]} /\ worker[c] = "none"
      BY <2>2 DEF InvokeActivate, Fresh
    <3> QED
      BY <3>1, PublishSole
  <2>3. CASE FinishLoad(c)
    BY <2>3 DEF FinishLoad, Sole
  <2>4. CASE ActivationFails(c)
    <3>1. Sole'
      BY <2>4 DEF TypeOK, Held, Stages, Sole, ActivationFails, Tasks, callVars, workVars, taskVars
    <3>2. NoOrphan'
      BY <2>4 DEF TypeOK, Held, NoOrphan, Alive, ActivationFails, callVars, workVars, taskVars
    <3>3. HostedIsRegistered'
      BY <2>4 DEF TypeOK, HostedIsRegistered, ActivationFails, callVars, workVars, taskVars
    <3> QED
      BY <3>1, <3>2, <3>3
  <2>5. CASE HookReturns(c)
    <3>1. Sole'
      BY <2>5
        DEF TypeOK, Held, Stages, Sole, HookReturns, Submit, Tasks, callVars, workVars, taskVars
    <3>2. NoOrphan'
      BY <2>5 DEF TypeOK, Held, NoOrphan, Alive, HookReturns, callVars, workVars, taskVars
    <3>3. HostedIsRegistered'
      BY <2>5 DEF TypeOK, HostedIsRegistered, HookReturns, callVars, workVars, taskVars
    <3> QED
      BY <3>1, <3>2, <3>3
  <2>6. CASE PutCall(c)
    <3>1. Sole'
      BY <2>6 DEF TypeOK, Held, Stages, Sole, PutCall, Tasks, callVars, workVars, taskVars
    <3>2. NoOrphan'
      BY <2>6 DEF TypeOK, Held, NoOrphan, Alive, PutCall, callVars, workVars, taskVars
    <3>3. HostedIsRegistered'
      BY <2>6 DEF TypeOK, HostedIsRegistered, PutCall, callVars, workVars, taskVars
    <3> QED
      BY <3>1, <3>2, <3>3
  <2>7. CASE Receive(c)
    <3>1. Sole'
      BY <2>7 DEF TypeOK, Held, Stages, Sole, Receive, Tasks, callVars, workVars, taskVars
    <3>2. NoOrphan'
      BY <2>7 DEF TypeOK, Held, NoOrphan, Alive, Receive, callVars, workVars, taskVars
    <3>3. HostedIsRegistered'
      BY <2>7 DEF TypeOK, HostedIsRegistered, Receive, callVars, workVars, taskVars
    <3> QED
      BY <3>1, <3>2, <3>3
  <2>8. CASE CancelCaller(c)
    <3>1. Sole'
      BY <2>8 DEF TypeOK, Held, Stages, Sole, CancelCaller, Tasks, callVars, workVars, taskVars
    <3>2. NoOrphan'
      BY <2>8 DEF TypeOK, Held, NoOrphan, Alive, CancelCaller, callVars, workVars, taskVars
    <3>3. HostedIsRegistered'
      BY <2>8 DEF TypeOK, HostedIsRegistered, CancelCaller, callVars, workVars, taskVars
    <3> QED
      BY <3>1, <3>2, <3>3
  <2> QED
    BY <1>1, <2>1, <2>2, <2>3, <2>4, <2>5, <2>6, <2>7, <2>8 DEF CallStep
<1>2. ASSUME NEW a \in Calls, WorkerStep(a) PROVE (Sole /\ NoOrphan /\ HostedIsRegistered)'
  <2>1. CASE TakeTurn(a)
    <3>1. Sole'
      BY <2>1 DEF TypeOK, Held, Stages, Sole, TakeTurn, Tasks, callVars, workVars, taskVars
    <3>2. NoOrphan'
      BY <2>1 DEF TypeOK, Held, NoOrphan, Alive, TakeTurn, callVars, workVars, taskVars
    <3>3. HostedIsRegistered'
      BY <2>1 DEF TypeOK, HostedIsRegistered, TakeTurn, callVars, workVars, taskVars
    <3> QED
      BY <3>1, <3>2, <3>3
  <2>2. CASE TakeSentinel(a)
    <3>1. Sole'
      BY <2>2 DEF TypeOK, Held, Stages, Sole, TakeSentinel, Tasks, callVars, workVars, taskVars
    <3>2. NoOrphan'
      BY <2>2 DEF TypeOK, Held, NoOrphan, Alive, TakeSentinel, callVars, workVars, taskVars
    <3>3. HostedIsRegistered'
      BY <2>2 DEF TypeOK, HostedIsRegistered, TakeSentinel, callVars, workVars, taskVars
    <3> QED
      BY <3>1, <3>2, <3>3
  <2>3. CASE FinishTurn(a)
    <3>1. Sole'
      BY <2>3 DEF TypeOK, Held, Stages, Sole, FinishTurn, Tasks, callVars, workVars, taskVars
    <3>2. NoOrphan'
      BY <2>3 DEF TypeOK, Held, NoOrphan, Alive, FinishTurn, callVars, workVars, taskVars
    <3>3. HostedIsRegistered'
      BY <2>3 DEF TypeOK, HostedIsRegistered, FinishTurn, callVars, workVars, taskVars
    <3> QED
      BY <3>1, <3>2, <3>3
  <2>4. CASE GrowIdle(a)
    <3>1. Sole'
      BY <2>4 DEF TypeOK, Held, Stages, Sole, GrowIdle, Tasks, callVars, workVars, taskVars
    <3>2. NoOrphan'
      BY <2>4 DEF TypeOK, Held, NoOrphan, Alive, GrowIdle, callVars, workVars, taskVars
    <3>3. HostedIsRegistered'
      BY <2>4 DEF TypeOK, HostedIsRegistered, GrowIdle, callVars, workVars, taskVars
    <3> QED
      BY <3>1, <3>2, <3>3
  <2> QED
    BY <1>2, <2>1, <2>2, <2>3, <2>4 DEF WorkerStep
<1>3. ASSUME NEW d \in Tasks, TaskStep(d) PROVE (Sole /\ NoOrphan /\ HostedIsRegistered)'
  <2>1. CASE DeactivateAbsent(d)
    <3>1. Sole'
      BY <2>1 DEF TypeOK, Held, Stages, Sole, DeactivateAbsent, Tasks, callVars, workVars, taskVars
    <3>2. NoOrphan'
      BY <2>1 DEF TypeOK, Held, NoOrphan, Alive, DeactivateAbsent, callVars, workVars, taskVars
    <3>3. HostedIsRegistered'
      BY <2>1 DEF TypeOK, HostedIsRegistered, DeactivateAbsent, callVars, workVars, taskVars
    <3> QED
      BY <3>1, <3>2, <3>3
  <2>2. CASE DeactivateBegin(d)
    <3>1. PICK g \in todo[d] :
            /\ activations[g] # None
            /\ dact' = [dact EXCEPT ![d] = activations[g]]
            /\ IF g \in Hooked
               THEN dpc' = [dpc EXCEPT ![d] = "hook"] /\ UNCHANGED inbox
               ELSE PutSentinelOrWait(d, activations[g])
      BY <2>2 DEF DeactivateBegin
    <3>2. /\ dpc[d] = "next"
          /\ UNCHANGED <<activations, registered, target, cpc, worker>>
      BY <2>2 DEF DeactivateBegin, callVars, workVars, taskVars
    <3>3. /\ dpc'[d] \in {"hook", "put", "join"}
          /\ \A e \in Tasks : e # d => dpc'[e] = dpc[e] /\ dact'[e] = dact[e]
      BY <3>1 DEF PutSentinelOrWait, TypeOK
    <3>4. dact'[d] = activations[g] /\ target[activations[g]] = g /\ g \in Grains
      BY <3>1 DEF Held, TypeOK
    <3>5. Sole'
      <4>1. \A e \in Tasks : dpc'[e] \in {"hook", "put", "join"} =>
              activations'[target'[dact'[e]]] = dact'[e]
        BY <3>2, <3>3, <3>4 DEF Sole
      <4>2. dpc'[Stopper] # "off" => dpc'[Collector] = "ended"
        BY <3>2, <3>3 DEF Sole, Tasks
      <4> QED
        BY <3>2, <4>1, <4>2 DEF Sole
    <3> QED
      BY <3>2, <3>5 DEF NoOrphan, HostedIsRegistered, Alive
  <2>3. CASE DeactivateHookDone(d)
    <3>1. Sole'
      BY <2>3
        DEF TypeOK, Held, Stages, Sole, DeactivateHookDone, PutSentinelOrWait, Tasks, callVars, workVars, taskVars
    <3>2. NoOrphan'
      BY <2>3 DEF TypeOK, Held, NoOrphan, Alive, DeactivateHookDone, callVars, workVars, taskVars
    <3>3. HostedIsRegistered'
      BY <2>3 DEF TypeOK, HostedIsRegistered, DeactivateHookDone, callVars, workVars, taskVars
    <3> QED
      BY <3>1, <3>2, <3>3
  <2>4. CASE PutSentinel(d)
    <3>1. Sole'
      BY <2>4
        DEF TypeOK, Held, Stages, Sole, PutSentinel, PutSentinelOrWait, Tasks, callVars, workVars, taskVars
    <3>2. NoOrphan'
      BY <2>4 DEF TypeOK, Held, NoOrphan, Alive, PutSentinel, callVars, workVars, taskVars
    <3>3. HostedIsRegistered'
      BY <2>4 DEF TypeOK, HostedIsRegistered, PutSentinel, callVars, workVars, taskVars
    <3> QED
      BY <3>1, <3>2, <3>3
  <2>5. CASE JoinTimeout(d)
    <3>1. Sole'
      BY <2>5 DEF TypeOK, Held, Stages, Sole, JoinTimeout, Tasks, callVars, workVars, taskVars
    <3>2. NoOrphan'
      BY <2>5 DEF TypeOK, Held, NoOrphan, Alive, JoinTimeout, callVars, workVars, taskVars
    <3>3. HostedIsRegistered'
      BY <2>5 DEF TypeOK, HostedIsRegistered, JoinTimeout, callVars, workVars, taskVars
    <3> QED
      BY <3>1, <3>2, <3>3
  <2>6. CASE JoinDone(d)
    <3> DEFINE b == dact[d]
    <3>1. /\ dpc[d] = "join" /\ b \in Calls /\ Dead(b)
          /\ activations' = [activations EXCEPT ![target[b]] = None]
          /\ registered' = registered \ {target[b]}
          /\ dpc' = [dpc EXCEPT ![d] = "next"]
          /\ dact' = [dact EXCEPT ![d] = None]
          /\ UNCHANGED <<target, cpc, worker>>
      BY <2>6 DEF JoinDone, Held, callVars, workVars, taskVars
    <3>2. activations[target[b]] = b
      BY <3>1 DEF Sole
    <3>3. \A e \in Tasks : e # d => dpc[e] \notin {"hook", "put", "join"}
      BY <3>1 DEF Sole, Tasks
    <3>4. Sole'
      <4>1. \A e \in Tasks : dpc'[e] \notin {"hook", "put", "join"}
        BY <3>1, <3>3 DEF TypeOK
      <4>2. dpc'[Stopper] # "off" => dpc'[Collector] = "ended"
        BY <3>1 DEF Sole, Tasks, TypeOK
      <4> QED
        BY <3>1, <4>1, <4>2 DEF Sole
    <3>5. NoOrphan'
      BY <3>1, <3>2 DEF NoOrphan, Alive, Dead, TypeOK
    <3>6. HostedIsRegistered'
      BY <3>1 DEF HostedIsRegistered, TypeOK
    <3> QED
      BY <3>4, <3>5, <3>6
  <2>7. CASE Schedule(d)
    BY <2>7 DEF Schedule
  <2>8. CASE ScheduledDone(d)
    BY <2>8 DEF ScheduledDone
  <2> QED
    BY <1>3, <2>1, <2>2, <2>3, <2>4, <2>5, <2>6, <2>7, <2>8 DEF TaskStep
<1>4. ASSUME RuntimeStep PROVE (Sole /\ NoOrphan /\ HostedIsRegistered)'
  <2>1. CASE Start
    <3>1. Sole'
      BY <2>1 DEF TypeOK, Held, Stages, Sole, Start, Tasks, callVars, workVars, taskVars
    <3>2. NoOrphan'
      BY <2>1 DEF TypeOK, Held, NoOrphan, Alive, Start, callVars, workVars, taskVars
    <3>3. HostedIsRegistered'
      BY <2>1 DEF TypeOK, HostedIsRegistered, Start, callVars, workVars, taskVars
    <3> QED
      BY <3>1, <3>2, <3>3
  <2>2. CASE CollectorPass
    <3>1. Sole'
      BY <2>2 DEF TypeOK, Held, Stages, Sole, CollectorPass, Tasks, callVars, workVars, taskVars
    <3>2. NoOrphan'
      BY <2>2 DEF TypeOK, Held, NoOrphan, Alive, CollectorPass, callVars, workVars, taskVars
    <3>3. HostedIsRegistered'
      BY <2>2 DEF TypeOK, HostedIsRegistered, CollectorPass, callVars, workVars, taskVars
    <3> QED
      BY <3>1, <3>2, <3>3
  <2>3. CASE CollectorRests
    <3>1. Sole'
      BY <2>3 DEF TypeOK, Held, Stages, Sole, CollectorRests, Tasks, callVars, workVars, taskVars
    <3>2. NoOrphan'
      BY <2>3 DEF TypeOK, Held, NoOrphan, Alive, CollectorRests, callVars, workVars, taskVars
    <3>3. HostedIsRegistered'
      BY <2>3 DEF TypeOK, HostedIsRegistered, CollectorRests, callVars, workVars, taskVars
    <3> QED
      BY <3>1, <3>2, <3>3
  <2>4. CASE StopBegin
    <3>1. Sole'
      BY <2>4 DEF TypeOK, Held, Stages, Sole, StopBegin, Tasks, callVars, workVars, taskVars
    <3>2. NoOrphan'
      BY <2>4 DEF TypeOK, Held, NoOrphan, Alive, StopBegin, callVars, workVars, taskVars
    <3>3. HostedIsRegistered'
      BY <2>4 DEF TypeOK, HostedIsRegistered, StopBegin, callVars, workVars, taskVars
    <3> QED
      BY <3>1, <3>2, <3>3
  <2>5. CASE StopList
    <3>1. Sole'
      BY <2>5 DEF TypeOK, Held, Stages, Sole, StopList, Tasks, callVars, workVars, taskVars
    <3>2. NoOrphan'
      BY <2>5 DEF TypeOK, Held, NoOrphan, Alive, StopList, callVars, workVars, taskVars
    <3>3. HostedIsRegistered'
      BY <2>5 DEF TypeOK, HostedIsRegistered, StopList, callVars, workVars, taskVars
    <3> QED
      BY <3>1, <3>2, <3>3
  <2>6. CASE StopDone
    <3>1. Sole'
      BY <2>6 DEF TypeOK, Held, Stages, Sole, StopDone, Tasks, callVars, workVars, taskVars
    <3>2. NoOrphan'
      BY <2>6 DEF TypeOK, Held, NoOrphan, Alive, StopDone, callVars, workVars, taskVars
    <3>3. HostedIsRegistered'
      BY <2>6 DEF TypeOK, HostedIsRegistered, StopDone, callVars, workVars, taskVars
    <3> QED
      BY <3>1, <3>2, <3>3
  <2> QED
    BY <1>4, <2>1, <2>2, <2>3, <2>4, <2>5, <2>6 DEF RuntimeStep
<1>5. CASE UNCHANGED vars
  BY <1>5 DEF Sole, NoOrphan, HostedIsRegistered, Alive, vars, callVars, workVars, taskVars
<1> QED
  BY <1>1, <1>2, <1>3, <1>4, <1>5 DEF Next

\* The initial states satisfy the invariant behind SingleActivation.
LEMMA SoleInit == Init => SoleInv
BY ReapInit, RuntimeAssumption
   DEF Init, SoleInv, Sole, NoOrphan, HostedIsRegistered, Alive, Tasks

\* Where storage.read runs to its end within a step and no scheduled task
\* deactivates, a grain has at most one live worker, whatever calls, turns,
\* timeouts, cancellations, the collector and stop() do.
THEOREM SingleActivationAlone ==
  ASSUME ~ReadSuspends, Scheduled = {}
  PROVE  Spec => []SingleActivation
<1>1. SoleInv => SingleActivation
  BY DEF SoleInv, NoOrphan, SingleActivation
<1>2. SoleInv /\ [Next]_vars => SoleInv'
  BY SoleStep
<1> QED
  BY <1>1, <1>2, SoleInit, PTL DEF Spec

\* In the same setting deactivate_grain removes from the map only the
\* activation whose worker it has seen end: no live worker is forgotten.
THEOREM NothingForgottenAlone ==
  ASSUME ~ReadSuspends, Scheduled = {}
  PROVE  Spec => []NoOrphan
<1>1. SoleInv => NoOrphan
  BY DEF SoleInv
<1>2. SoleInv /\ [Next]_vars => SoleInv'
  BY SoleStep
<1> QED
  BY <1>1, <1>2, SoleInit, PTL DEF Spec

\* In the same setting no hosted grain loses its directory entry, although the
\* map and the directory are changed by different calls.
THEOREM HostedStayRegisteredAlone ==
  ASSUME ~ReadSuspends, Scheduled = {}
  PROVE  Spec => []HostedIsRegistered
<1>1. SoleInv => HostedIsRegistered
  BY DEF SoleInv
<1>2. SoleInv /\ [Next]_vars => SoleInv'
  BY SoleStep
<1> QED
  BY <1>1, <1>2, SoleInit, PTL DEF Spec

-----------------------------------------------------------------------------
(* FuturesWriteOnce.                                                       *)

\* A caller that has not yet queued an item has an unused future for it.
Unsent ==
  \A c \in Calls :
    /\ cpc[c] \in {"new", "loading"} => fut[<<c, "hook">>] = "unset"
    /\ cpc[c] \in {"new", "loading", "activating"} => fut[<<c, "call">>] = "unset"

WrittenOnce == \A i \in Items : fut[i] \notin {"unset", "pending"} => fut'[i] = fut[i]

\* A step of the caller c that changes futures of its own only.
LEMMA CallerFut ==
  ASSUME Unsent, NEW c \in Calls,
         \A d \in Calls : d # c => cpc'[d] = cpc[d],
         \A i \in Items : \/ fut'[i] = fut[i]
                          \/ i[1] = c /\ fut[i] \in {"unset", "pending"},
         cpc'[c] \in {"new", "loading"} => fut'[<<c, "hook">>] = "unset",
         cpc'[c] \in {"new", "loading", "activating"} => fut'[<<c, "call">>] = "unset"
  PROVE  Unsent' /\ WrittenOnce
<1>1. \A d \in Calls : d # c =>
        /\ fut'[<<d, "hook">>] = fut[<<d, "hook">>]
        /\ fut'[<<d, "call">>] = fut[<<d, "call">>]
  BY DEF Items
<1>2. Unsent'
  <2> SUFFICES ASSUME NEW d \in Calls
               PROVE  /\ cpc'[d] \in {"new", "loading"} => fut'[<<d, "hook">>] = "unset"
                      /\ cpc'[d] \in {"new", "loading", "activating"} =>
                           fut'[<<d, "call">>] = "unset"
    BY DEF Unsent
  <2>1. CASE d = c
    BY <2>1
  <2>2. CASE d # c
    BY <1>1, <2>2 DEF Unsent
  <2> QED
    BY <2>1, <2>2
<1> QED
  BY <1>2 DEF WrittenOnce

\* Submit uses the future of the call, if any.
LEMMA SubmitFut ==
  ASSUME TypeOK, Unsent, NEW c \in Calls, NEW a \in Calls, Submit(c, a),
         cpc[c] \in {"new", "loading", "activating"}
  PROVE  /\ cpc'[c] \in {"waiting", "putting", "failed"}
         /\ \A d \in Calls : d # c => cpc'[d] = cpc[d]
         /\ \A i \in Items : \/ fut'[i] = fut[i]
                             \/ i[1] = c /\ fut[i] \in {"unset", "pending"}
<1>1. fut[<<c, "call">>] = "unset"
  BY DEF Unsent
<1>2. fut' = fut \/ fut' = [fut EXCEPT ![<<c, "call">>] = "pending"]
  BY DEF Submit
<1>3. \A i \in Items : fut'[i] = fut[i] \/ i = <<c, "call">>
  BY <1>2 DEF TypeOK
<1>4. /\ cpc'[c] \in {"waiting", "putting", "failed"}
      /\ \A d \in Calls : d # c => cpc'[d] = cpc[d]
  BY DEF Submit, TypeOK
<1> QED
  BY <1>1, <1>3, <1>4

\* So does publishing an activation, with the future of on_activate.
LEMMA PublishFut ==
  ASSUME TypeOK, Unsent, NEW c \in Calls, Publish(c), cpc[c] \in {"new", "loading"}
  PROVE  Unsent' /\ WrittenOnce
<1>1. CASE target[c] \in Hooked
  <2>1. fut[<<c, "hook">>] = "unset" /\ fut[<<c, "call">>] = "unset"
    BY DEF Unsent
  <2>2. /\ fut' = [fut EXCEPT ![<<c, "hook">>] = "pending"]
        /\ cpc' = [cpc EXCEPT ![c] = "activating"]
    BY <1>1 DEF Publish
  <2>3. \A i \in Items : fut'[i] = fut[i] \/ i = <<c, "hook">>
    BY <2>2 DEF TypeOK
  <2>4. fut'[<<c, "call">>] = "unset"
    BY <2>1, <2>3 DEF Items
  <2>5. cpc'[c] = "activating" /\ \A d \in Calls : d # c => cpc'[d] = cpc[d]
    BY <2>2 DEF TypeOK
  <2>6. \A i \in Items : \/ fut'[i] = fut[i]
                         \/ i[1] = c /\ fut[i] \in {"unset", "pending"}
    BY <2>1, <2>3
  <2> QED
    BY <2>4, <2>5, <2>6, CallerFut
<1>2. CASE target[c] \notin Hooked
  <2>1. Submit(c, c)
    BY <1>2 DEF Publish
  <2> QED
    BY <2>1, SubmitFut, CallerFut
<1> QED
  BY <1>1, <1>2

\* Every step uses each future once.
LEMMA FutStep ==
  ASSUME TypeOK, Unsent, Held, [Next]_vars
  PROVE  Unsent' /\ WrittenOnce
<1>1. ASSUME NEW c \in Calls, CallStep(c) PROVE Unsent' /\ WrittenOnce
  <2>1. CASE InvokeHosted(c)
    <3>1. /\ Submit(c, activations[target[c]])
          /\ activations[target[c]] \in Calls
          /\ cpc[c] = "new"
      BY <2>1 DEF InvokeHosted, TypeOK
    <3> QED
      BY <3>1, SubmitFut, CallerFut
  <2>2. CASE InvokeActivate(c)
    <3>1. CASE ReadSuspends
      <4>1. fut' = fut /\ cpc' = [cpc EXCEPT ![c] = "loading"] /\ cpc[c] = "new"
        BY <2>2, <3>1 DEF InvokeActivate
      <4> QED
        BY <4>1 DEF Unsent, WrittenOnce, TypeOK
    <3>2. CASE ~ReadSuspends
      BY <2>2, <3>2, PublishFut DEF InvokeActivate
    <3> QED
      BY <3>1, <3>2
  <2>3. CASE FinishLoad(c)
    BY <2>3, PublishFut DEF FinishLoad
  <2>4. CASE ActivationFails(c)
    BY <2>4 DEF ActivationFails, Unsent, WrittenOnce, TypeOK
  <2>5. CASE HookReturns(c)
    <3>1. CASE Submit(c, cact[c])
      <4>1. cact[c] \in Calls /\ cpc[c] = "activating"
        BY <2>5 DEF HookReturns, Held
      <4> QED
        BY <3>1, <4>1, SubmitFut, CallerFut
    <3>2. CASE cpc' = [cpc EXCEPT ![c] = "failed"] /\ fut' = fut
      BY <3>2 DEF Unsent, WrittenOnce, TypeOK
    <3> QED
      BY <2>5, <3>1, <3>2 DEF HookReturns
  <2>6. CASE PutCall(c)
    BY <2>6 DEF PutCall, Unsent, WrittenOnce, TypeOK
  <2>7. CASE Receive(c)
    BY <2>7 DEF Receive, Unsent, WrittenOnce, TypeOK
  <2>8. CASE CancelCaller(c)
    <3>1. \A i \in Items : \/ fut'[i] = fut[i]
                           \/ i[1] = c /\ fut[i] \in {"unset", "pending"}
      BY <2>8 DEF CancelCaller
    <3>2. cpc'[c] = "cancelled" /\ \A d \in Calls : d # c => cpc'[d] = cpc[d]
      BY <2>8 DEF CancelCaller, TypeOK
    <3> QED
      BY <3>1, <3>2, CallerFut
  <2> QED
    BY <1>1, <2>1, <2>2, <2>3, <2>4, <2>5, <2>6, <2>7, <2>8 DEF CallStep
<1>2. ASSUME NEW a \in Calls, WorkerStep(a) PROVE Unsent' /\ WrittenOnce
  <2>1. CASE FinishTurn(a)
    <3>1. PICK outcome \in {"result", "error"} :
            fut' = [fut EXCEPT ![turn[a]] = IF @ = "pending" THEN outcome ELSE @]
      BY <2>1 DEF FinishTurn
    <3>2. \A i \in Items : fut'[i] = fut[i] \/ fut[i] = "pending"
      BY <3>1 DEF TypeOK
    <3>3. cpc' = cpc
      BY <2>1 DEF FinishTurn, callVars
    <3> QED
      BY <3>2, <3>3 DEF Unsent, WrittenOnce, Items
  <2>2. CASE TakeTurn(a) \/ TakeSentinel(a) \/ GrowIdle(a)
    BY <2>2 DEF TakeTurn, TakeSentinel, GrowIdle, callVars, Unsent, WrittenOnce
  <2> QED
    BY <1>2, <2>1, <2>2 DEF WorkerStep
<1>3. ASSUME NEW d \in Tasks, TaskStep(d) PROVE Unsent' /\ WrittenOnce
  <2>1. UNCHANGED <<cpc, fut>>
    BY <1>3 DEF TaskStep, DeactivateAbsent, DeactivateBegin, DeactivateHookDone, PutSentinel,
                JoinTimeout, JoinDone, Schedule, ScheduledDone, callVars
  <2> QED
    BY <2>1 DEF Unsent, WrittenOnce
<1>4. CASE RuntimeStep \/ UNCHANGED vars
  <2>1. UNCHANGED <<cpc, fut>>
    BY <1>4 DEF RuntimeStep, Start, CollectorPass, CollectorRests, StopBegin, StopList,
                StopDone, vars, callVars
  <2> QED
    BY <2>1 DEF Unsent, WrittenOnce
<1> QED
  BY <1>1, <1>2, <1>3, <1>4 DEF Next

\* The worker loop and a cancelled caller never change the outcome of a future
\* that is done, whatever order they come in.
THEOREM FuturesAreWrittenOnce == Spec => FuturesWriteOnce
<1>1. Init => ReapInv /\ Unsent
  BY ReapInit DEF Init, Unsent, Items
<1>2. ReapInv /\ Unsent /\ [Next]_vars => (ReapInv /\ Unsent)'
  BY ReapStep, FutStep DEF ReapInv
<1>3. ReapInv /\ Unsent /\ [Next]_vars =>
        [\A i \in Items : fut[i] \notin {"unset", "pending"} => fut'[i] = fut[i]]_vars
  BY FutStep DEF ReapInv, WrittenOnce
<1> QED
  BY <1>1, <1>2, <1>3, PTL DEF Spec, FuturesWriteOnce


-----------------------------------------------------------------------------
(* WaitingIsAccountedFor and OnActivateFirst: what the inboxes hold.        *)

\* The call c is in the inbox of a or in its turn, or a's worker was cancelled.
Accounted(c, a) ==
  \/ \E i \in 1..Len(inbox[a]) : inbox[a][i] = <<c, "call">>
  \/ turn[a] = <<c, "call">>
  \/ worker[a] = "cancelled"

\* A worker that is between two turns, or has ended, holds no item.
TurnsAreBusy == \A a \in Calls : worker[a] # "busy" => turn[a] = Sentinel

QueueInv == ReapInv /\ TurnsAreBusy /\ WaitingIsAccountedFor /\ OnActivateFirst

\* How a step changes the inbox of a: not at all, by an entry at the end that
\* is not on_activate, by taking the first one, or by the first on_activate.
InboxMove(a) ==
  \/ /\ \/ inbox'[a] = inbox[a]
        \/ \E x \in (Items \union {Sentinel}) \ {<<a, "hook">>} : inbox'[a] = Append(inbox[a], x)
     /\ worker'[a] = "busy" => worker[a] = "busy"
  \/ inbox[a] # <<>> /\ inbox'[a] = Tail(inbox[a])
  \/ inbox'[a] = <<<<a, "hook">>>> /\ worker'[a] # "busy"

\* An entry at the end of an inbox hides none of those before it.
LEMMA AppendEntries ==
  ASSUME NEW S, NEW s \in Seq(S), NEW x \in S
  PROVE  /\ Len(Append(s, x)) = Len(s) + 1
         /\ \A i \in 1..Len(s) : i \in 1..Len(Append(s, x)) /\ Append(s, x)[i] = s[i]
         /\ \A i \in 1..Len(Append(s, x)) : i \in 1..Len(s) \/ i = Len(s) + 1
         /\ Append(s, x)[Len(s) + 1] = x
         /\ Len(s) + 1 \in 1..Len(Append(s, x))
OBVIOUS

\* What Submit does to the inboxes.
LEMMA SubmitMove ==
  ASSUME TypeOK, NEW c \in Calls, NEW a \in Calls, Submit(c, a)
  PROVE  /\ \A b \in Calls : \/ inbox'[b] = inbox[b]
                             \/ b = a /\ inbox'[b] = Append(inbox[b], <<c, "call">>)
         /\ cpc'[c] = "waiting" => inbox'[a] = Append(inbox[a], <<c, "call">>)
         /\ \A b \in Calls : b # c => /\ cpc'[b] = cpc[b]
                                      /\ fut'[<<b, "call">>] = fut[<<b, "call">>]
<1>1. \A b \in Calls : b # c => <<b, "call">> # <<c, "call">> /\ <<b, "call">> \in Items
  BY DEF Items
<1> QED
  BY <1>1 DEF Submit, TypeOK

\* What Publish does to the inboxes.
LEMMA PublishMove ==
  ASSUME TypeOK, Fresh, NEW c \in Calls, worker[c] = "none", Publish(c)
  PROVE  /\ \A b \in Calls : b # c => inbox'[b] = inbox[b]
         /\ inbox'[c] \in {inbox[c], Append(inbox[c], <<c, "call">>), <<<<c, "hook">>>>}
         /\ cpc'[c] = "waiting" => inbox'[c] = Append(inbox[c], <<c, "call">>)
         /\ \A b \in Calls : b # c => /\ cpc'[b] = cpc[b]
                                      /\ fut'[<<b, "call">>] = fut[<<b, "call">>]
<1>0. inbox[c] = <<>>
  BY DEF Fresh
<1>1. CASE target[c] \in Hooked
  <2>1. inbox'[c] = Append(<<>>, <<c, "hook">>)
    BY <1>0, <1>1 DEF Publish, TypeOK
  <2>2. \A b \in Calls : b # c => <<b, "call">> # <<c, "hook">> /\ <<b, "call">> \in Items
    BY DEF Items
  <2> QED
    BY <1>1, <2>1, <2>2 DEF Publish, TypeOK
<1>2. CASE target[c] \notin Hooked
  BY <1>2, SubmitMove DEF Publish
<1> QED
  BY <1>1, <1>2

\* Every step changes each inbox in one of the ways of InboxMove.
LEMMA InboxMoves ==
  ASSUME ReapInv, [Next]_vars
  PROVE  \A a \in Calls : InboxMove(a)
<1> TypeOK /\ Fresh /\ Held
  BY DEF ReapInv
<1> USE ItemFacts
<1>1. ASSUME NEW c \in Calls, CallStep(c) PROVE \A a \in Calls : InboxMove(a)
  <2>1. \A b, a \in Calls : <<b, "call">> \in (Items \union {Sentinel}) \ {<<a, "hook">>}
    OBVIOUS
  <2>2. ASSUME Publish(c), worker[c] = "none" PROVE \A a \in Calls : InboxMove(a)
    <3>1. worker' = [worker EXCEPT ![c] = "ready"]
      BY <2>2 DEF Publish
    <3>2. /\ \A b \in Calls : b # c => inbox'[b] = inbox[b]
          /\ inbox'[c] \in {inbox[c], Append(inbox[c], <<c, "call">>), <<<<c, "hook">>>>}
      BY <2>2, PublishMove
    <3>3. /\ \A b \in Calls : b # c => worker'[b] = worker[b]
          /\ worker'[c] # "busy"
      BY <3>1 DEF TypeOK
    <3>4. ASSUME NEW a \in Calls, a # c PROVE InboxMove(a)
      BY <3>2, <3>3, <3>4 DEF InboxMove
    <3>5. InboxMove(c)
      BY <2>1, <3>2, <3>3 DEF InboxMove
    <3> QED
      BY <3>4, <3>5
  <2>3. ASSUME NEW a \in Calls, Submit(c, a), worker' = worker
        PROVE  \A b \in Calls : InboxMove(b)
    <3> TAKE b \in Calls
    <3>1. \/ inbox'[b] = inbox[b]
          \/ inbox'[b] = Append(inbox[b], <<c, "call">>)
      BY <2>3, SubmitMove
    <3> QED
      BY <2>1, <2>3, <3>1 DEF InboxMove
  <2>4. CASE InvokeHosted(c)
    BY <2>3, <2>4 DEF InvokeHosted, workVars, TypeOK
  <2>5. CASE InvokeActivate(c)
    <3>1. CASE ReadSuspends
      BY <2>5, <3>1 DEF InvokeActivate, workVars, InboxMove
    <3> QED
      BY <2>2, <2>5, <3>1 DEF InvokeActivate, Fresh
  <2>6. CASE FinishLoad(c)
    BY <2>2, <2>6 DEF FinishLoad, Fresh
  <2>7. CASE HookReturns(c)
    <3>1. cact[c] \in Calls /\ worker' = worker
      BY <2>7 DEF HookReturns, Held, workVars
    <3>2. CASE inbox' = inbox
      BY <3>1, <3>2 DEF InboxMove
    <3> QED
      BY <2>3, <2>7, <3>1, <3>2 DEF HookReturns
  <2>8. CASE PutCall(c)
    <3>1. /\ inbox' = [inbox EXCEPT ![cact[c]] = Append(@, <<c, "call">>)]
          /\ worker' = worker
      BY <2>8 DEF PutCall, workVars
    <3>2. \A a \in Calls : \/ inbox'[a] = inbox[a]
                           \/ inbox'[a] = Append(inbox[a], <<c, "call">>)
      BY <3>1 DEF TypeOK
    <3> QED
      BY <2>1, <3>1, <3>2 DEF InboxMove
  <2>9. CASE ActivationFails(c) \/ Receive(c) \/ CancelCaller(c)
    BY <2>9 DEF ActivationFails, Receive, CancelCaller, workVars, InboxMove
  <2> QED
    BY <1>1, <2>4, <2>5, <2>6, <2>7, <2>8, <2>9 DEF CallStep
<1>2. ASSUME NEW a \in Calls, WorkerStep(a) PROVE \A b \in Calls : InboxMove(b)
  <2>1. CASE TakeTurn(a)
    BY <2>1 DEF TakeTurn, InboxMove, TypeOK
  <2>2. CASE TakeSentinel(a)
    BY <2>2 DEF TakeSentinel, InboxMove, TypeOK
  <2>3. CASE FinishTurn(a)
    BY <2>3 DEF FinishTurn, InboxMove, TypeOK
  <2>4. CASE GrowIdle(a)
    BY <2>4 DEF GrowIdle, InboxMove
  <2> QED
    BY <1>2, <2>1, <2>2, <2>3, <2>4 DEF WorkerStep
<1>3. ASSUME NEW d \in Tasks, TaskStep(d) PROVE \A b \in Calls : InboxMove(b)
  <2>1. \A b \in Calls : Sentinel \in (Items \union {Sentinel}) \ {<<b, "hook">>}
    OBVIOUS
  <2>2. ASSUME NEW a \in Calls, PutSentinelOrWait(d, a), worker' = worker
        PROVE  \A b \in Calls : InboxMove(b)
    <3>1. \A b \in Calls : inbox'[b] = inbox[b] \/ inbox'[b] = Append(inbox[b], Sentinel)
      BY <2>2 DEF PutSentinelOrWait, TypeOK
    <3> QED
      BY <2>1, <2>2, <3>1 DEF InboxMove
  <2>3. CASE DeactivateBegin(d)
    <3>1. PICK g \in todo[d] :
            /\ activations[g] # None
            /\ \/ UNCHANGED inbox
               \/ PutSentinelOrWait(d, activations[g])
      BY <2>3 DEF DeactivateBegin
    <3>2. activations[g] \in Calls /\ worker' = worker
      BY <2>3, <3>1 DEF TypeOK, DeactivateBegin, workVars
    <3>3. CASE inbox' = inbox
      BY <3>2, <3>3 DEF InboxMove
    <3> QED
      BY <2>2, <3>1, <3>2, <3>3
  <2>4. CASE DeactivateHookDone(d) \/ PutSentinel(d)
    BY <2>2, <2>4 DEF DeactivateHookDone, PutSentinel, Held, workVars
  <2>5. CASE JoinTimeout(d)
    BY <2>5 DEF JoinTimeout, InboxMove, TypeOK
  <2>6. CASE DeactivateAbsent(d) \/ JoinDone(d) \/ Schedule(d) \/ ScheduledDone(d)
    BY <2>6 DEF DeactivateAbsent, JoinDone, Schedule, ScheduledDone, InboxMove, workVars
  <2> QED
    BY <1>3, <2>3, <2>4, <2>5, <2>6 DEF TaskStep
<1>4. CASE StopBegin
  BY <1>4 DEF StopBegin, InboxMove, TypeOK
<1>5. CASE Start \/ CollectorPass \/ CollectorRests \/ StopList \/ StopDone \/ UNCHANGED vars
  BY <1>5 DEF Start, CollectorPass, CollectorRests, StopList, StopDone, vars, workVars, InboxMove
<1> QED
  BY <1>1, <1>2, <1>3, <1>4, <1>5 DEF Next, RuntimeStep

\* No such move puts another entry before on_activate.
LEMMA HookStaysFirst ==
  ASSUME ReapInv, OnActivateFirst, [Next]_vars
  PROVE  OnActivateFirst'
<1> SUFFICES ASSUME NEW a \in Calls
             PROVE  /\ \A i \in 2..Len(inbox'[a]) : inbox'[a][i] # <<a, "hook">>
                    /\ worker'[a] = "busy" =>
                         \A i \in 1..Len(inbox'[a]) : inbox'[a][i] # <<a, "hook">>
  BY DEF OnActivateFirst
<1> DEFINE S == Items \union {Sentinel}
<1>1. /\ inbox[a] \in Seq(S)
      /\ \A i \in 2..Len(inbox[a]) : inbox[a][i] # <<a, "hook">>
      /\ worker[a] = "busy" => \A i \in 1..Len(inbox[a]) : inbox[a][i] # <<a, "hook">>
  BY DEF ReapInv, TypeOK, OnActivateFirst
<1>2. CASE inbox'[a] = inbox[a] /\ (worker'[a] = "busy" => worker[a] = "busy")
  BY <1>1, <1>2
<1>3. CASE /\ \E x \in S \ {<<a, "hook">>} : inbox'[a] = Append(inbox[a], x)
           /\ worker'[a] = "busy" => worker[a] = "busy"
  <2>1. PICK x \in S \ {<<a, "hook">>} : inbox'[a] = Append(inbox[a], x)
    BY <1>3
  <2> x \in S
    OBVIOUS
  <2> HIDE DEF S
  <2>2. /\ \A i \in 1..Len(inbox'[a]) : i \in 1..Len(inbox[a]) \/ i = Len(inbox[a]) + 1
        /\ \A i \in 1..Len(inbox[a]) : inbox'[a][i] = inbox[a][i]
        /\ inbox'[a][Len(inbox[a]) + 1] # <<a, "hook">>
    <3> DEFINE s == inbox[a]
    <3>1. s \in Seq(S)
      BY <1>1
    <3> HIDE DEF s
    <3>2. /\ \A i \in 1..Len(s) : Append(s, x)[i] = s[i]
          /\ \A i \in 1..Len(Append(s, x)) : i \in 1..Len(s) \/ i = Len(s) + 1
          /\ Append(s, x)[Len(s) + 1] = x
      BY <3>1, AppendEntries
    <3>3. x # <<a, "hook">>
      BY <2>1
    <3> QED
      BY <2>1, <3>2, <3>3 DEF s
  <2>3. Len(inbox[a]) \in Nat
    BY <1>1
  <2>4. ASSUME NEW i \in 2..Len(inbox'[a]) PROVE inbox'[a][i] # <<a, "hook">>
    <3>1. i \in 1..Len(inbox'[a]) /\ i >= 2
      OBVIOUS
    <3>2. CASE i \in 1..Len(inbox[a])
      <4>1. i \in 2..Len(inbox[a])
        BY <2>3, <3>1, <3>2
      <4> QED
        BY <1>1, <2>2, <3>2, <4>1
    <3>3. CASE i = Len(inbox[a]) + 1
      BY <2>2, <3>3
    <3> QED
      BY <2>2, <3>1, <3>2, <3>3
  <2> QED
    BY <1>1, <1>3, <2>2, <2>4
<1>4. CASE inbox[a] # <<>> /\ inbox'[a] = Tail(inbox[a])
  <2>1. \A i \in 1..Len(inbox'[a]) : i + 1 \in 1..Len(inbox[a]) /\ inbox'[a][i] = inbox[a][i + 1]
    BY <1>1, <1>4, TailEntries
  <2>2. \A i \in 1..Len(inbox'[a]) : inbox'[a][i] # <<a, "hook">>
    <3> SUFFICES ASSUME NEW i \in 1..Len(inbox'[a]) PROVE inbox'[a][i] # <<a, "hook">>
      OBVIOUS
    <3>1. i + 1 \in 2..Len(inbox[a]) /\ inbox'[a][i] = inbox[a][i + 1]
      <4>1. i \in Nat /\ i >= 1 /\ Len(inbox[a]) \in Nat
        BY <1>1
      <4> QED
        BY <2>1, <4>1
    <3> QED
      BY <1>1, <3>1
  <2>3. \A i \in 2..Len(inbox'[a]) : i \in 1..Len(inbox'[a])
    <3>1. Len(inbox'[a]) \in Nat
      BY <1>1, <1>4, TailEntries
    <3> QED
      BY <3>1
  <2> QED
    BY <2>2, <2>3
<1>5. CASE inbox'[a] = <<<<a, "hook">>>> /\ worker'[a] # "busy"
  BY <1>5
<1> QED
  BY <1>2, <1>3, <1>4, <1>5, InboxMoves DEF InboxMove

\* A turn ends when its worker does.
LEMMA TurnsStep ==
  ASSUME ReapInv, TurnsAreBusy, [Next]_vars
  PROVE  TurnsAreBusy'
<1> TypeOK
  BY DEF ReapInv
<1>1. ASSUME NEW c \in Calls, CallStep(c) PROVE TurnsAreBusy'
  <2>1. /\ turn' = turn
        /\ \/ worker' = worker
           \/ worker' = [worker EXCEPT ![c] = "ready"] /\ worker[c] = "none"
    BY <1>1 DEF CallStep, InvokeHosted, InvokeActivate, FinishLoad, ActivationFails, HookReturns,
                PutCall, Receive, CancelCaller, Publish, workVars, ReapInv, Fresh
  <2> QED
    BY <2>1 DEF TurnsAreBusy, TypeOK
<1>2. ASSUME NEW a \in Calls, WorkerStep(a) PROVE TurnsAreBusy'
  BY <1>2 DEF WorkerStep, TakeTurn, TakeSentinel, FinishTurn, GrowIdle, TurnsAreBusy, TypeOK
<1>3. ASSUME NEW d \in Tasks, TaskStep(d) PROVE TurnsAreBusy'
  <2>1. \/ UNCHANGED <<worker, turn>>
        \/ /\ worker' = [worker EXCEPT ![dact[d]] = "cancelled"]
           /\ turn' = [turn EXCEPT ![dact[d]] = Sentinel]
    BY <1>3 DEF TaskStep, DeactivateAbsent, DeactivateBegin, DeactivateHookDone, PutSentinel,
                JoinTimeout, JoinDone, Schedule, ScheduledDone, workVars
  <2> QED
    BY <2>1 DEF TurnsAreBusy, TypeOK
<1>4. CASE RuntimeStep \/ UNCHANGED vars
  <2>1. \/ UNCHANGED <<worker, turn>>
        \/ /\ worker' = [worker EXCEPT ![dact[Collector]] = "cancelled"]
           /\ turn' = [turn EXCEPT ![dact[Collector]] = Sentinel]
    BY <1>4 DEF RuntimeStep, Start, CollectorPass, CollectorRests, StopBegin, StopList, StopDone,
                vars, workVars
  <2> QED
    BY <2>1 DEF TurnsAreBusy, TypeOK
<1> QED
  BY <1>1, <1>2, <1>3, <1>4 DEF Next

\* A call that a growing inbox, or a turn, holds stays there.
LEMMA GrowthKeeps ==
  ASSUME TypeOK, NEW c \in Calls, NEW a \in Calls, NEW x \in Items \union {Sentinel},
         inbox'[a] = inbox[a] \/ inbox'[a] = Append(inbox[a], x),
         turn'[a] = turn[a] \/ worker'[a] = "cancelled",
         worker[a] = "cancelled" => worker'[a] = "cancelled",
         Accounted(c, a)
  PROVE  Accounted(c, a)'
<1>1. CASE \E i \in 1..Len(inbox[a]) : inbox[a][i] = <<c, "call">>
  <2>1. PICK i \in 1..Len(inbox[a]) : inbox[a][i] = <<c, "call">>
    BY <1>1
  <2>2. inbox[a] \in Seq(Items \union {Sentinel})
    BY DEF TypeOK
  <2>3. i \in 1..Len(Append(inbox[a], x)) /\ Append(inbox[a], x)[i] = <<c, "call">>
    BY <2>1, <2>2, AppendEntries
  <2>4. i \in 1..Len(inbox'[a]) /\ inbox'[a][i] = <<c, "call">>
    BY <2>1, <2>3
  <2> QED
    BY <2>4 DEF Accounted
<1> QED
  BY <1>1 DEF Accounted

\* The caller of a call that was put into the inbox of a is accounted for.
LEMMA QueuedCall ==
  ASSUME TypeOK, NEW c \in Calls, NEW a \in Calls, inbox'[a] = Append(inbox[a], <<c, "call">>)
  PROVE  Accounted(c, a)'
<1>1. inbox[a] \in Seq(Items \union {Sentinel}) /\ <<c, "call">> \in Items \union {Sentinel}
  BY ItemFacts DEF TypeOK
<1>2. /\ Len(inbox[a]) + 1 \in 1..Len(inbox'[a])
      /\ inbox'[a][Len(inbox[a]) + 1] = <<c, "call">>
  BY <1>1, AppendEntries
<1> QED
  BY <1>2 DEF Accounted

\* A step that makes nobody a waiting caller but c, and accounts for every call
\* that was accounted for and is still pending, keeps the property.
LEMMA WaitFrame ==
  ASSUME TypeOK, Held, WaitingIsAccountedFor,
         NEW c,
         \A b \in Calls : b # c /\ cpc'[b] = "waiting" /\ fut'[<<b, "call">>] = "pending" =>
            cpc[b] = "waiting" /\ fut[<<b, "call">>] = "pending" /\ cact'[b] = cact[b],
         \A b, a \in Calls :
            b # c /\ fut'[<<b, "call">>] = "pending" /\ Accounted(b, a) => Accounted(b, a)',
         c \in Calls /\ cpc'[c] = "waiting" =>
            \E a \in Calls : cact'[c] = a /\ Accounted(c, a)'
  PROVE  WaitingIsAccountedFor'
<1> SUFFICES ASSUME NEW b \in Calls, cpc'[b] = "waiting", fut'[<<b, "call">>] = "pending"
             PROVE  \/ \E i \in 1..Len(inbox'[cact'[b]]) : inbox'[cact'[b]][i] = <<b, "call">>
                    \/ turn'[cact'[b]] = <<b, "call">>
                    \/ worker'[cact'[b]] = "cancelled"
  BY DEF WaitingIsAccountedFor
<1> SUFFICES \E a \in Calls : cact'[b] = a /\ Accounted(b, a)'
  BY DEF Accounted
<1>1. CASE b = c
  BY <1>1
<1>2. CASE b # c
  <2>1. cpc[b] = "waiting" /\ fut[<<b, "call">>] = "pending" /\ cact'[b] = cact[b]
    BY <1>2
  <2>2. PICK a \in Calls : a = cact[b]
    BY <2>1 DEF Held
  <2>3. Accounted(b, a)
    BY <2>1, <2>2 DEF WaitingIsAccountedFor, Accounted
  <2> QED
    BY <1>2, <2>1, <2>2, <2>3
<1> QED
  BY <1>1, <1>2

\* The worker loop forgets no call.
LEMMA WorkerForgetsNoCall ==
  ASSUME TypeOK, Held, TurnsAreBusy, WaitingIsAccountedFor, NEW a \in Calls, WorkerStep(a)
  PROVE  WaitingIsAccountedFor'
<1>0. UNCHANGED <<cpc, cact>>
  BY DEF WorkerStep, TakeTurn, TakeSentinel, FinishTurn, GrowIdle, callVars
<1>1. ASSUME NEW b \in Calls, fut'[<<b, "call">>] = "pending"
      PROVE  fut[<<b, "call">>] = "pending"
  BY <1>1, ItemFacts DEF WorkerStep, TakeTurn, TakeSentinel, FinishTurn, GrowIdle, TypeOK
<1>2. ASSUME NEW b \in Calls, NEW e \in Calls, fut'[<<b, "call">>] = "pending", Accounted(b, e)
      PROVE  Accounted(b, e)'
  <2>1. CASE e # a \/ GrowIdle(a)
    <3>1. /\ inbox'[e] = inbox[e]
          /\ turn'[e] = turn[e]
          /\ worker'[e] = worker[e]
      BY <2>1 DEF WorkerStep, TakeTurn, TakeSentinel, FinishTurn, GrowIdle, TypeOK
    <3> QED
      BY <1>2, <3>1 DEF Accounted
  <2>2. CASE e = a /\ (TakeTurn(a) \/ TakeSentinel(a))
    <3>1. /\ turn[a] = Sentinel /\ worker[a] = "ready"
          /\ inbox[a] # <<>> /\ inbox'[a] = Tail(inbox[a])
          /\ Head(inbox[a]) = Sentinel \/ turn'[a] = Head(inbox[a])
      BY <2>2 DEF TakeTurn, TakeSentinel, TurnsAreBusy, TypeOK
    <3>2. PICK i \in 1..Len(inbox[a]) : inbox[a][i] = <<b, "call">>
      BY <1>2, <2>2, <3>1, ItemFacts DEF Accounted
    <3>3. CASE i = 1
      <4>0. Head(inbox[a]) = inbox[a][1]
        BY <3>1 DEF TypeOK
      <4>1. turn'[a] = <<b, "call">>
        BY <3>1, <3>2, <3>3, <4>0, ItemFacts
      <4> QED
        BY <2>2, <4>1 DEF Accounted
    <3>4. CASE i # 1
      <4>1. i - 1 \in 1..Len(Tail(inbox[a])) /\ Tail(inbox[a])[i - 1] = inbox[a][i]
        BY <3>1, <3>4 DEF TypeOK
      <4>2. i - 1 \in 1..Len(inbox'[a]) /\ inbox'[a][i - 1] = <<b, "call">>
        BY <3>1, <3>2, <4>1
      <4> QED
        BY <2>2, <4>2 DEF Accounted
    <3> QED
      BY <3>3, <3>4
  <2>3. CASE e = a /\ FinishTurn(a)
    <3>1. PICK outcome \in {"result", "error"} :
            fut' = [fut EXCEPT ![turn[a]] = IF @ = "pending" THEN outcome ELSE @]
      BY <2>3 DEF FinishTurn
    <3>2. turn[a] # <<b, "call">>
      BY <1>2, <3>1, ItemFacts DEF TypeOK
    <3>3. worker[a] # "cancelled" /\ inbox' = inbox
      BY <2>3 DEF FinishTurn
    <3> QED
      BY <1>2, <2>3, <3>2, <3>3 DEF Accounted
  <2> QED
    BY <2>1, <2>2, <2>3 DEF WorkerStep
<1>3. a \in Calls /\ cpc'[a] = "waiting" => cpc[a] = "waiting"
  BY <1>0
<1>4. PICK c : c \notin Calls
  BY RuntimeAssumption
<1> QED
  BY <1>0, <1>1, <1>2, <1>4, WaitFrame

\* A step of another kind leaves every call where it is.
LEMMA TasksForgetNoCall ==
  ASSUME TypeOK, Held, WaitingIsAccountedFor,
         \/ \E d \in Tasks : TaskStep(d)
         \/ RuntimeStep
         \/ UNCHANGED vars
  PROVE  WaitingIsAccountedFor'
<1>0. UNCHANGED <<cpc, cact, fut>>
  BY DEF TaskStep, DeactivateAbsent, DeactivateBegin, DeactivateHookDone, PutSentinel,
         JoinTimeout, JoinDone, Schedule, ScheduledDone, RuntimeStep, Start, CollectorPass,
         CollectorRests, StopBegin, StopList, StopDone, vars, callVars
<1>1. ASSUME NEW a \in Calls
      PROVE  inbox'[a] = inbox[a] \/ inbox'[a] = Append(inbox[a], Sentinel)
  <2>1. \/ inbox' = inbox
        \/ \E b : inbox' = [inbox EXCEPT ![b] = Append(@, Sentinel)]
    BY DEF TaskStep, DeactivateAbsent, DeactivateBegin, DeactivateHookDone, PutSentinel,
           PutSentinelOrWait, JoinTimeout, JoinDone, Schedule, ScheduledDone, RuntimeStep,
           Start, CollectorPass, CollectorRests, StopBegin, StopList, StopDone, vars
  <2> QED
    BY <2>1 DEF TypeOK
<1>2. ASSUME NEW a \in Calls
      PROVE  /\ turn'[a] = turn[a] \/ worker'[a] = "cancelled"
             /\ worker[a] = "cancelled" => worker'[a] = "cancelled"
  <2>1. \/ UNCHANGED <<worker, turn>>
        \/ \E b : /\ worker' = [worker EXCEPT ![b] = "cancelled"]
                  /\ turn' = [turn EXCEPT ![b] = Sentinel]
    BY DEF TaskStep, DeactivateAbsent, DeactivateBegin, DeactivateHookDone, PutSentinel,
           JoinTimeout, JoinDone, Schedule, ScheduledDone, RuntimeStep, Start, CollectorPass,
           CollectorRests, StopBegin, StopList, StopDone, vars, workVars
  <2> QED
    BY <2>1 DEF TypeOK
<1>3. \A b, a \in Calls : Accounted(b, a) => Accounted(b, a)'
  BY <1>1, <1>2, GrowthKeeps
<1>4. PICK c : c \notin Calls
  BY RuntimeAssumption
<1> QED
  BY <1>0, <1>3, <1>4, WaitFrame

\* A caller waits only when its call has been put into the inbox.
LEMMA CallersAreAccountedFor ==
  ASSUME TypeOK, Fresh, Held, WaitingIsAccountedFor, NEW c \in Calls, CallStep(c)
  PROVE  WaitingIsAccountedFor'
<1>1. ASSUME Publish(c), worker[c] = "none"
      PROVE  WaitingIsAccountedFor'
  <2>1. /\ turn' = turn
        /\ worker' = [worker EXCEPT ![c] = "ready"]
        /\ cact' = [cact EXCEPT ![c] = c]
    BY <1>1 DEF Publish
  <2>2. \A b, a \in Calls : a # c /\ Accounted(b, a) => Accounted(b, a)'
    BY <1>1, <2>1, PublishMove, GrowthKeeps, ItemFacts DEF TypeOK
  <2>3. inbox[c] = <<>> /\ turn[c] = turn'[c]
    BY <1>1, <2>1 DEF Fresh
  <2>4. \A b \in Calls : Accounted(b, c) => Accounted(b, c)'
    BY <1>1, <2>1, <2>3 DEF Accounted
  <2>5. cpc'[c] = "waiting" => Accounted(c, c)'
    BY <1>1, PublishMove, QueuedCall
  <2>6. \A b \in Calls : b # c => cact'[b] = cact[b]
    BY <2>1 DEF TypeOK
  <2>7. cact'[c] = c
    BY <2>1 DEF TypeOK
  <2> QED
    BY <1>1, <2>2, <2>4, <2>5, <2>6, <2>7, PublishMove, WaitFrame
<1>2. ASSUME NEW a \in Calls, Submit(c, a), UNCHANGED <<worker, turn>>, cact'[c] = a,
             \A b \in Calls : b # c => cact'[b] = cact[b]
      PROVE  WaitingIsAccountedFor'
  <2>1. ASSUME NEW b \in Calls, NEW e \in Calls, Accounted(b, e)
        PROVE  Accounted(b, e)'
    <3>1. inbox'[e] = inbox[e] \/ inbox'[e] = Append(inbox[e], <<c, "call">>)
      BY <1>2, SubmitMove
    <3>2. turn'[e] = turn[e] /\ worker'[e] = worker[e] /\ <<c, "call">> \in Items
      BY <1>2, ItemFacts
    <3> QED
      BY <2>1, <3>1, <3>2, GrowthKeeps
  <2>2. cpc'[c] = "waiting" => Accounted(c, a)'
    BY <1>2, SubmitMove, QueuedCall
  <2> QED
    BY <1>2, <2>1, <2>2, SubmitMove, WaitFrame
<1>3. CASE InvokeHosted(c)
  <2>1. /\ activations[target[c]] \in Calls /\ Submit(c, activations[target[c]])
        /\ cact' = [cact EXCEPT ![c] = activations[target[c]]]
        /\ UNCHANGED <<worker, turn>>
    BY <1>3 DEF InvokeHosted, workVars, TypeOK
  <2> QED
    BY <1>2, <2>1 DEF TypeOK
<1>4. CASE FinishLoad(c)
  BY <1>1, <1>4 DEF FinishLoad, Fresh
<1>5. CASE HookReturns(c) /\ Submit(c, cact[c])
  <2>1. cact[c] \in Calls /\ UNCHANGED <<worker, turn, cact>>
    BY <1>5 DEF HookReturns, Held, workVars
  <2> QED
    BY <1>2, <1>5, <2>1
<1>6. CASE PutCall(c)
  <2>1. PICK a \in Calls : a = cact[c]
    BY <1>6 DEF PutCall, Held
  <2>2. /\ inbox' = [inbox EXCEPT ![a] = Append(@, <<c, "call">>)]
        /\ UNCHANGED <<worker, turn, cact, fut>>
        /\ \A b \in Calls : b # c => cpc'[b] = cpc[b]
    BY <1>6, <2>1 DEF PutCall, workVars, TypeOK
  <2>3. inbox'[a] = Append(inbox[a], <<c, "call">>)
    BY <2>2 DEF TypeOK
  <2>4. \A b, e \in Calls : Accounted(b, e) => Accounted(b, e)'
    <3>1. \A e \in Calls : inbox'[e] = inbox[e] \/ inbox'[e] = Append(inbox[e], <<c, "call">>)
      BY <2>2 DEF TypeOK
    <3> QED
      BY <2>2, <3>1, GrowthKeeps, ItemFacts
  <2>5. Accounted(c, a)'
    BY <2>3, QueuedCall
  <2> QED
    BY <2>1, <2>2, <2>4, <2>5, WaitFrame
<1>7. ASSUME UNCHANGED <<inbox, worker, turn>>, cpc'[c] # "waiting",
             \A b \in Calls : b # c =>
                /\ cpc'[b] = cpc[b] /\ cact'[b] = cact[b]
                /\ fut'[<<b, "call">>] = "pending" => fut[<<b, "call">>] = "pending"
      PROVE  WaitingIsAccountedFor'
  <2>1. \A b, e \in Calls : Accounted(b, e) => Accounted(b, e)'
    BY <1>7 DEF Accounted
  <2> QED
    BY <1>7, <2>1, WaitFrame
<1>8. CASE InvokeActivate(c)
  <2>1. CASE ReadSuspends
    BY <1>7, <1>8, <2>1 DEF InvokeActivate, workVars, TypeOK
  <2> QED
    BY <1>1, <1>8, <2>1 DEF InvokeActivate, Fresh
<1>9. CASE ActivationFails(c) \/ Receive(c)
  BY <1>7, <1>9 DEF ActivationFails, Receive, workVars, TypeOK
<1>10. CASE CancelCaller(c)
  <2>1. \A b \in Calls : b # c => fut'[<<b, "call">>] = fut[<<b, "call">>]
    BY <1>10, ItemFacts DEF CancelCaller
  <2> QED
    BY <1>7, <1>10, <2>1 DEF CancelCaller, workVars, TypeOK
<1>11. CASE HookReturns(c) /\ ~Submit(c, cact[c])
  BY <1>7, <1>11 DEF HookReturns, workVars, TypeOK
<1> QED
  BY <1>3, <1>4, <1>5, <1>6, <1>8, <1>9, <1>10, <1>11 DEF CallStep

\* Every step keeps the invariant behind WaitingIsAccountedFor and OnActivateFirst.
LEMMA QueueStep == QueueInv /\ [Next]_vars => QueueInv'
<1> SUFFICES ASSUME QueueInv, [Next]_vars PROVE QueueInv'
  OBVIOUS
<1> ReapInv /\ TypeOK /\ Fresh /\ Held /\ TurnsAreBusy /\ WaitingIsAccountedFor /\ OnActivateFirst
  BY DEF QueueInv, ReapInv
<1>1. WaitingIsAccountedFor'
  BY WorkerForgetsNoCall, TasksForgetNoCall, CallersAreAccountedFor DEF Next
<1> QED
  BY <1>1, ReapStep, TurnsStep, HookStaysFirst DEF QueueInv

\* The initial states satisfy the invariant behind both properties.
LEMMA QueueInit == Init => QueueInv
BY ReapInit
   DEF Init, QueueInv, TurnsAreBusy, WaitingIsAccountedFor, OnActivateFirst

\* A caller that waits has its call in the inbox or the turn of the activation
\* it holds, or was answered, or the shutdown timeout cancelled the worker: the
\* worker loop forgets no call, in whatever order the calls, the sentinels and
\* the cancellations come.
THEOREM WaitersAreAccountedFor == Spec => []WaitingIsAccountedFor
<1>1. QueueInv => WaitingIsAccountedFor
  BY DEF QueueInv
<1> QED
  BY <1>1, QueueInit, QueueStep, PTL DEF Spec

\* on_activate is the first turn of every activation, however many callers find
\* the activation published before the hook has run.
THEOREM HookComesFirst == Spec => []OnActivateFirst
<1>1. QueueInv => OnActivateFirst
  BY DEF QueueInv
<1> QED
  BY <1>1, QueueInit, QueueStep, PTL DEF Spec
=============================================================================

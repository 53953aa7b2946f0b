---------------------------- MODULE SiloLifecycle ----------------------------
(***************************************************************************)
(* The staged start, rollback and stop of a silo (lifecycle.py, silo.py).  *)
(* The participants of a stage start and stop together, as tasks; any of   *)
(* them may fail or hang.                                                  *)
(***************************************************************************)
EXTENDS Naturals, FiniteSets

CONSTANTS
  Participants,
  StageOf,      \* the stage of each participant, 1..LastStage
  LastStage,
  Registrar     \* the participant that registers the silo in the membership table

ASSUME LifecycleAssumption ==
  /\ IsFiniteSet(Participants)
  /\ LastStage \in Nat \ {0}
  /\ StageOf \in [Participants -> 1..LastStage]
  /\ Registrar \in Participants

VARIABLES
  engine,   \* "new", "starting", "rolling", "aborted", "up", "stopping", "stopped"
  level,    \* the stage being started or stopped
  part,     \* what each participant is doing
  row       \* the silo has a row in the membership table

lifeVars == <<engine, level, part, row>>

InStage(k) == {p \in Participants : StageOf[p] = k}
Set(P, what) == [p \in Participants |-> IF p \in P THEN what ELSE part[p]]
Busy(k, what) == {p \in InStage(k) : part[p] = what}

LifeInit ==
  /\ engine = "new"
  /\ level = 1
  /\ part = [p \in Participants |-> "off"]
  /\ row = FALSE
-----------------------------------------------------------------------------
(* start().                                                                *)

LifeStart ==
  /\ engine = "new"
  /\ engine' = "starting"
  /\ part' = Set(InStage(1), "starting")
  /\ UNCHANGED <<level, row>>

\* on_start of a participant returns, also if its stage has failed meanwhile: gather
\* leaves the siblings of a participant that raised running.
Started(p) ==
  /\ part[p] = "starting"
  /\ part' = Set({p}, "on")
  /\ row' = (row \/ p = Registrar)
  /\ UNCHANGED <<engine, level>>

StageStarted ==
  /\ engine = "starting"
  /\ Busy(level, "on") = InStage(level)
  /\ IF level = LastStage
     THEN engine' = "up" /\ UNCHANGED <<level, part>>
     ELSE /\ level' = level + 1
          /\ part' = Set(InStage(level + 1), "starting")
          /\ UNCHANGED engine
  /\ UNCHANGED row

\* Stage k is stopped next, or all are.
StopFrom(k, others) ==
  /\ level' = k
  /\ part' = [p \in Participants |-> IF StageOf[p] = k THEN "stopping" ELSE others[p]]

\* The first participant of a stage that raises makes the engine roll back the stages
\* that were completed before.
StartFails(p) ==
  /\ part[p] = "starting"
  /\ IF engine = "starting"
     THEN engine' = "rolling" /\ StopFrom(level - 1, Set({p}, "failed"))
     ELSE part' = Set({p}, "failed") /\ UNCHANGED <<engine, level>>
  /\ UNCHANGED row

\* The stage takes too long: wait_for cancels those that are still starting.
StageStartTimeout ==
  /\ engine = "starting"
  /\ Busy(level, "starting") # {}
  /\ engine' = "rolling"
  /\ StopFrom(level - 1, Set(Busy(level, "starting"), "failed"))
  /\ UNCHANGED row
-----------------------------------------------------------------------------
(* stop() and rollback.                                                    *)

\* Mutated: the stages are stopped in the order in which they were started.
LifeStop_Ascending ==
  /\ engine = "up"
  /\ engine' = "stopping"
  /\ StopFrom(1, part)
  /\ UNCHANGED row

\* Silo.stop, by a signal, a caller or the membership agent.  It returns at once while
\* the silo is still starting.
LifeStop ==
  /\ engine = "up"
  /\ engine' = "stopping"
  /\ StopFrom(LastStage, part)
  /\ UNCHANGED row

\* on_stop returns, or raises, which is logged.
Stopped(p) ==
  /\ part[p] = "stopping"
  /\ part' = Set({p}, "off")
  /\ UNCHANGED <<engine, level, row>>

\* Mutated: a stage below the first that hangs is not stopped.
StageStopped_Skips ==
  /\ engine \in {"stopping", "rolling"}
  /\ level > 0
  /\ Busy(level, "stopping") = {}
  /\ StopFrom(IF level > 1 THEN level - 2 ELSE 0, part)
  /\ UNCHANGED <<engine, row>>

StageStopped ==
  /\ engine \in {"stopping", "rolling"}
  /\ level > 0
  /\ Busy(level, "stopping") = {}
  /\ StopFrom(level - 1, part)
  /\ UNCHANGED <<engine, row>>

\* A stage that hangs is cancelled and the engine goes on.
StageStopTimeout ==
  /\ engine \in {"stopping", "rolling"}
  /\ Busy(level, "stopping") # {}
  /\ StopFrom(level - 1, Set(Busy(level, "stopping"), "cut"))
  /\ UNCHANGED <<engine, row>>

\* Silo.stop then removes the row, if the table lets it; a start that was rolled back
\* raises and does nothing more.
LifeEnd ==
  /\ level = 0
  /\ \/ engine = "stopping" /\ engine' = "stopped" /\ row' \in {FALSE, row}
     \/ engine = "rolling" /\ engine' = "aborted" /\ UNCHANGED row
  /\ UNCHANGED <<level, part>>
-----------------------------------------------------------------------------
LifeNext ==
  \/ LifeStart \/ StageStarted \/ StageStartTimeout
  \/ LifeStop \/ StageStopped \/ StageStopTimeout \/ LifeEnd
  \/ \E p \in Participants : Started(p) \/ StartFails(p) \/ Stopped(p)

LifeSpec == LifeInit /\ [][LifeNext]_lifeVars
-----------------------------------------------------------------------------
\* The siblings of a participant whose start failed or was cut are on their own: their
\* stage was not completed, and only completed stages are rolled back.
Orphaned(p) == \E q \in InStage(StageOf[p]) : part[q] = "failed"

\* A participant runs, starts and stops only while everything of the stages below is on:
\* the runtime deactivates its grains over a live transport, the gateway accepts calls
\* only of a silo that is up, whatever failed or hung before (_rollback_from_failure).
ServicesOutliveUsers ==
  \A p, q \in Participants :
    /\ StageOf[q] < StageOf[p]
    /\ part[p] \in {"starting", "on", "stopping"}
    /\ ~Orphaned(p)
    => part[q] = "on"

\* When the engine is done nothing that was started goes on, whatever failed.
NothingIsLeftOn ==
  engine \in {"stopped", "aborted"} =>
    \A p \in Participants : part[p] \in {"starting", "on"} => Orphaned(p)

\* lifecycle.py says that a failed start cancels the rest of its stage; it does not.
FailedStageIsCancelled ==
  engine \in {"rolling", "aborted"} => \A p \in Participants : part[p] # "starting"

\* The wiring's review says that a failed start rolls back the registration; it does not.
FailedStartUnregisters == engine = "aborted" => ~row
=============================================================================

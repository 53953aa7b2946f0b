------------------------------ MODULE MCSystem ------------------------------
(* The components that are small enough to be checked in one run.  They do not *)
(* interact here: one of them runs, from its own initial states, and the       *)
(* others rest where nothing of theirs is under way.                           *)
EXTENDS RingChanges, ConnectionManager, SnapshotSpread, SiloLifecycle,
        MembershipTable, ClusterClient, GrainState, MemoryStream

CONSTANTS l1, l2, l3
MCDialler == [l \in Links |-> IF l = l1 THEN 1 ELSE 2]

CONSTANTS register, cluster, runtime, services, agent, gateway
MCStageOf == [p \in Participants |-> CASE p = register -> 1 [] p = cluster -> 2
                [] p \in {runtime, services} -> 3 [] p = agent -> 4 [] p = gateway -> 5]

CONSTANT Components
VARIABLE runs   \* the component that runs

sysVars == <<runs, ringVars, mgrVars, spreadVars, lifeVars, tableVars, clientVars,
             stateVars, streamVars>>

\* A component that rests and has several initial states is in one of them; no silo runs
\* where snapshots do not spread.
Rests(name) == runs # name
SysInit ==
  /\ runs \in Components
  /\ IF Rests("ring") THEN vnodes = [s \in RingSilos |-> {s}] /\ members = RingSilos /\ was = RingSilos
                        ELSE RingInit
  /\ MgrInit /\ LifeInit /\ StreamInit
  /\ IF Rests("spread") THEN /\ views = <<{}>> /\ alive = {} /\ casts = {} /\ losses = 0
                               /\ last = [s \in Nodes |-> 0] /\ ringOf = [s \in Nodes |-> 1]
                          ELSE SpreadInit
  /\ TableInit /\ (Rests("table") => store = "file")
  /\ ClientInit
  /\ StateInit /\ (Rests("state") => keeper = "file")

Ring == runs = "ring" /\ RingNext
  /\ UNCHANGED <<runs, mgrVars, spreadVars, lifeVars, tableVars, clientVars, stateVars, streamVars>>
Mgr == runs = "manager" /\ MgrNext
  /\ UNCHANGED <<runs, ringVars, spreadVars, lifeVars, tableVars, clientVars, stateVars, streamVars>>
Spread == runs = "spread" /\ SpreadNext
  /\ UNCHANGED <<runs, ringVars, mgrVars, lifeVars, tableVars, clientVars, stateVars, streamVars>>
Life == runs = "lifecycle" /\ LifeNext
  /\ UNCHANGED <<runs, ringVars, mgrVars, spreadVars, tableVars, clientVars, stateVars, streamVars>>
Table == runs = "table" /\ TableNext
  /\ UNCHANGED <<runs, ringVars, mgrVars, spreadVars, lifeVars, clientVars, stateVars, streamVars>>
Client == runs = "client" /\ ClientNext
  /\ UNCHANGED <<runs, ringVars, mgrVars, spreadVars, lifeVars, tableVars, stateVars, streamVars>>
State == runs = "state" /\ StateNext
  /\ UNCHANGED <<runs, ringVars, mgrVars, spreadVars, lifeVars, tableVars, clientVars, streamVars>>
Stream == runs = "stream" /\ StreamNext
  /\ UNCHANGED <<runs, ringVars, mgrVars, spreadVars, lifeVars, tableVars, clientVars, stateVars>>

SysNext == Ring \/ Mgr \/ Spread \/ Life \/ Table \/ Client \/ State \/ Stream

\* A component that rests has none of its fair actions enabled.
SysSpec ==
  /\ SysInit /\ [][SysNext]_sysVars
  /\ MgrFairness /\ SpreadFairness /\ ClientFairness
=============================================================================

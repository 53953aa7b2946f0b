--------------------------- MODULE SnapshotSpread ---------------------------
(***************************************************************************)
(* How a change of the membership table reaches the rings of the silos     *)
(* (membership_agent.py, _on_snapshot_received of silo.py).  The table is  *)
(* the list of its versions; a version stands for the silos it shows as    *)
(* joining or active.  Membership is how the table comes to change.        *)
(***************************************************************************)
EXTENDS Naturals, Sequences, FiniteSets

CONSTANTS
  Nodes,        \* the silos of the table
  Late,         \* those that are not in its first version
  ReadsSuspend, \* TRUE iff a read may return what is out of date when it returns
  MaxVersion,   \* bound on table versions
  MaxCrashes,   \* bound on crashes
  MaxLosses     \* bound on broadcasts that are lost

ASSUME SpreadAssumption ==
  /\ IsFiniteSet(Nodes)
  /\ Late \subseteq Nodes
  /\ ReadsSuspend \in BOOLEAN
  /\ MaxVersion \in Nat \ {0}
  /\ {MaxCrashes, MaxLosses} \subseteq Nat

VARIABLES
  views,   \* the versions of the table
  alive,   \* the silos that run
  last,    \* the version of _last_snapshot, 0 for None
  ringOf,  \* the version the ring was built from
  casts,   \* snapshots on their way: <<receiver, version>>
  losses   \* broadcasts lost so far

spreadVars == <<views, alive, last, ringOf, casts, losses>>

SpreadInit ==
  /\ views = <<Nodes \ Late>>
  /\ alive = Nodes \ Late
  /\ last = [s \in Nodes |-> 0]
  /\ ringOf = [s \in Nodes |-> 1]
  /\ casts = {}
  /\ losses = 0

Version == Len(views)
Now == views[Version]
\* read_all: the table as it is, or as it was while the read was suspended.
ReadAll == IF ReadsSuspend THEN 1..Version ELSE {Version}

\* _broadcast_snapshot: what silo s reads becomes its cached snapshot and goes to every
\* connected peer, best effort.  Its own ring stays as it is.
Broadcast(s, v) ==
  /\ last' = [last EXCEPT ![s] = v]
  /\ casts' = casts \union {<<t, v>> : t \in alive \ {s}}

\* _on_start_cluster: a silo joins with the ring of the table it reads.
JoinTable(s) ==
  /\ s \in Late \ alive
  /\ s \notin Now
  /\ last[s] = 0
  /\ Version < MaxVersion
  /\ views' = Append(views, Now \union {s})
  /\ alive' = alive \union {s}
  /\ ringOf' = [ringOf EXCEPT ![s] = Version + 1]
  /\ last' = [last EXCEPT ![s] = Version + 1]
  /\ UNCHANGED <<casts, losses>>

\* _do_probe_cycle declares a silo DEAD and then broadcasts.  Only crashed silos and one
\* that is cut off are ever declared.
DeclareDead(s, t) ==
  /\ s \in alive
  /\ t \in Now \ alive
  /\ Version < MaxVersion
  /\ views' = Append(views, Now \ {t})
  /\ \E v \in ReadAll \union {Version + 1} : Broadcast(s, v)
  /\ UNCHANGED <<alive, ringOf, losses>>

\* _write_i_am_alive: a new version with the same silos, then a broadcast.
Beat(s) ==
  /\ s \in alive
  /\ views' = IF Version < MaxVersion - 1 THEN Append(views, Now) ELSE views
  /\ \E v \in ReadAll \union {Len(views')} :
       /\ ReadsSuspend \/ v = Len(views')
       /\ Broadcast(s, v)
  /\ UNCHANGED <<alive, ringOf, losses>>

\* _table_poll_loop and the read of _do_probe_cycle: the cached snapshot is replaced, the
\* silo is not told.
Poll(s) ==
  /\ s \in alive
  /\ \E v \in ReadAll : last' = [last EXCEPT ![s] = v]
  /\ UNCHANGED <<views, alive, ringOf, casts, losses>>

\* Mutated: a snapshot is applied whatever its version.
Apply_Always(s, v) ==
  /\ <<s, v>> \in casts
  /\ s \in alive
  /\ casts' = casts \ {<<s, v>>}
  /\ last' = [last EXCEPT ![s] = v]
  /\ ringOf' = [ringOf EXCEPT ![s] = v]
  /\ UNCHANGED <<views, alive, losses>>

\* Mutated: the silo is told of newer versions only, and polls have cached the newest.
Apply_Newer(s, v) ==
  /\ <<s, v>> \in casts
  /\ s \in alive
  /\ casts' = casts \ {<<s, v>>}
  /\ IF v <= last[s] THEN UNCHANGED <<last, ringOf>>
     ELSE /\ last' = [last EXCEPT ![s] = v]
          /\ ringOf' = [ringOf EXCEPT ![s] = v]
  /\ UNCHANGED <<views, alive, losses>>

\* _apply_snapshot: an older version than the cached one is ignored, another one is cached
\* and becomes the ring (_on_snapshot_received, _active_silos).
Apply(s, v) ==
  /\ <<s, v>> \in casts
  /\ s \in alive
  /\ casts' = casts \ {<<s, v>>}
  /\ IF v < last[s] THEN UNCHANGED <<last, ringOf>>
     ELSE /\ last' = [last EXCEPT ![s] = v]
          /\ ringOf' = [ringOf EXCEPT ![s] = v]
  /\ UNCHANGED <<views, alive, losses>>

\* Broadcasts are best effort.
CastLost(s, v) ==
  /\ <<s, v>> \in casts
  /\ losses < MaxLosses
  /\ losses' = losses + 1
  /\ casts' = casts \ {<<s, v>>}
  /\ UNCHANGED <<views, alive, last, ringOf>>

NodeCrash(s) ==
  /\ s \in alive
  /\ Cardinality(Now \ alive) < MaxCrashes
  /\ Cardinality(alive) > 1
  /\ alive' = alive \ {s}
  /\ UNCHANGED <<views, last, ringOf, casts, losses>>
-----------------------------------------------------------------------------
SpreadNext ==
  \/ \E s \in Nodes : JoinTable(s) \/ Beat(s) \/ Poll(s) \/ NodeCrash(s)
  \/ \E s, t \in Nodes : DeclareDead(s, t)
  \/ \E s \in Nodes, v \in 1..Version : Apply(s, v) \/ CastLost(s, v)

SpreadSpec == SpreadInit /\ [][SpreadNext]_spreadVars

\* Every silo beats for ever, a crash is declared, and a broadcast that is not lost
\* arrives.
SpreadFairness ==
  \A s \in Nodes : /\ WF_spreadVars(Beat(s))
                   /\ WF_spreadVars(\E t \in Nodes : DeclareDead(t, s))
                   /\ WF_spreadVars(Apply(s, Version))
SpreadFairSpec == SpreadSpec /\ SpreadFairness
-----------------------------------------------------------------------------
\* A ring never goes back to an older membership: broadcasts arrive in any order and
\* polls intervene (_apply_snapshot's gate).  It holds while reads do not suspend.
RingNeverGoesBack == [][\A s \in Nodes : s \in alive => ringOf'[s] >= ringOf[s]]_spreadVars

\* A change of the table reaches the ring of every silo that has company, by broadcasts
\* alone: polls renew the cached snapshot but not the ring (_apply_snapshot).
RingIsNow(s) == views[ringOf[s]] = Now
RingCatchesUpInCompany ==
  \A s \in Nodes : ~RingIsNow(s) ~> RingIsNow(s) \/ s \notin alive \/ alive = {s}

\* The same for every silo.  It fails: one that is left alone hears no broadcast.
RingCatchesUp == \A s \in Nodes : ~RingIsNow(s) ~> RingIsNow(s) \/ s \notin alive
=============================================================================

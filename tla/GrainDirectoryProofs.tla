------------------------ MODULE GrainDirectoryProofs ------------------------
(***************************************************************************)
(* Proofs about GrainDirectory, for every set of silos, grains and calls,  *)
(* every ring and any number of membership changes and deactivations.      *)
(***************************************************************************)
EXTENDS GrainDirectory, HashRingProofs

Records == [silo : Silos \union {NoOwner}, epoch : Nat]

\* A rebuild's arcs are left open; the rest of it is typed.
RebuildOK ==
  /\ rebuild = [s \in Silos |-> rebuild[s]]
  /\ \A s \in Silos : rebuild[s].found \subseteq Grains \X Silos

\* What the steps need to know of the state, without where messages are sent to.
DirTypes ==
  /\ up \subseteq Silos
  /\ ring \in [Silos -> SUBSET Silos]
  /\ owned \in [Silos -> [Grains -> Records]]
  /\ epoch \in [Silos -> Nat]
  /\ cache \in [Silos -> [Grains -> Records]]
  /\ hosted \in [Silos -> SUBSET Grains]
  /\ RebuildOK
  /\ \A m \in net : m.grain \in Grains /\ m.entry \in Records
  /\ from \in [Calls -> Callers]
  /\ grain \in [Calls -> Grains]
  /\ entry \in [Calls -> Records]
  /\ changes \in Nat /\ deactivations \in Nat

\* The cache of a silo forgets a grain.
LEMMA ForgetTyped ==
  ASSUME NEW f \in [Silos -> [Grains -> Records]], NEW s, NEW g
  PROVE  /\ None \in Records
         /\ [f EXCEPT ![s][g] = None] \in [Silos -> [Grains -> Records]]
<1>1. None \in Records
  BY DEF None, Records
<1>2. ASSUME NEW h \in [Grains -> Records] PROVE [h EXCEPT ![g] = None] \in [Grains -> Records]
  BY <1>1
<1>3. CASE s \in Silos
  BY <1>1, <1>2, <1>3
<1>4. CASE s \notin Silos
  BY <1>1, <1>4
<1> QED
  BY <1>1, <1>3, <1>4

\* A set of silos has a smallest one.
LEMMA SmallestSilo ==
  ASSUME NEW S, S \subseteq Silos, S # {}
  PROVE  \E p \in S : \A q \in S : p <= q
<1>1. S \subseteq Nat
  BY DirectoryAssumption
<1> QED
  BY <1>1, SmallestNat

\* The entries that a resolve may return are records of silos.
LEMMA AnswersTyped ==
  ASSUME DirTypes, NEW o \in Silos, NEW s \in Silos, NEW g \in Grains,
         NEW e \in Answers(o, s, g), ResolveAt(o, s, g, e)
  PROVE  /\ e \in Records
         /\ owned' \in [Silos -> [Grains -> Records]]
         /\ epoch' \in [Silos -> Nat]
         /\ EpochCoversEntries => EpochCoversEntries'
<1>1. CASE owned[o][g] # None
  <2>1. e = owned[o][g] /\ UNCHANGED <<owned, epoch>>
    BY <1>1 DEF ResolveAt
  <2> QED
    BY <2>1 DEF DirTypes, EpochCoversEntries
<1>2. CASE owned[o][g] = None
  <2>1. PICK chosen \in PickSilo(s, ring[o]) :
          /\ e = Entry(chosen, epoch[o] + 1)
          /\ owned' = [owned EXCEPT ![o][g] = e]
          /\ epoch' = [epoch EXCEPT ![o] = @ + 1]
    BY <1>2 DEF ResolveAt
  <2>2. chosen \in Silos
    BY DEF PickSilo, DirTypes
  <2>3. e \in Records /\ e.epoch = epoch[o] + 1
    BY <2>1, <2>2 DEF Entry, Records, DirTypes
  <2>4. /\ owned' \in [Silos -> [Grains -> Records]]
        /\ epoch' \in [Silos -> Nat]
    BY <2>1, <2>3 DEF DirTypes
  <2>5. \A t \in Silos, h \in Grains :
          owned'[t][h] = IF t = o /\ h = g THEN e ELSE owned[t][h]
    BY <2>1 DEF DirTypes
  <2>6. EpochCoversEntries => EpochCoversEntries'
    BY <2>1, <2>3, <2>5 DEF EpochCoversEntries, DirTypes, Records
  <2> QED
    BY <2>3, <2>4, <2>6
<1> QED
  BY <1>1, <1>2

\* The part of a silo in Route: it may activate the grain.
LEMMA RouteTyped ==
  ASSUME DirTypes, NEW c \in Calls, NEW s \in Silos, NEW g \in Grains, NEW e \in Records,
         Route(c, s, g, e)
  PROVE  entry' \in [Calls -> Records] /\ hosted' \in [Silos -> SUBSET Grains]
<1>1. [hosted EXCEPT ![s] = @ \union {g}] \in [Silos -> SUBSET Grains]
  BY DEF DirTypes
<1> QED
  BY <1>1 DEF Route, DirTypes

\* The part of a silo in resolve_or_activate.
LEMMA ResolveTyped ==
  ASSUME DirTypes, NEW c \in Calls, NEW s \in Silos, NEW g \in Grains, ResolveFrom(c, s, g)
  PROVE  /\ owned' \in [Silos -> [Grains -> Records]]
         /\ epoch' \in [Silos -> Nat]
         /\ cache' \in [Silos -> [Grains -> Records]]
         /\ entry' \in [Calls -> Records]
         /\ hosted' \in [Silos -> SUBSET Grains]
         /\ EpochCoversEntries => EpochCoversEntries'
<1>1. CASE cache[s][g] # None /\ Route(c, s, g, cache[s][g]) /\ UNCHANGED <<owned, epoch, cache>>
  <2>1. cache[s][g] \in Records
    BY DEF DirTypes
  <2> QED
    BY <1>1, <2>1, RouteTyped DEF DirTypes, EpochCoversEntries
<1>2. ASSUME NEW e \in Answers(s, s, g), ResolveAt(s, s, g, e), Route(c, s, g, e),
             cache' = [cache EXCEPT ![s][g] = e]
      PROVE  /\ owned' \in [Silos -> [Grains -> Records]]
             /\ epoch' \in [Silos -> Nat]
             /\ cache' \in [Silos -> [Grains -> Records]]
             /\ entry' \in [Calls -> Records]
             /\ hosted' \in [Silos -> SUBSET Grains]
             /\ EpochCoversEntries => EpochCoversEntries'
  <2>1. /\ e \in Records
        /\ owned' \in [Silos -> [Grains -> Records]]
        /\ epoch' \in [Silos -> Nat]
        /\ EpochCoversEntries => EpochCoversEntries'
    BY <1>2, AnswersTyped
  <2>2. entry' \in [Calls -> Records] /\ hosted' \in [Silos -> SUBSET Grains]
    BY <1>2, <2>1, RouteTyped
  <2>3. cache' \in [Silos -> [Grains -> Records]]
    BY <1>2, <2>1 DEF DirTypes
  <2> QED
    BY <2>1, <2>2, <2>3
<1>3. CASE UNCHANGED <<owned, epoch, cache, entry, hosted>>
  BY <1>3 DEF DirTypes, EpochCoversEntries
<1> QED
  BY <1>1, <1>2, <1>3 DEF ResolveFrom

\* The steps of a call.
LEMMA CallTyped ==
  ASSUME DirTypes, EpochCoversEntries, NEW c \in Calls, CallStep(c)
  PROVE  DirTypes' /\ EpochCoversEntries'
<1>1. from[c] \in Silos /\ grain[c] \in Grains
  BY DirectoryAssumption DEF DirTypes
<1>2. CASE Invoke(c) \/ Retry(c)
  <2>1. /\ ResolveFrom(c, from[c], grain[c])
        /\ UNCHANGED <<up, ring, rebuild, net, from, grain, counts>>
    BY <1>2 DEF Invoke, Retry
  <2>2. /\ owned' \in [Silos -> [Grains -> Records]]
        /\ epoch' \in [Silos -> Nat]
        /\ cache' \in [Silos -> [Grains -> Records]]
        /\ entry' \in [Calls -> Records]
        /\ hosted' \in [Silos -> SUBSET Grains]
        /\ EpochCoversEntries'
    BY <1>1, <2>1, ResolveTyped
  <2> QED
    BY <2>1, <2>2 DEF DirTypes, RebuildOK, counts
<1>3. CASE ServeResolve(c)
  <2>1. asked[c] \in Silos
    BY <1>3 DEF ServeResolve, DirTypes
  <2>2. PICK e \in Answers(asked[c], from[c], grain[c]) :
          /\ ResolveAt(asked[c], from[c], grain[c], e)
          /\ entry' = [entry EXCEPT ![c] = e]
    BY <1>3 DEF ServeResolve
  <2>3. /\ e \in Records
        /\ owned' \in [Silos -> [Grains -> Records]]
        /\ epoch' \in [Silos -> Nat]
        /\ EpochCoversEntries'
    BY <1>1, <2>1, <2>2, AnswersTyped
  <2>4. entry' \in [Calls -> Records]
    BY <2>2, <2>3 DEF DirTypes
  <2>5. UNCHANGED <<up, ring, cache, rebuild, hosted, net, from, grain, counts>>
    BY <1>3 DEF ServeResolve
  <2> QED
    BY <2>3, <2>4, <2>5 DEF DirTypes, RebuildOK, counts
<1>4. CASE ReceiveEntry(c)
  <2>1. entry[c] \in Records
    BY DEF DirTypes
  <2>2. entry' \in [Calls -> Records] /\ hosted' \in [Silos -> SUBSET Grains]
    BY <1>1, <1>4, <2>1, RouteTyped DEF ReceiveEntry
  <2>3. cache' \in [Silos -> [Grains -> Records]]
    BY <1>1, <1>4, <2>1 DEF ReceiveEntry, DirTypes
  <2>4. UNCHANGED <<up, ring, owned, epoch, rebuild, net, from, grain, counts>>
    BY <1>4 DEF ReceiveEntry
  <2> QED
    BY <2>2, <2>3, <2>4 DEF DirTypes, RebuildOK, counts, EpochCoversEntries
<1>5. CASE Run(c)
  <2>1. entry[c].silo \in Silos
    BY <1>5 DEF Run, DirTypes
  <2>2. hosted' \in [Silos -> SUBSET Grains]
    BY <1>1, <1>5, <2>1 DEF Run, DirTypes
  <2>3. UNCHANGED <<up, parts, net, from, grain, entry, counts>>
    BY <1>5 DEF Run
  <2> QED
    BY <2>2, <2>3 DEF DirTypes, RebuildOK, parts, counts, EpochCoversEntries
<1>6. CASE ConnectionError(c)
  <2>1. cache' = cache \/ cache' = [cache EXCEPT ![from[c]][grain[c]] = None]
    BY <1>6 DEF ConnectionError
  <2>2. cache \in [Silos -> [Grains -> Records]]
    BY DEF DirTypes
  <2>4. [cache EXCEPT ![from[c]][grain[c]] = None] \in [Silos -> [Grains -> Records]]
    BY <2>2, ForgetTyped
  <2>5. cache' \in [Silos -> [Grains -> Records]]
    BY <2>1, <2>2, <2>4
  <2>3. UNCHANGED <<up, ring, owned, epoch, rebuild, hosted, net, from, grain, entry, counts>>
    BY <1>6 DEF ConnectionError
  <2> QED
    BY <2>3, <2>5 DEF DirTypes, RebuildOK, counts, EpochCoversEntries
<1>7. CASE ResolveFails(c) \/ AbandonedLost(c) \/ Unreachable(c) \/ DeadlinePasses(c)
  <2>1. UNCHANGED <<up, parts, hosted, net, from, grain, entry, counts>>
    BY <1>7 DEF ResolveFails, AbandonedLost, Unreachable, DeadlinePasses
  <2> QED
    BY <2>1 DEF DirTypes, RebuildOK, parts, counts, EpochCoversEntries
<1> QED
  BY <1>2, <1>3, <1>4, <1>5, <1>6, <1>7 DEF CallStep

\* _unregister_local.
LEMMA UnregisterTyped ==
  ASSUME DirTypes, EpochCoversEntries, NEW o, NEW s, NEW g, UnregisterAt(o, s, g),
         epoch' = epoch
  PROVE  owned' \in [Silos -> [Grains -> Records]] /\ EpochCoversEntries'
<1>1. [owned EXCEPT ![o][g] = None] \in [Silos -> [Grains -> Records]]
  BY ForgetTyped DEF DirTypes
<1>2. owned' = owned \/ owned' = [owned EXCEPT ![o][g] = None]
  BY DEF UnregisterAt
<1>3. None.epoch = 0
  BY DEF None
<1>4. ASSUME NEW t \in Silos, NEW h \in Grains
      PROVE  owned'[t][h] = owned[t][h] \/ owned'[t][h] = None
  <2> USE DEF DirTypes
  <2>1. CASE owned' = [owned EXCEPT ![o][g] = None] /\ t = o /\ h = g
    BY <2>1
  <2>2. CASE owned' = [owned EXCEPT ![o][g] = None] /\ t = o /\ h # g
    BY <2>2
  <2>3. CASE owned' = [owned EXCEPT ![o][g] = None] /\ t # o
    BY <2>3
  <2> QED
    BY <1>2, <2>1, <2>2, <2>3
<1>5. ASSUME NEW t \in Silos, NEW h \in Grains PROVE owned'[t][h].epoch <= epoch'[t]
  <2>1. owned[t][h].epoch <= epoch[t] /\ epoch[t] \in Nat
    BY DEF EpochCoversEntries, DirTypes
  <2>2. CASE owned'[t][h] = owned[t][h]
    BY <2>1, <2>2
  <2>3. CASE owned'[t][h] = None
    BY <1>3, <2>1, <2>3
  <2> QED
    BY <1>4, <2>2, <2>3
<1> QED
  BY <1>1, <1>2, <1>5 DEF DirTypes, EpochCoversEntries

\* The end of a deactivation.
LEMMA StandDownTyped ==
  ASSUME DirTypes, EpochCoversEntries, NEW s \in Silos, NEW g \in Grains,
         NEW rest, rest \subseteq net, StandDown(s, g, rest), epoch' = epoch
  PROVE  /\ owned' \in [Silos -> [Grains -> Records]]
         /\ cache' \in [Silos -> [Grains -> Records]]
         /\ hosted' \in [Silos -> SUBSET Grains]
         /\ \A m \in net' : m.grain \in Grains /\ m.entry \in Records
         /\ EpochCoversEntries'
<1>1. hosted' \in [Silos -> SUBSET Grains]
  BY DEF StandDown, DirTypes
<1>2. CASE Owner(g, ring[s]) = s
  <2>1. /\ UnregisterAt(s, s, g)
        /\ cache' = [cache EXCEPT ![s][g] = None]
        /\ net' = rest
    BY <1>2 DEF StandDown
  <2> QED
    BY <1>1, <2>1, UnregisterTyped, ForgetTyped DEF DirTypes
<1>3. CASE Owner(g, ring[s]) # s
  <2>1. /\ UNCHANGED <<owned, cache>>
        /\ \A m \in net' : m \in net \/ m = Unregister(Owner(g, ring[s]), g, s)
    BY <1>3 DEF StandDown
  <2>2. /\ Unregister(Owner(g, ring[s]), g, s).grain = g
        /\ Unregister(Owner(g, ring[s]), g, s).entry \in Records
    BY DEF Unregister, Entry, Records
  <2> QED
    BY <1>1, <2>1, <2>2 DEF DirTypes, EpochCoversEntries
<1> QED
  BY <1>2, <1>3

\* The steps that deactivate a grain or forget an entry.
LEMMA DeactivationTyped ==
  ASSUME DirTypes, EpochCoversEntries,
         \/ \E s \in Silos, g \in Grains : IdleDeactivate(s, g) \/ CacheDrops(s, g)
         \/ \E m \in net : ServeUnregister(m) \/ ApplyDeactivate(m) \/ MessageLost(m)
  PROVE  DirTypes' /\ EpochCoversEntries'
<1>1. ASSUME NEW s \in Silos, NEW g \in Grains, IdleDeactivate(s, g)
      PROVE  DirTypes' /\ EpochCoversEntries'
  <2>1. /\ StandDown(s, g, net) /\ epoch' = epoch
        /\ UNCHANGED <<up, ring, rebuild, from, grain, entry, changes>>
        /\ deactivations' = deactivations + 1
    BY <1>1 DEF IdleDeactivate, call
  <2> QED
    BY <2>1, StandDownTyped DEF DirTypes, RebuildOK
<1>2. ASSUME NEW s \in Silos, NEW g \in Grains, CacheDrops(s, g)
      PROVE  DirTypes' /\ EpochCoversEntries'
  <2>1. /\ cache' = [cache EXCEPT ![s][g] = None]
        /\ UNCHANGED <<up, ring, owned, epoch, rebuild, hosted, net, from, grain, entry, counts>>
    BY <1>2 DEF CacheDrops, call
  <2> QED
    BY <2>1, ForgetTyped DEF DirTypes, RebuildOK, EpochCoversEntries, counts
<1>3. ASSUME NEW m \in net, ServeUnregister(m)
      PROVE  DirTypes' /\ EpochCoversEntries'
  <2>1. /\ UnregisterAt(m.to, m.entry.silo, m.grain)
        /\ cache' = [cache EXCEPT ![m.entry.silo][m.grain] = None]
        /\ net' = net \ {m}
        /\ UNCHANGED <<up, ring, epoch, rebuild, hosted, from, grain, entry, counts>>
    BY <1>3 DEF ServeUnregister, call
  <2> QED
    BY <2>1, UnregisterTyped, ForgetTyped DEF DirTypes, RebuildOK, counts
<1>4. ASSUME NEW m \in net, ApplyDeactivate(m)
      PROVE  DirTypes' /\ EpochCoversEntries'
  <2>1. UNCHANGED <<up, ring, epoch, rebuild, from, grain, entry, counts>>
    BY <1>4 DEF ApplyDeactivate, call
  <2>2. CASE m.grain \in hosted[m.to]
    <3>1. m.to \in Silos /\ m.grain \in Grains /\ StandDown(m.to, m.grain, net \ {m})
      BY <1>4, <2>2 DEF ApplyDeactivate, DirTypes
    <3> QED
      BY <2>1, <3>1, StandDownTyped DEF DirTypes, RebuildOK, counts
  <2>3. CASE m.grain \notin hosted[m.to]
    <3>1. net' = net \ {m} /\ UNCHANGED <<hosted, owned, cache>>
      BY <1>4, <2>3 DEF ApplyDeactivate
    <3> QED
      BY <2>1, <3>1 DEF DirTypes, RebuildOK, EpochCoversEntries, counts
  <2> QED
    BY <2>2, <2>3
<1>5. ASSUME NEW m \in net, MessageLost(m)
      PROVE  DirTypes' /\ EpochCoversEntries'
  <2>1. /\ cache' = cache \/ cache' = [cache EXCEPT ![m.entry.silo][m.grain] = None]
        /\ net' = net \ {m}
        /\ UNCHANGED <<up, ring, owned, epoch, rebuild, hosted, from, grain, entry, counts>>
    BY <1>5 DEF MessageLost, call
  <2>2. cache \in [Silos -> [Grains -> Records]]
    BY DEF DirTypes
  <2>3. [cache EXCEPT ![m.entry.silo][m.grain] = None] \in [Silos -> [Grains -> Records]]
    BY <2>2, ForgetTyped
  <2>4. cache' \in [Silos -> [Grains -> Records]]
    BY <2>1, <2>2, <2>3
  <2> QED
    BY <2>1, <2>4 DEF DirTypes, RebuildOK, EpochCoversEntries, counts
<1> QED
  BY <1>1, <1>2, <1>3, <1>4, <1>5

\* Handoffs that a silo takes.
LEMMA HandoffTyped ==
  ASSUME DirTypes, EpochCoversEntries, NEW m \in net, ApplyHandoff(m)
  PROVE  DirTypes' /\ EpochCoversEntries'
<1> DEFINE o == m.to
           g == m.grain
           kept == owned[o][g]
           wins == kept = None \/ m.entry.epoch < kept.epoch
           loser == IF wins THEN kept ELSE m.entry
<1>1. /\ o \in Silos /\ g \in Grains /\ m.entry \in Records /\ kept \in Records
      /\ loser \in Records
  BY DEF ApplyHandoff, DirTypes
<1>2. UNCHANGED <<up, ring, cache, rebuild, hosted, from, grain, entry, counts>>
  BY DEF ApplyHandoff, call
<1>3. CASE net' = net \ {m} /\ UNCHANGED <<owned, epoch>>
  BY <1>2, <1>3 DEF DirTypes, RebuildOK, EpochCoversEntries, counts
<1>4. CASE /\ owned' = IF wins THEN [owned EXCEPT ![o][g] = m.entry] ELSE owned
           /\ epoch' = IF wins THEN [epoch EXCEPT ![o] = Bigger(@, m.entry.epoch)] ELSE epoch
           /\ net' = (net \ {m}) \union StandDownOrder(o, g, loser)
  <2>1. \A x \in net' : x \in net \/ x = Deactivate(loser.silo, g, loser)
    BY <1>4 DEF StandDownOrder
  <2>2. /\ Deactivate(loser.silo, g, loser).grain = g
        /\ Deactivate(loser.silo, g, loser).entry = loser
    BY DEF Deactivate
  <2>3. \A x \in net' : x.grain \in Grains /\ x.entry \in Records
    BY <1>1, <2>1, <2>2 DEF DirTypes
  <2>4. CASE wins
    <3>1. /\ owned' = [owned EXCEPT ![o][g] = m.entry]
          /\ epoch' = [epoch EXCEPT ![o] = Bigger(epoch[o], m.entry.epoch)]
      BY <1>4, <2>4
    <3>2. /\ Bigger(epoch[o], m.entry.epoch) \in Nat
          /\ epoch[o] <= Bigger(epoch[o], m.entry.epoch)
          /\ m.entry.epoch <= Bigger(epoch[o], m.entry.epoch)
      BY <1>1 DEF Bigger, DirTypes, Records
    <3>3. epoch' \in [Silos -> Nat] /\ owned' \in [Silos -> [Grains -> Records]]
      BY <1>1, <3>1, <3>2 DEF DirTypes
    <3>4. ASSUME NEW t \in Silos, NEW h \in Grains PROVE owned'[t][h].epoch <= epoch'[t]
      <4>1. /\ owned[t][h].epoch <= epoch[t]
            /\ epoch[t] \in Nat
            /\ owned[t][h].epoch \in Nat
        BY DEF EpochCoversEntries, DirTypes, Records
      <4>2. CASE t = o /\ h = g
        BY <1>1, <3>1, <3>2, <4>2 DEF DirTypes
      <4>3. CASE t = o /\ h # g
        <5>1. owned'[t][h] = owned[t][h] /\ epoch'[t] = Bigger(epoch[o], m.entry.epoch)
          BY <1>1, <3>1, <4>3 DEF DirTypes
        <5> QED
          BY <3>2, <4>1, <4>3, <5>1
      <4>4. CASE t # o
        BY <3>1, <4>1, <4>4 DEF DirTypes
      <4> QED
        BY <4>2, <4>3, <4>4
    <3> QED
      BY <1>2, <2>3, <3>3, <3>4 DEF DirTypes, RebuildOK, EpochCoversEntries, counts
  <2>5. CASE ~wins
    <3>1. owned' = owned /\ epoch' = epoch
      BY <1>4, <2>5
    <3> QED
      BY <1>2, <2>3, <3>1 DEF DirTypes, RebuildOK, EpochCoversEntries, counts
  <2> QED
    BY <2>4, <2>5
<1> QED
  BY <1>3, <1>4 DEF ApplyHandoff

\* Changes of the ring, and crashes.
LEMMA ChangeTyped ==
  ASSUME DirTypes, EpochCoversEntries, NEW s \in Silos,
         Crash(s) \/ \E view \in Views : MembershipChanged(s, view \union {s})
  PROVE  DirTypes' /\ EpochCoversEntries'
<1>1. CASE Crash(s)
  <2>1. /\ up' \subseteq up
        /\ hosted' = [hosted EXCEPT ![s] = {}]
        /\ UNCHANGED <<parts, net, from, grain, entry, counts>>
    BY <1>1 DEF Crash, call
  <2> QED
    BY <2>1 DEF DirTypes, RebuildOK, EpochCoversEntries, parts, counts
<1>2. ASSUME NEW view \in Views, MembershipChanged(s, view \union {s})
      PROVE  DirTypes' /\ EpochCoversEntries'
  <2> DEFINE active == view \union {s}
             moved == {g \in Grains : owned[s][g] # None /\ Owner(g, active) # s}
             arcs == NewArcs(NodesOf, ring[s], active, s)
  <2>1. active \subseteq Silos
    BY DirectoryAssumption
  <2> HIDE DEF active, arcs, moved
  <2>2. /\ changes' = changes + 1
        /\ cache' = [cache EXCEPT ![s] = [g \in Grains |-> None]]
        /\ ring' = [ring EXCEPT ![s] = active]
        /\ owned' = [owned EXCEPT ![s] = [g \in Grains |-> IF g \in moved THEN None ELSE @[g]]]
        /\ net' = net \union {Handoff(Owner(g, active), g, owned[s][g]) : g \in moved}
        /\ rebuild' = IF arcs = {} \/ active = {s} THEN rebuild
                      ELSE [rebuild EXCEPT ![s] =
                              [arcs |-> arcs, peers |-> active \ {s}, found |-> {}]]
        /\ UNCHANGED <<up, epoch, hosted, from, grain, entry, deactivations>>
    BY <1>2 DEF MembershipChanged, call, active, moved, arcs
  <2>3. moved \subseteq Grains
    BY DEF moved
  <2>4. None \in Records /\ None.epoch = 0
    BY DEF None, Records
  <2>5. /\ [g \in Grains |-> None] \in [Grains -> Records]
        /\ [g \in Grains |-> IF g \in moved THEN None ELSE owned[s][g]] \in [Grains -> Records]
    BY <2>4 DEF DirTypes
  <2>6. /\ cache' \in [Silos -> [Grains -> Records]]
        /\ owned' \in [Silos -> [Grains -> Records]]
        /\ ring' \in [Silos -> SUBSET Silos]
    BY <2>1, <2>2, <2>5 DEF DirTypes
  <2>7. ASSUME NEW m \in net' PROVE m.grain \in Grains /\ m.entry \in Records
    <3>1. CASE m \in net
      BY <3>1 DEF DirTypes
    <3>2. CASE m \notin net
      <4>1. PICK g \in moved : m = Handoff(Owner(g, active), g, owned[s][g])
        BY <2>2, <3>2
      <4> QED
        BY <2>3, <4>1 DEF Handoff, DirTypes
    <3> QED
      BY <3>1, <3>2
  <2>8. RebuildOK'
    BY <2>2 DEF DirTypes, RebuildOK
  <2>9. ASSUME NEW t \in Silos, NEW h \in Grains PROVE owned'[t][h].epoch <= epoch'[t]
    <3>1. owned'[t][h] = None \/ owned'[t][h] = owned[t][h]
      BY <2>2 DEF DirTypes
    <3> QED
      BY <2>2, <2>4, <3>1 DEF EpochCoversEntries, DirTypes
  <2> QED
    BY <2>2, <2>6, <2>7, <2>8, <2>9 DEF DirTypes, EpochCoversEntries
<1> QED
  BY <1>1, <1>2

\* A rebuild changes for one silo.
LEMMA RebuildSet ==
  ASSUME RebuildOK, NEW s \in Silos, NEW a, NEW p, NEW f, f \subseteq Grains \X Silos,
         rebuild' = [rebuild EXCEPT ![s] = [arcs |-> a, peers |-> p, found |-> f]]
  PROVE  RebuildOK'
<1> DEFINE r == [arcs |-> a, peers |-> p, found |-> f]
<1>1. r.arcs = a /\ r.peers = p /\ r.found = f
  OBVIOUS
<1> HIDE DEF r
<1>3. rebuild' = [rebuild EXCEPT ![s] = r]
  BY DEF r
<1>4. rebuild' = [t \in Silos |-> rebuild'[t]]
  BY <1>3 DEF RebuildOK
<1>5. \A t \in Silos : rebuild'[t] = IF t = s THEN r ELSE rebuild[t]
  BY <1>3 DEF RebuildOK
<1> QED
  BY <1>1, <1>4, <1>5 DEF RebuildOK

\* The steps of a rebuild.
LEMMA RebuildTyped ==
  ASSUME DirTypes, EpochCoversEntries, NEW s \in Silos,
         FinishRebuild(s) \/ \E p \in Silos : QueryAnswered(s, p) \/ QueryFails(s, p)
  PROVE  DirTypes' /\ EpochCoversEntries'
<1>1. ASSUME NEW p \in Silos, QueryAnswered(s, p)
      PROVE  DirTypes' /\ EpochCoversEntries'
  <2> DEFINE hits == {h \in hosted[p] : \E arc \in rebuild[s].arcs : Within(arc, HashOf[h])}
             news == {<<g, p>> : g \in hits}
  <2>1. hits \subseteq Grains
    BY DEF DirTypes
  <2>2. news \subseteq Grains \X Silos
    BY <2>1
  <2> HIDE DEF hits
  <2>3. rebuild' = [rebuild EXCEPT ![s] =
           [arcs |-> rebuild[s].arcs, peers |-> rebuild[s].peers \ {p},
            found |-> rebuild[s].found \union news]]
    BY <1>1 DEF QueryAnswered, hits
  <2> HIDE DEF news
  <2>7. rebuild[s].found \subseteq Grains \X Silos
    BY DEF DirTypes, RebuildOK
  <2>8. rebuild[s].found \union news \subseteq Grains \X Silos
    BY <2>2, <2>7
  <2>4. RebuildOK'
    BY <2>3, <2>8, RebuildSet DEF DirTypes
  <2>5. UNCHANGED <<up, ring, owned, epoch, cache, hosted, net, from, grain, entry, counts>>
    BY <1>1 DEF QueryAnswered, call
  <2> QED
    BY <2>4, <2>5 DEF DirTypes, EpochCoversEntries, counts
<1>2. ASSUME NEW p \in Silos, QueryFails(s, p)
      PROVE  DirTypes' /\ EpochCoversEntries'
  <2>5. rebuild[s].found \subseteq Grains \X Silos
    BY DEF DirTypes, RebuildOK
  <2>4. rebuild' = [rebuild EXCEPT ![s] =
           [arcs |-> rebuild[s].arcs, peers |-> rebuild[s].peers \ {p},
            found |-> rebuild[s].found]]
    BY <1>2 DEF QueryFails
  <2>1. RebuildOK'
    BY <2>4, <2>5, RebuildSet DEF DirTypes
  <2>2. UNCHANGED <<up, ring, owned, epoch, cache, hosted, net, from, grain, entry, counts>>
    BY <1>2 DEF QueryFails, call
  <2> QED
    BY <2>1, <2>2 DEF DirTypes, EpochCoversEntries, counts
<1>3. CASE FinishRebuild(s)
  <2> DEFINE hosts(g) == {p \in Silos : <<g, p>> \in rebuild[s].found}
             winner(g) == CHOOSE p \in hosts(g) : \A q \in hosts(g) : p <= q
             losers == {y \in rebuild[s].found : y[2] \notin {s, winner(y[1])}}
  <2>1. \A g \in Grains : hosts(g) # {} => winner(g) \in Silos
    <3>1. ASSUME NEW g \in Grains, hosts(g) # {} PROVE winner(g) \in Silos
      <4>1. hosts(g) \subseteq Silos
        OBVIOUS
      <4>2. \E p \in hosts(g) : \A q \in hosts(g) : p <= q
        BY <3>1, <4>1, SmallestSilo
      <4> QED
        BY <4>1, <4>2
    <3> QED
      BY <3>1
  <2>2. losers \subseteq Grains \X Silos
    BY DEF DirTypes, RebuildOK
  <2>3. /\ owned' = [owned EXCEPT ![s] =
             [g \in Grains |-> IF hosts(g) = {} THEN owned[s][g] ELSE Entry(winner(g), 0)]]
        /\ net' = net \union {Deactivate(x[2], x[1], Entry(x[2], 0)) : x \in losers}
        /\ rebuild' = [rebuild EXCEPT ![s] = NoRebuild]
        /\ UNCHANGED <<up, ring, epoch, cache, hosted, from, grain, entry, counts>>
    BY <1>3 DEF FinishRebuild, call
  <2> HIDE DEF hosts, winner, losers
  <2>4. \A g \in Grains : hosts(g) # {} => Entry(winner(g), 0) \in Records
    BY <2>1 DEF Entry, Records
  <2>5. [g \in Grains |-> IF hosts(g) = {} THEN owned[s][g] ELSE Entry(winner(g), 0)]
          \in [Grains -> Records]
    BY <2>4 DEF DirTypes
  <2>6. owned' \in [Silos -> [Grains -> Records]]
    BY <2>3, <2>5 DEF DirTypes
  <2>7. ASSUME NEW m \in net' PROVE m.grain \in Grains /\ m.entry \in Records
    <3>1. CASE m \in net
      BY <3>1 DEF DirTypes
    <3>2. CASE m \notin net
      <4>1. PICK x \in losers : m = Deactivate(x[2], x[1], Entry(x[2], 0))
        BY <2>3, <3>2
      <4>2. x[1] \in Grains /\ x[2] \in Silos
        BY <2>2
      <4> QED
        BY <4>1, <4>2 DEF Deactivate, Entry, Records
    <3> QED
      BY <3>1, <3>2
  <2>8. RebuildOK'
    BY <2>3 DEF DirTypes, RebuildOK, NoRebuild
  <2>9. ASSUME NEW t \in Silos, NEW h \in Grains PROVE owned'[t][h].epoch <= epoch'[t]
    <3>1. owned'[t][h] = Entry(winner(h), 0) \/ owned'[t][h] = owned[t][h]
      BY <2>3 DEF DirTypes
    <3>2. Entry(winner(h), 0).epoch = 0
      BY DEF Entry
    <3> QED
      BY <2>3, <3>1, <3>2 DEF EpochCoversEntries, DirTypes
  <2> QED
    BY <2>3, <2>6, <2>7, <2>8, <2>9 DEF DirTypes, EpochCoversEntries, counts
<1> QED
  BY <1>1, <1>2, <1>3

\* The types and the epochs are inductive.
LEMMA DirTyped ==
  ASSUME DirTypes, EpochCoversEntries, [DirNext]_dirVars
  PROVE  DirTypes' /\ EpochCoversEntries'
<1>1. CASE DirNext
  BY <1>1, CallTyped, DeactivationTyped, HandoffTyped, ChangeTyped, RebuildTyped DEF DirNext
<1>2. CASE UNCHANGED dirVars
  BY <1>2 DEF dirVars, parts, call, counts, DirTypes, RebuildOK, EpochCoversEntries
<1> QED
  BY <1>1, <1>2

\* Both hold of the initial states.
LEMMA DirStart == DirInit => DirTypes /\ EpochCoversEntries
<1> SUFFICES ASSUME DirInit PROVE DirTypes /\ EpochCoversEntries
  OBVIOUS
<1>1. None \in Records /\ None.epoch = 0
  BY DEF None, Records
<1>2. RebuildOK
  BY DEF DirInit, RebuildOK, NoRebuild
<1> QED
  BY <1>1, <1>2 DEF DirInit, DirTypes, EpochCoversEntries

\* Epochs are only raised by the silo that hands them out, and an entry enters its
\* table with that epoch, with one it raises its own to, or with 0.
THEOREM EpochsCoverEntries == DirSpec => []EpochCoversEntries
<1>1. DirTypes /\ EpochCoversEntries /\ [DirNext]_dirVars => (DirTypes /\ EpochCoversEntries)'
  BY DirTyped
<1> QED
  BY <1>1, DirStart, PTL DEF DirSpec
-----------------------------------------------------------------------------
(* One host per grain while nothing disturbs the cluster.                  *)

Undisturbed == changes = 0 /\ deactivations = 0

\* Some silo owns the grain with this entry.
Known(g, e) == \E o \in Silos : owned[o][g] = e

\* Only the silo that the common ring names has an entry of a grain, and whatever is
\* cached, under way or active comes from that entry.
QuietInv ==
  /\ net = {}
  /\ \A s \in Silos : rebuild[s].arcs = {}
  /\ \A s, t \in Silos : ring[s] # {} /\ ring[t] # {} => ring[s] = ring[t]
  /\ \A s \in Silos, g \in Grains :
       owned[s][g] # None => ring[s] # {} /\ Owner(g, ring[s]) = s
  /\ \A s \in Silos, g \in Grains : cache[s][g] # None => Known(g, cache[s][g])
  /\ \A c \in Calls : cpc[c] \in {"answered", "routed"} =>
       entry[c] # None /\ Known(grain[c], entry[c])
  /\ \A c \in Calls : cpc[c] \in {"asking", "abandoned"} =>
       ring[from[c]] # {} /\ asked[c] = Owner(grain[c], ring[from[c]])
  /\ \A s \in Silos, g \in Grains : g \in hosted[s] =>
       \E o \in Silos : owned[o][g] # None /\ owned[o][g].silo = s

DirInv ==
  /\ DirTypes
  /\ cpc = [c \in Calls |-> cpc[c]]
  /\ asked = [c \in Calls |-> asked[c]]
  /\ Undisturbed => QuietInv

\* An empty ring names no silo, and no silo is called NoOwner.
LEMMA EmptyRing == \A g : Owner(g, {}) = NoOwner /\ NoOwner \notin Silos
<1>1. \A at : Points(at, {}) = {}
  BY DEF Points
<1> QED
  BY <1>1, DirectoryAssumption DEF Owner, OwnerOf, NoOwner

\* There is one entry per grain at most, so one host.
LEMMA QuietHosts ==
  ASSUME DirTypes, QuietInv
  PROVE  SingleHost
<1> SUFFICES ASSUME NEW g \in Grains, NEW s \in Silos, NEW t \in Silos,
                    g \in hosted[s] \cap hosted[t]
             PROVE  s = t
  BY DEF SingleHost
<1>1. PICK o \in Silos : owned[o][g] # None /\ owned[o][g].silo = s
  BY DEF QuietInv
<1>2. PICK p \in Silos : owned[p][g] # None /\ owned[p][g].silo = t
  BY DEF QuietInv
<1>3. o = p
  BY <1>1, <1>2 DEF QuietInv
<1> QED
  BY <1>1, <1>2, <1>3

\* A resolve at the owner keeps every entry and returns one that it now has.
LEMMA ResolveKeeps ==
  ASSUME DirTypes, QuietInv, NEW o \in Silos, NEW s \in Silos, NEW g \in Grains, NEW e,
         ResolveAt(o, s, g, e), ring[o] # {}, Owner(g, ring[o]) = o
  PROVE  /\ \A t \in Silos, h \in Grains : owned[t][h] # None => owned'[t][h] = owned[t][h]
         /\ \A t \in Silos, h \in Grains :
              owned'[t][h] # None => ring[t] # {} /\ Owner(h, ring[t]) = t
         /\ e = owned'[o][g] /\ e # None
<1>1. CASE owned[o][g] # None
  BY <1>1 DEF ResolveAt, QuietInv
<1>2. CASE owned[o][g] = None
  <2>1. PICK chosen \in PickSilo(s, ring[o]) :
          /\ e = Entry(chosen, epoch[o] + 1)
          /\ owned' = [owned EXCEPT ![o][g] = e]
    BY <1>2 DEF ResolveAt
  <2>2. \A t \in Silos, h \in Grains :
          owned'[t][h] = IF t = o /\ h = g THEN e ELSE owned[t][h]
    BY <2>1 DEF DirTypes
  <2>3. chosen \in Silos
    BY DEF PickSilo, DirTypes
  <2>4. e # None
    BY <2>1, <2>3, EmptyRing DEF Entry, None
  <2> QED
    BY <1>2, <2>2, <2>4 DEF QuietInv
<1> QED
  BY <1>1, <1>2

\* The last part of a resolve, once its silo has an entry that is known.
LEMMA RouteQuiet ==
  ASSUME DirTypes, NEW c \in Calls, NEW s \in Silos, NEW g \in Grains, NEW e \in Records,
         Route(c, s, g, e), cpc = [d \in Calls |-> cpc[d]],
         e # None, NEW o \in Silos, owned'[o][g] = e,
         \A t \in Silos, h \in Grains : h \in hosted[t] =>
           \E p \in Silos : owned'[p][h] # None /\ owned'[p][h].silo = t
  PROVE  /\ \A t \in Silos, h \in Grains : h \in hosted'[t] =>
              \E p \in Silos : owned'[p][h] # None /\ owned'[p][h].silo = t
         /\ entry' = [entry EXCEPT ![c] = e]
         /\ cpc' = [d \in Calls |-> cpc'[d]]
         /\ cpc'[c] \in {"routed", "done"}
         /\ \A d \in Calls \ {c} : cpc'[d] = cpc[d]
<1>1. CASE e.silo = s /\ ~ReadSuspends
  <2>1. /\ hosted' = [hosted EXCEPT ![s] = @ \union {g}]
        /\ cpc' = [cpc EXCEPT ![c] = "done"]
        /\ entry' = [entry EXCEPT ![c] = e]
    BY <1>1 DEF Route
  <2>2. \A t \in Silos, h \in Grains : h \in hosted'[t] => h \in hosted[t] \/ (t = s /\ h = g)
    BY <2>1 DEF DirTypes
  <2> QED
    BY <1>1, <2>1, <2>2
<1>2. CASE ~(e.silo = s /\ ~ReadSuspends)
  <2>1. /\ hosted' = hosted
        /\ cpc' = [cpc EXCEPT ![c] = "routed"]
        /\ entry' = [entry EXCEPT ![c] = e]
    BY <1>2 DEF Route
  <2> QED
    BY <2>1
<1> QED
  BY <1>1, <1>2

\* What a step must keep for the invariant to hold again.
LEMMA QuietFrame ==
  ASSUME DirTypes, QuietInv, UNCHANGED <<net, ring, from, grain>>,
         \A s \in Silos : rebuild'[s].arcs = rebuild[s].arcs,
         \A s \in Silos, g \in Grains : owned[s][g] # None => owned'[s][g] = owned[s][g],
         \A s \in Silos, g \in Grains :
           owned'[s][g] # None => ring[s] # {} /\ Owner(g, ring[s]) = s,
         \A s \in Silos, g \in Grains :
           cache'[s][g] \in {None, cache[s][g]} \/ \E o \in Silos : owned'[o][g] = cache'[s][g],
         \A c \in Calls : cpc'[c] \in {"answered", "routed"} =>
           \/ cpc[c] \in {"answered", "routed"} /\ entry'[c] = entry[c]
           \/ entry'[c] # None /\ \E o \in Silos : owned'[o][grain[c]] = entry'[c],
         \A c \in Calls : cpc'[c] \in {"asking", "abandoned"} =>
           \/ cpc[c] \in {"asking", "abandoned"} /\ asked'[c] = asked[c]
           \/ ring[from[c]] # {} /\ asked'[c] = Owner(grain[c], ring[from[c]]),
         \A s \in Silos, g \in Grains : g \in hosted'[s] =>
           g \in hosted[s] \/ \E o \in Silos : owned'[o][g] # None /\ owned'[o][g].silo = s
  PROVE  QuietInv'
<1>1. \A s \in Silos, g \in Grains : cache'[s][g] # None =>
        \E o \in Silos : owned'[o][g] = cache'[s][g]
  <2> SUFFICES ASSUME NEW s \in Silos, NEW g \in Grains, cache'[s][g] # None
               PROVE  \E o \in Silos : owned'[o][g] = cache'[s][g]
    OBVIOUS
  <2>1. CASE cache'[s][g] = cache[s][g]
    <3>1. PICK o \in Silos : owned[o][g] = cache[s][g]
      BY <2>1 DEF QuietInv, Known
    <3> QED
      BY <2>1, <3>1
  <2> QED
    BY <2>1
<1>2. \A c \in Calls : cpc'[c] \in {"answered", "routed"} =>
        entry'[c] # None /\ \E o \in Silos : owned'[o][grain'[c]] = entry'[c]
  <2> SUFFICES ASSUME NEW c \in Calls, cpc'[c] \in {"answered", "routed"}
               PROVE  entry'[c] # None /\ \E o \in Silos : owned'[o][grain[c]] = entry'[c]
    OBVIOUS
  <2>1. CASE cpc[c] \in {"answered", "routed"} /\ entry'[c] = entry[c]
    <3>1. PICK o \in Silos : owned[o][grain[c]] = entry[c]
      BY <2>1 DEF QuietInv, Known
    <3>2. entry[c] # None /\ grain[c] \in Grains
      BY <2>1 DEF QuietInv, DirTypes
    <3> QED
      BY <2>1, <3>1, <3>2
  <2> QED
    BY <2>1
<1>3. \A s \in Silos, g \in Grains : g \in hosted'[s] =>
        \E o \in Silos : owned'[o][g] # None /\ owned'[o][g].silo = s
  <2> SUFFICES ASSUME NEW s \in Silos, NEW g \in Grains, g \in hosted[s]
               PROVE  \E o \in Silos : owned'[o][g] # None /\ owned'[o][g].silo = s
    OBVIOUS
  <2>1. PICK o \in Silos : owned[o][g] # None /\ owned[o][g].silo = s
    BY DEF QuietInv
  <2> QED
    BY <2>1
<1>4. \A c \in Calls : cpc'[c] \in {"asking", "abandoned"} =>
        ring'[from'[c]] # {} /\ asked'[c] = Owner(grain'[c], ring'[from'[c]])
  BY DEF QuietInv
<1>5. /\ net' = {}
      /\ \A s \in Silos : rebuild'[s].arcs = {}
      /\ \A s, t \in Silos : ring'[s] # {} /\ ring'[t] # {} => ring'[s] = ring'[t]
      /\ \A s \in Silos, g \in Grains :
           owned'[s][g] # None => ring'[s] # {} /\ Owner(g, ring'[s]) = s
  BY DEF QuietInv
<1> QED
  BY <1>1, <1>2, <1>3, <1>4, <1>5 DEF QuietInv, Known, Owner, None

\* A cached entry, an entry placed here, a question to the owner, or a refusal.
LEMMA ResolveQuiet ==
  ASSUME DirTypes, QuietInv, NEW c \in Calls, cpc[c] \in {"idle", "retry"},
         cpc = [d \in Calls |-> cpc[d]], asked = [d \in Calls |-> asked[d]],
         ResolveFrom(c, from[c], grain[c]), UNCHANGED <<net, ring, rebuild, from, grain>>
  PROVE  QuietInv'
<1> DEFINE s == from[c]
           g == grain[c]
           o == Owner(g, ring[s])
<1>1. s \in Silos /\ g \in Grains
  BY DirectoryAssumption DEF DirTypes
<1> HIDE DEF s, g
<1>2. ASSUME NEW e \in Records, e # None, NEW p \in Silos, owned'[p][g] = e,
             Route(c, s, g, e), asked' = asked,
             \A t \in Silos, h \in Grains : owned[t][h] # None => owned'[t][h] = owned[t][h],
             \A t \in Silos, h \in Grains :
               owned'[t][h] # None => ring[t] # {} /\ Owner(h, ring[t]) = t,
             \A t \in Silos, h \in Grains :
               cache'[t][h] \in {None, cache[t][h]} \/ \E q \in Silos : owned'[q][h] = cache'[t][h]
      PROVE  QuietInv'
  <2>1. ASSUME NEW t \in Silos, NEW h \in Grains, h \in hosted[t]
        PROVE  \E q \in Silos : owned'[q][h] # None /\ owned'[q][h].silo = t
    <3>1. PICK q \in Silos : owned[q][h] # None /\ owned[q][h].silo = t
      BY <2>1 DEF QuietInv
    <3> QED
      BY <1>2, <3>1
  <2>2. /\ \A t \in Silos, h \in Grains : h \in hosted'[t] =>
             \E q \in Silos : owned'[q][h] # None /\ owned'[q][h].silo = t
        /\ entry' = [entry EXCEPT ![c] = e]
        /\ cpc' = [d \in Calls |-> cpc'[d]]
        /\ cpc'[c] \in {"routed", "done"}
        /\ \A d \in Calls \ {c} : cpc'[d] = cpc[d]
    BY <1>1, <1>2, <2>1, RouteQuiet
  <2>3. \A d \in Calls : entry'[d] = IF d = c THEN e ELSE entry[d]
    BY <2>2 DEF DirTypes
  <2>4. \A d \in Calls : cpc'[d] \in {"answered", "routed"} =>
           \/ cpc[d] \in {"answered", "routed"} /\ entry'[d] = entry[d]
           \/ entry'[d] # None /\ \E q \in Silos : owned'[q][grain[d]] = entry'[d]
    BY <1>2, <2>2, <2>3 DEF g
  <2>5. \A d \in Calls : cpc'[d] \in {"asking", "abandoned"} =>
           cpc[d] \in {"asking", "abandoned"} /\ asked'[d] = asked[d]
    BY <1>2, <2>2
  <2> QED
    BY <1>2, <2>2, <2>4, <2>5, QuietFrame
<1>3. CASE /\ cache[s][g] # None
           /\ Route(c, s, g, cache[s][g])
           /\ UNCHANGED <<owned, epoch, cache, asked>>
  <2>1. PICK p \in Silos : owned[p][g] = cache[s][g]
    BY <1>1, <1>3 DEF QuietInv, Known
  <2>2. cache[s][g] \in Records
    BY <1>1 DEF DirTypes
  <2>3. \A t \in Silos, h \in Grains :
          owned'[t][h] # None => ring[t] # {} /\ Owner(h, ring[t]) = t
    BY <1>3 DEF QuietInv
  <2> QED
    BY <1>2, <1>3, <2>1, <2>2, <2>3
<1>4. ASSUME cache[s][g] = None, o = s,
             NEW e \in Answers(s, s, g), ResolveAt(s, s, g, e), Route(c, s, g, e),
             cache' = [cache EXCEPT ![s][g] = e], asked' = asked
      PROVE  QuietInv'
  <2>1. ring[s] # {}
    BY <1>1, <1>4, EmptyRing
  <2>2. e \in Records
    BY <1>1, <1>4, AnswersTyped
  <2>3. /\ \A t \in Silos, h \in Grains : owned[t][h] # None => owned'[t][h] = owned[t][h]
        /\ \A t \in Silos, h \in Grains :
             owned'[t][h] # None => ring[t] # {} /\ Owner(h, ring[t]) = t
        /\ e = owned'[s][g] /\ e # None
    BY <1>1, <1>4, <2>1, ResolveKeeps
  <2>4. \A t \in Silos, h \in Grains :
          cache'[t][h] = IF t = s /\ h = g THEN e ELSE cache[t][h]
    BY <1>4 DEF DirTypes
  <2> QED
    BY <1>1, <1>2, <1>4, <2>2, <2>3, <2>4
<1>5. CASE /\ o \notin {s, NoOwner}
           /\ asked' = [asked EXCEPT ![c] = o]
           /\ cpc' = [cpc EXCEPT ![c] = "asking"]
           /\ UNCHANGED <<owned, epoch, cache, entry, hosted>>
  <2>1. ring[s] # {}
    BY <1>5, EmptyRing
  <2>2. \A d \in Calls : /\ cpc'[d] = IF d = c THEN "asking" ELSE cpc[d]
                         /\ asked'[d] = IF d = c THEN o ELSE asked[d]
    BY <1>5
  <2>3. \A t \in Silos, h \in Grains :
          owned'[t][h] # None => ring[t] # {} /\ Owner(h, ring[t]) = t
    BY <1>5 DEF QuietInv
  <2>4. \A d \in Calls : cpc'[d] \in {"asking", "abandoned"} =>
           \/ cpc[d] \in {"asking", "abandoned"} /\ asked'[d] = asked[d]
           \/ ring[from[d]] # {} /\ asked'[d] = Owner(grain[d], ring[from[d]])
    BY <2>1, <2>2 DEF s, g
  <2> QED
    BY <1>5, <2>2, <2>3, <2>4, QuietFrame
<1>6. CASE cpc' = [cpc EXCEPT ![c] = "failed"] /\ UNCHANGED <<owned, cache, asked, entry, hosted>>
  <2>1. \A d \in Calls : cpc'[d] = IF d = c THEN "failed" ELSE cpc[d]
    BY <1>6
  <2>2. \A t \in Silos, h \in Grains :
          owned'[t][h] # None => ring[t] # {} /\ Owner(h, ring[t]) = t
    BY <1>6 DEF QuietInv
  <2> QED
    BY <1>6, <2>1, <2>2, QuietFrame
<1>7. ResolveFrom(c, s, g)
  BY DEF s, g
<1> QED
  BY <1>3, <1>4, <1>5, <1>6, <1>7 DEF ResolveFrom

\* The steps of a call keep the shape of its state.
LEMMA CallShape ==
  ASSUME cpc = [d \in Calls |-> cpc[d]], asked = [d \in Calls |-> asked[d]],
         NEW c \in Calls, CallStep(c)
  PROVE  cpc' = [d \in Calls |-> cpc'[d]] /\ asked' = [d \in Calls |-> asked'[d]]
<1>1. /\ asked' = asked \/ \E o : asked' = [asked EXCEPT ![c] = o]
      /\ cpc' = cpc \/ \E x : cpc' = [cpc EXCEPT ![c] = x]
  <2>1. CASE Invoke(c) \/ Retry(c)
    BY <2>1 DEF Invoke, Retry, ResolveFrom, Route
  <2>2. CASE ReceiveEntry(c) \/ ServeResolve(c)
    BY <2>2 DEF ReceiveEntry, ServeResolve, Route
  <2>3. CASE \/ ResolveFails(c) \/ AbandonedLost(c) \/ Run(c) \/ Unreachable(c)
             \/ DeadlinePasses(c) \/ ConnectionError(c)
    BY <2>3 DEF ResolveFails, AbandonedLost, Run, Unreachable, DeadlinePasses, ConnectionError
  <2> QED
    BY <2>1, <2>2, <2>3 DEF CallStep
<1> QED
  BY <1>1

\* The steps of a call keep the quiet invariant.
LEMMA CallQuiet ==
  ASSUME DirTypes, QuietInv, NEW c \in Calls, CallStep(c),
         cpc = [d \in Calls |-> cpc[d]], asked = [d \in Calls |-> asked[d]]
  PROVE  QuietInv'
<1>1. from[c] \in Silos /\ grain[c] \in Grains
  BY DirectoryAssumption DEF DirTypes
<1>2. \A s \in Silos, g \in Grains : owned[s][g] # None => ring[s] # {} /\ Owner(g, ring[s]) = s
  BY DEF QuietInv
<1>3. CASE Invoke(c) \/ Retry(c)
  <2>1. /\ ResolveFrom(c, from[c], grain[c]) /\ cpc[c] \in {"idle", "retry"}
        /\ UNCHANGED <<ring, rebuild, net, from, grain>>
    BY <1>3 DEF Invoke, Retry
  <2> QED
    BY <2>1, ResolveQuiet
<1>4. CASE ServeResolve(c)
  <2> DEFINE o == asked[c]
  <2>1. /\ o \in Silos /\ ring[o] # {} /\ cpc[c] \in {"asking", "abandoned"}
        /\ cpc' = [cpc EXCEPT ![c] = IF @ = "asking" THEN "answered" ELSE "failed"]
        /\ UNCHANGED <<ring, cache, rebuild, hosted, net, from, grain, asked>>
    BY <1>4 DEF ServeResolve, DirTypes
  <2>2. PICK e \in Answers(o, from[c], grain[c]) :
          /\ ResolveAt(o, from[c], grain[c], e)
          /\ entry' = [entry EXCEPT ![c] = e]
    BY <1>4 DEF ServeResolve
  <2> HIDE DEF o
  <2>3. ring[from[c]] # {} /\ o = Owner(grain[c], ring[from[c]])
    BY <2>1 DEF QuietInv, o
  <2>4. Owner(grain[c], ring[o]) = o
    <3>1. ring[o] = ring[from[c]]
      BY <1>1, <2>1, <2>3 DEF QuietInv
    <3> QED
      BY <2>3, <3>1
  <2>5. /\ \A t \in Silos, h \in Grains : owned[t][h] # None => owned'[t][h] = owned[t][h]
        /\ \A t \in Silos, h \in Grains :
             owned'[t][h] # None => ring[t] # {} /\ Owner(h, ring[t]) = t
        /\ e = owned'[o][grain[c]] /\ e # None
    BY <1>1, <2>1, <2>2, <2>4, ResolveKeeps
  <2>6. \A d \in Calls : entry'[d] = IF d = c THEN e ELSE entry[d]
    BY <2>2 DEF DirTypes
  <2>7. \A d \in Calls : cpc'[d] = IF d # c THEN cpc[d]
                                   ELSE IF cpc[c] = "asking" THEN "answered" ELSE "failed"
    BY <2>1
  <2>8. \A d \in Calls : cpc'[d] \in {"answered", "routed"} =>
           \/ cpc[d] \in {"answered", "routed"} /\ entry'[d] = entry[d]
           \/ entry'[d] # None /\ \E q \in Silos : owned'[q][grain[d]] = entry'[d]
    BY <2>1, <2>5, <2>6, <2>7
  <2>9. \A d \in Calls : cpc'[d] \in {"asking", "abandoned"} =>
           cpc[d] \in {"asking", "abandoned"} /\ asked'[d] = asked[d]
    BY <2>1, <2>7
  <2> QED
    BY <2>1, <2>5, <2>8, <2>9, QuietFrame
<1>5. CASE ReceiveEntry(c)
  <2> DEFINE e == entry[c]
  <2>1. /\ cpc[c] = "answered"
        /\ cache' = [cache EXCEPT ![from[c]][grain[c]] = e]
        /\ Route(c, from[c], grain[c], e)
        /\ UNCHANGED <<ring, owned, rebuild, net, from, grain, asked>>
    BY <1>5 DEF ReceiveEntry
  <2>2. e # None /\ e \in Records
    BY <2>1 DEF QuietInv, DirTypes
  <2>3. PICK p \in Silos : owned[p][grain[c]] = e
    BY <2>1 DEF QuietInv, Known
  <2> HIDE DEF e
  <2>4. owned'[p][grain[c]] = e
    BY <2>1, <2>3
  <2>5. \A t \in Silos, h \in Grains : h \in hosted[t] =>
          \E q \in Silos : owned'[q][h] # None /\ owned'[q][h].silo = t
    BY <2>1 DEF QuietInv
  <2>6. /\ \A t \in Silos, h \in Grains : h \in hosted'[t] =>
             \E q \in Silos : owned'[q][h] # None /\ owned'[q][h].silo = t
        /\ entry' = [entry EXCEPT ![c] = e]
        /\ cpc' = [d \in Calls |-> cpc'[d]]
        /\ cpc'[c] \in {"routed", "done"}
        /\ \A d \in Calls \ {c} : cpc'[d] = cpc[d]
    BY <1>1, <2>1, <2>2, <2>4, <2>5, RouteQuiet
  <2>7. \A d \in Calls : entry'[d] = IF d = c THEN e ELSE entry[d]
    BY <2>6 DEF DirTypes
  <2>8. \A t \in Silos, h \in Grains :
          cache'[t][h] = IF t = from[c] /\ h = grain[c] THEN e ELSE cache[t][h]
    BY <2>1 DEF DirTypes
  <2>9. \A d \in Calls : cpc'[d] \in {"answered", "routed"} =>
           \/ cpc[d] \in {"answered", "routed"} /\ entry'[d] = entry[d]
           \/ entry'[d] # None /\ \E q \in Silos : owned'[q][grain[d]] = entry'[d]
    BY <2>2, <2>4, <2>6, <2>7
  <2>10. \A d \in Calls : cpc'[d] \in {"asking", "abandoned"} =>
           cpc[d] \in {"asking", "abandoned"} /\ asked'[d] = asked[d]
    BY <2>1, <2>6
  <2>11. \A t \in Silos, h \in Grains :
          cache'[t][h] \in {None, cache[t][h]} \/ \E q \in Silos : owned'[q][h] = cache'[t][h]
    BY <2>4, <2>8
  <2> QED
    BY <1>2, <2>1, <2>6, <2>9, <2>10, <2>11, QuietFrame
<1>6. CASE Run(c)
  <2>1. /\ cpc[c] = "routed" /\ entry[c].silo \in Silos
        /\ hosted' = [hosted EXCEPT ![entry[c].silo] = @ \union {grain[c]}]
        /\ \E x \in {"done", "broken", "failed"} : cpc' = [cpc EXCEPT ![c] = x]
        /\ UNCHANGED <<ring, owned, cache, rebuild, net, from, grain, entry, asked>>
    BY <1>6 DEF Run, DirTypes, parts
  <2>2. PICK p \in Silos : owned[p][grain[c]] = entry[c]
    BY <2>1 DEF QuietInv, Known
  <2>3. entry[c] # None
    BY <2>1 DEF QuietInv
  <2>4. \A t \in Silos, h \in Grains : h \in hosted'[t] =>
          h \in hosted[t] \/ (t = entry[c].silo /\ h = grain[c])
    BY <2>1 DEF DirTypes
  <2>5. \A t \in Silos, h \in Grains : h \in hosted'[t] =>
           h \in hosted[t] \/ \E q \in Silos : owned'[q][h] # None /\ owned'[q][h].silo = t
    BY <2>1, <2>2, <2>3, <2>4
  <2>6. \A d \in Calls : cpc'[d] \in {"done", "broken", "failed"} \/ cpc'[d] = cpc[d]
    BY <2>1
  <2> QED
    BY <1>2, <2>1, <2>5, <2>6, QuietFrame
<1>7. CASE ConnectionError(c)
  <2>1. /\ cache' = cache \/ cache' = [cache EXCEPT ![from[c]][grain[c]] = None]
        /\ \E x \in {"failed", "retry"} : cpc' = [cpc EXCEPT ![c] = x]
        /\ UNCHANGED <<ring, owned, hosted, rebuild, net, from, grain, entry, asked>>
    BY <1>7 DEF ConnectionError
  <2>2. \A t \in Silos, h \in Grains : cache'[t][h] \in {None, cache[t][h]}
    <3>1. ASSUME cache' = [cache EXCEPT ![from[c]][grain[c]] = None],
                 NEW t \in Silos, NEW h \in Grains
          PROVE  cache'[t][h] = IF t = from[c] /\ h = grain[c] THEN None ELSE cache[t][h]
      BY <1>1, <3>1 DEF DirTypes
    <3> QED
      BY <2>1, <3>1
  <2>3. \A d \in Calls : cpc'[d] \in {"failed", "retry"} \/ cpc'[d] = cpc[d]
    BY <2>1
  <2> QED
    BY <1>2, <2>1, <2>2, <2>3, QuietFrame
<1>8. CASE ResolveFails(c) \/ AbandonedLost(c) \/ Unreachable(c) \/ DeadlinePasses(c)
  <2>1. /\ UNCHANGED <<ring, owned, cache, hosted, rebuild, net, from, grain, entry, asked>>
        /\ \/ cpc[c] = "asking" /\ cpc' = [cpc EXCEPT ![c] = "abandoned"]
           \/ \E x \in {"failed", "broken"} : cpc' = [cpc EXCEPT ![c] = x]
    BY <1>8 DEF ResolveFails, AbandonedLost, Unreachable, DeadlinePasses, parts
  <2>2. \A d \in Calls : \/ cpc'[d] \in {"failed", "broken"} \/ cpc'[d] = cpc[d]
                         \/ cpc[d] = "asking" /\ cpc'[d] = "abandoned"
    BY <2>1
  <2> QED
    BY <1>2, <2>1, <2>2, QuietFrame
<1> QED
  BY <1>3, <1>4, <1>5, <1>6, <1>7, <1>8 DEF CallStep

\* The other steps that leave the cluster undisturbed.
LEMMA OtherQuiet ==
  ASSUME DirTypes, QuietInv, Undisturbed, Undisturbed',
         \/ \E s \in Silos, g \in Grains : IdleDeactivate(s, g) \/ CacheDrops(s, g)
         \/ \E s \in Silos, view \in Views : MembershipChanged(s, view \union {s})
         \/ \E m \in net :
              ServeUnregister(m) \/ ApplyDeactivate(m) \/ ApplyHandoff(m) \/ MessageLost(m)
         \/ \E s, p \in Silos : QueryAnswered(s, p) \/ QueryFails(s, p)
         \/ \E s \in Silos : FinishRebuild(s) \/ Crash(s)
         \/ UNCHANGED dirVars
  PROVE  QuietInv' /\ UNCHANGED <<cpc, asked>>
<1> DEFINE Frame == UNCHANGED <<ring, owned, net, cpc, from, grain, entry, asked>>
<1>1. \A s \in Silos, g \in Grains : owned[s][g] # None => ring[s] # {} /\ Owner(g, ring[s]) = s
  BY DEF QuietInv
<1>2. ASSUME NEW s \in Silos, NEW g \in Grains, IdleDeactivate(s, g) PROVE FALSE
  BY <1>2 DEF IdleDeactivate, Undisturbed
<1>3. ASSUME NEW s \in Silos, NEW view \in Views, MembershipChanged(s, view \union {s}) PROVE FALSE
  BY <1>3 DEF MembershipChanged, Undisturbed
<1>4. ASSUME NEW s \in Silos, FinishRebuild(s) PROVE FALSE
  BY <1>4 DEF FinishRebuild, QuietInv
<1>5. net = {}
  BY DEF QuietInv
<1>6. ASSUME NEW s \in Silos, NEW g \in Grains, CacheDrops(s, g)
      PROVE  QuietInv' /\ UNCHANGED <<cpc, asked>>
  <2>1. /\ cache' = [cache EXCEPT ![s][g] = None]
        /\ Frame /\ UNCHANGED <<hosted, rebuild>>
    BY <1>6 DEF CacheDrops, call
  <2>2. \A t \in Silos, h \in Grains : cache'[t][h] \in {None, cache[t][h]}
    BY <2>1 DEF DirTypes
  <2> QED
    BY <1>1, <2>1, <2>2, QuietFrame
<1>7. ASSUME NEW s \in Silos, NEW p \in Silos, QueryAnswered(s, p) \/ QueryFails(s, p)
      PROVE  QuietInv' /\ UNCHANGED <<cpc, asked>>
  <2>1. /\ \E q, f : rebuild' =
             [rebuild EXCEPT ![s] = [arcs |-> rebuild[s].arcs, peers |-> q, found |-> f]]
        /\ Frame /\ UNCHANGED <<hosted, cache>>
    BY <1>7 DEF QueryAnswered, QueryFails, call
  <2>2. \A t \in Silos : rebuild'[t].arcs = rebuild[t].arcs
    BY <2>1 DEF DirTypes, RebuildOK
  <2> QED
    BY <1>1, <2>1, <2>2, QuietFrame
<1>8. ASSUME NEW s \in Silos, Crash(s)
      PROVE  QuietInv' /\ UNCHANGED <<cpc, asked>>
  <2>1. /\ hosted' = [hosted EXCEPT ![s] = {}]
        /\ Frame /\ UNCHANGED <<cache, rebuild>>
    BY <1>8 DEF Crash, call, parts
  <2>2. \A t \in Silos, h \in Grains : h \in hosted'[t] => h \in hosted[t]
    BY <2>1 DEF DirTypes
  <2> QED
    BY <1>1, <2>1, <2>2, QuietFrame
<1>9. CASE UNCHANGED dirVars
  <2>1. Frame /\ UNCHANGED <<hosted, cache, rebuild>>
    BY <1>9 DEF dirVars, parts, call
  <2> QED
    BY <1>1, <2>1, QuietFrame
<1> QED
  BY <1>2, <1>3, <1>4, <1>5, <1>6, <1>7, <1>8, <1>9

\* Every step but a call's leaves the calls where they are.
LEMMA OtherShape ==
  ASSUME [DirNext]_dirVars, \A c \in Calls : ~CallStep(c)
  PROVE  UNCHANGED <<cpc, asked>>
<1>1. ASSUME NEW s \in Silos, NEW g \in Grains, IdleDeactivate(s, g) \/ CacheDrops(s, g)
      PROVE  UNCHANGED call
  BY <1>1 DEF IdleDeactivate, CacheDrops
<1>2. ASSUME NEW s \in Silos, NEW view \in Views, MembershipChanged(s, view \union {s})
      PROVE  UNCHANGED call
  BY <1>2 DEF MembershipChanged
<1>3. ASSUME NEW m \in net,
             ServeUnregister(m) \/ ApplyDeactivate(m) \/ ApplyHandoff(m) \/ MessageLost(m)
      PROVE  UNCHANGED call
  BY <1>3 DEF ServeUnregister, ApplyDeactivate, ApplyHandoff, MessageLost
<1>4. ASSUME NEW s \in Silos, NEW p \in Silos, QueryAnswered(s, p) \/ QueryFails(s, p)
      PROVE  UNCHANGED call
  BY <1>4 DEF QueryAnswered, QueryFails
<1>5. ASSUME NEW s \in Silos, FinishRebuild(s) \/ Crash(s)
      PROVE  UNCHANGED call
  BY <1>5 DEF FinishRebuild, Crash
<1> QED
  BY <1>1, <1>2, <1>3, <1>4, <1>5 DEF DirNext, dirVars, call

\* Changes and deactivations are never taken back.
LEMMA StaysDisturbed ==
  ASSUME DirTypes, [DirNext]_dirVars, Undisturbed'
  PROVE  Undisturbed
<1> DEFINE Counted == /\ changes' \in {changes, changes + 1}
                      /\ deactivations' \in {deactivations, deactivations + 1}
<1>1. ASSUME NEW c \in Calls, CallStep(c)
      PROVE  Counted
  <2>1. UNCHANGED counts
    BY <1>1 DEF CallStep, Invoke, Retry, ServeResolve, ReceiveEntry, ResolveFails,
                AbandonedLost, Run, Unreachable, DeadlinePasses, ConnectionError
  <2> QED
    BY <2>1 DEF counts
<1>2. ASSUME NEW s \in Silos, NEW g \in Grains, IdleDeactivate(s, g) \/ CacheDrops(s, g)
      PROVE  Counted
  BY <1>2 DEF IdleDeactivate, CacheDrops, counts
<1>3. ASSUME NEW s \in Silos, NEW view \in Views, MembershipChanged(s, view \union {s})
      PROVE  Counted
  BY <1>3 DEF MembershipChanged
<1>4. ASSUME NEW m \in net,
             ServeUnregister(m) \/ ApplyDeactivate(m) \/ ApplyHandoff(m) \/ MessageLost(m)
      PROVE  Counted
  BY <1>4 DEF ServeUnregister, ApplyDeactivate, ApplyHandoff, MessageLost, counts
<1>5. ASSUME NEW s \in Silos, NEW p \in Silos, QueryAnswered(s, p) \/ QueryFails(s, p)
      PROVE  Counted
  BY <1>5 DEF QueryAnswered, QueryFails, counts
<1>6. ASSUME NEW s \in Silos, FinishRebuild(s) \/ Crash(s)
      PROVE  Counted
  BY <1>6 DEF FinishRebuild, Crash, counts
<1>7. ASSUME UNCHANGED dirVars
      PROVE  Counted
  <2>1. UNCHANGED counts
    BY <1>7 DEF dirVars
  <2> QED
    BY <2>1 DEF counts
<1> HIDE DEF Counted
<1>8. Counted
  BY <1>1, <1>2, <1>3, <1>4, <1>5, <1>6, <1>7 DEF DirNext
<1> QED
  BY <1>8 DEF Undisturbed, DirTypes, Counted

\* While no silo joins, leaves or changes its ring and no grain is deactivated, a grain
\* runs on one silo at most, whatever is lost, late, retried or cached.
THEOREM OneHostUndisturbed == DirSpec => []SingleHostUndisturbed
<1>1. DirInit => DirInv /\ EpochCoversEntries
  <2> SUFFICES ASSUME DirInit PROVE DirInv /\ EpochCoversEntries
    OBVIOUS
  <2>1. \A s, t \in Silos : ring[s] # {} /\ ring[t] # {} => ring[s] = ring[t]
    BY DEF DirInit
  <2>2. QuietInv
    BY <2>1 DEF DirInit, QuietInv, NoRebuild
  <2> QED
    BY <2>2, DirStart DEF DirInit, DirInv
<1>2. DirInv /\ EpochCoversEntries /\ [DirNext]_dirVars => (DirInv /\ EpochCoversEntries)'
  <2> SUFFICES ASSUME EpochCoversEntries, DirInv, [DirNext]_dirVars
               PROVE  DirInv' /\ EpochCoversEntries'
    OBVIOUS
  <2>1. DirTypes' /\ EpochCoversEntries'
    BY DirTyped DEF DirInv
  <2>2. Undisturbed' => Undisturbed /\ QuietInv
    BY StaysDisturbed DEF DirInv
  <2>3. ASSUME NEW c \in Calls, CallStep(c)
        PROVE  DirInv'
    <3>1. Undisturbed' => QuietInv'
      BY <2>2, <2>3, CallQuiet DEF DirInv
    <3>2. cpc' = [d \in Calls |-> cpc'[d]] /\ asked' = [d \in Calls |-> asked'[d]]
      BY <2>3, CallShape DEF DirInv
    <3> QED
      BY <2>1, <3>1, <3>2 DEF DirInv
  <2>4. CASE \A c \in Calls : ~CallStep(c)
    <3>1. UNCHANGED <<cpc, asked>>
      BY <2>4, OtherShape
    <3>2. Undisturbed' => QuietInv'
      BY <2>2, <2>4, OtherQuiet DEF DirInv, DirNext
    <3> QED
      BY <2>1, <3>1, <3>2 DEF DirInv
  <2> QED
    BY <2>1, <2>3, <2>4
<1>3. DirInv => SingleHostUndisturbed
  BY QuietHosts DEF DirInv, SingleHostUndisturbed, Undisturbed
<1> QED
  BY <1>1, <1>2, <1>3, PTL DEF DirSpec
-----------------------------------------------------------------------------
(* Where messages go and what entries name.                                *)

\* An entry that names a silo, or none.
Held == Entries \union {None}

\* What the owner of a grain is: a silo of the ring, unless the ring is empty.
LEMMA OwnerTyped ==
  ASSUME NEW g \in Grains, NEW R, R \subseteq Silos
  PROVE  /\ NodesIn(NodesOf, R)
         /\ R = {} => Owner(g, R) = NoOwner
         /\ R # {} => Owner(g, R) \in R /\ Owner(g, R) # NoOwner
<1>1. R \subseteq Nat /\ IsFiniteSet(R)
  BY DirectoryAssumption, FS_Subset
<1>2. NodesIn(NodesOf, R)
  BY <1>1, DirectoryAssumption DEF NodesIn
<1>3. HashOf[g] \in Nat
  BY DirectoryAssumption
<1>4. /\ R = {} => OwnerOf(NodesOf, R, HashOf[g]) = NoOwner
      /\ R # {} => OwnerOf(NodesOf, R, HashOf[g]) \in R
  BY <1>2, <1>3, OwnerIs
<1> QED
  BY <1>1, <1>2, <1>4 DEF Owner, NoOwner

\* One entry of a table changes.
LEMMA HeldSet ==
  ASSUME NEW f \in [Silos -> [Grains -> Held]], NEW s, NEW g, NEW e \in Held
  PROVE  [f EXCEPT ![s][g] = e] \in [Silos -> [Grains -> Held]]
<1>1. ASSUME NEW h \in [Grains -> Held] PROVE [h EXCEPT ![g] = e] \in [Grains -> Held]
  OBVIOUS
<1>2. CASE s \in Silos
  BY <1>1, <1>2
<1>3. CASE s \notin Silos
  BY <1>3
<1> QED
  BY <1>2, <1>3

\* One entry of a table is forgotten.
LEMMA HeldForget ==
  ASSUME NEW f \in [Silos -> [Grains -> Held]], NEW s, NEW g
  PROVE  [f EXCEPT ![s][g] = None] \in [Silos -> [Grains -> Held]]
<1>1. None \in Held
  BY DEF Held
<1> QED
  BY <1>1, HeldSet

\* No entry, and the entry of a silo at any epoch, are values of the tables.
LEMMA NoneHeld == None \in Held /\ \A s \in Silos, e \in Nat : Entry(s, e) \in Entries
BY DEF Held, Entries, Entry

\* What a resolve returns names a silo.
LEMMA AnswersHeld ==
  ASSUME DirTypes, DirTypeOK, NEW o \in Silos, NEW s \in Silos, NEW g \in Grains,
         NEW e \in Answers(o, s, g), ResolveAt(o, s, g, e)
  PROVE  e \in Held /\ owned' \in [Silos -> [Grains -> Held]]
<1>1. owned \in [Silos -> [Grains -> Held]] /\ epoch[o] + 1 \in Nat /\ ring[o] \subseteq Silos
  BY DEF DirTypeOK, Held
<1>2. CASE owned[o][g] # None
  <2>1. e = owned[o][g] /\ owned' = owned
    BY <1>2 DEF ResolveAt
  <2> QED
    BY <1>1, <2>1
<1>3. CASE owned[o][g] = None
  <2>1. PICK chosen \in PickSilo(s, ring[o]) :
          e = Entry(chosen, epoch[o] + 1) /\ owned' = [owned EXCEPT ![o][g] = e]
    BY <1>3 DEF ResolveAt
  <2>2. chosen \in Silos
    BY <1>1 DEF PickSilo
  <2>3. e \in Held
    BY <1>1, <2>1, <2>2, NoneHeld DEF Held
  <2> QED
    BY <1>1, <2>1, <2>3, HeldSet
<1> QED
  BY <1>2, <1>3

CallStates == {"idle", "asking", "abandoned", "answered", "routed", "broken", "retry", "done",
               "failed"}

\* What the steps of a call must leave typed, besides what DirTypes says.
CallHeld ==
  /\ owned \in [Silos -> [Grains -> Held]]
  /\ cache \in [Silos -> [Grains -> Held]]
  /\ cpc \in [Calls -> CallStates]
  /\ entry \in [Calls -> Held]
  /\ asked \in [Calls -> Silos \union {NoOwner}]
  /\ again \in [Calls -> BOOLEAN]
RestHeld ==
  /\ \A s \in Silos : rebuild[s].peers \in SUBSET Silos
  /\ \A m \in net : m.to \in Silos /\ m.grain \in Grains /\ m.entry \in Entries

\* The tables of entries, also after one entry is dropped.
LEMMA TablesForget ==
  ASSUME CallHeld, NEW s, NEW g
  PROVE  /\ owned \in [Silos -> [Grains -> Held]]
         /\ cache \in [Silos -> [Grains -> Held]]
         /\ [owned EXCEPT ![s][g] = None] \in [Silos -> [Grains -> Held]]
         /\ [cache EXCEPT ![s][g] = None] \in [Silos -> [Grains -> Held]]
<1>1. owned \in [Silos -> [Grains -> Held]] /\ cache \in [Silos -> [Grains -> Held]]
  BY DEF CallHeld
<1>2. [owned EXCEPT ![s][g] = None] \in [Silos -> [Grains -> Held]]
  BY <1>1, HeldForget
<1>3. [cache EXCEPT ![s][g] = None] \in [Silos -> [Grains -> Held]]
  BY <1>1, HeldForget
<1> QED
  BY <1>1, <1>2, <1>3

\* The two parts, with the types of the earlier proofs, are DirTypeOK.
LEMMA HeldIsTyped == DirTypes => (DirTypeOK <=> CallHeld /\ RestHeld)
BY DEF DirTypes, RebuildOK, DirTypeOK, CallHeld, RestHeld, Held, CallStates

\* A call that is routed holds the entry it is routed by.
LEMMA RouteHeld ==
  ASSUME CallHeld, NEW c \in Calls, NEW s, NEW g, NEW e \in Held, Route(c, s, g, e)
  PROVE  entry' \in [Calls -> Held] /\ cpc' \in [Calls -> CallStates]
BY DEF CallHeld, Route, CallStates

\* The part of a silo in resolve_or_activate.
LEMMA ResolveHeld ==
  ASSUME DirTypes, CallHeld, RestHeld, NEW c \in Calls, NEW s \in Silos, NEW g \in Grains,
         ResolveFrom(c, s, g)
  PROVE  /\ owned' \in [Silos -> [Grains -> Held]]
         /\ cache' \in [Silos -> [Grains -> Held]]
         /\ cpc' \in [Calls -> CallStates]
         /\ entry' \in [Calls -> Held]
         /\ asked' \in [Calls -> Silos \union {NoOwner}]
<1> DEFINE o == Owner(g, ring[s])
<1>1. o \in Silos \union {NoOwner}
  BY OwnerTyped DEF DirTypes
<1> HIDE DEF o
<1>2. CASE Route(c, s, g, cache[s][g]) /\ UNCHANGED <<owned, cache, asked>>
  <2>1. cache[s][g] \in Held
    BY DEF CallHeld
  <2> QED
    BY <1>2, <2>1, RouteHeld DEF CallHeld
<1>3. ASSUME NEW e \in Answers(s, s, g), ResolveAt(s, s, g, e), Route(c, s, g, e),
             cache' = [cache EXCEPT ![s][g] = e], asked' = asked
      PROVE  /\ owned' \in [Silos -> [Grains -> Held]]
             /\ cache' \in [Silos -> [Grains -> Held]]
             /\ cpc' \in [Calls -> CallStates]
             /\ entry' \in [Calls -> Held]
             /\ asked' \in [Calls -> Silos \union {NoOwner}]
  <2>1. e \in Held /\ owned' \in [Silos -> [Grains -> Held]]
    BY <1>3, AnswersHeld, HeldIsTyped
  <2>2. cache' \in [Silos -> [Grains -> Held]]
    BY <1>3, <2>1, HeldSet DEF CallHeld
  <2>3. entry' \in [Calls -> Held] /\ cpc' \in [Calls -> CallStates]
    BY <1>3, <2>1, RouteHeld
  <2> QED
    BY <1>3, <2>1, <2>2, <2>3 DEF CallHeld
<1>4. CASE /\ asked' = [asked EXCEPT ![c] = o] /\ cpc' = [cpc EXCEPT ![c] = "asking"]
           /\ UNCHANGED <<owned, cache, entry>>
  BY <1>1, <1>4 DEF CallHeld, CallStates
<1>5. CASE cpc' = [cpc EXCEPT ![c] = "failed"] /\ UNCHANGED <<owned, cache, asked, entry>>
  BY <1>5 DEF CallHeld, CallStates
<1> QED
  BY <1>2, <1>3, <1>4, <1>5 DEF ResolveFrom, o

\* The steps of a call.
LEMMA CallHolds ==
  ASSUME DirTypes, CallHeld, RestHeld, NEW c \in Calls, CallStep(c)
  PROVE  CallHeld' /\ RestHeld'
<1>1. from[c] \in Silos /\ grain[c] \in Grains
  BY DirectoryAssumption DEF DirTypes
<1>2. UNCHANGED <<rebuild, net>>
  BY DEF CallStep, Invoke, Retry, ServeResolve, ReceiveEntry, ResolveFails, AbandonedLost, Run,
         Unreachable, DeadlinePasses, ConnectionError, parts
<1>3. RestHeld'
  BY <1>2 DEF RestHeld
<1>4. CASE Invoke(c) \/ Retry(c)
  <2>1. ResolveFrom(c, from[c], grain[c])
    BY <1>4 DEF Invoke, Retry
  <2>2. again' = again \/ again' = [again EXCEPT ![c] = TRUE]
    BY <1>4 DEF Invoke, Retry
  <2>3. again' \in [Calls -> BOOLEAN]
    BY <2>2 DEF CallHeld
  <2> QED
    BY <1>1, <1>3, <2>1, <2>3, ResolveHeld DEF CallHeld
<1>5. CASE ServeResolve(c)
  <2>1. asked[c] \in Silos
    BY <1>5 DEF ServeResolve, DirTypes
  <2>2. PICK e \in Answers(asked[c], from[c], grain[c]) :
          /\ ResolveAt(asked[c], from[c], grain[c], e)
          /\ entry' = [entry EXCEPT ![c] = e]
    BY <1>5 DEF ServeResolve
  <2>3. e \in Held /\ owned' \in [Silos -> [Grains -> Held]]
    BY <1>1, <2>1, <2>2, AnswersHeld, HeldIsTyped
  <2>4. entry' \in [Calls -> Held]
    BY <2>2, <2>3 DEF CallHeld
  <2>5. cpc' \in [Calls -> CallStates] /\ UNCHANGED <<cache, asked, again>>
    BY <1>5 DEF ServeResolve, CallHeld, CallStates
  <2> QED
    BY <1>3, <2>3, <2>4, <2>5 DEF CallHeld
<1>6. CASE ReceiveEntry(c)
  <2>1. entry[c] \in Held
    BY DEF CallHeld
  <2>2. entry' \in [Calls -> Held] /\ cpc' \in [Calls -> CallStates]
    BY <1>6, <2>1, RouteHeld DEF ReceiveEntry
  <2>3. cache' \in [Silos -> [Grains -> Held]] /\ UNCHANGED <<owned, asked, again>>
    BY <1>6, <2>1, HeldSet DEF ReceiveEntry, CallHeld
  <2> QED
    BY <1>3, <2>2, <2>3 DEF CallHeld
<1>7. CASE ConnectionError(c)
  <2>1. cache' = cache \/ cache' = [cache EXCEPT ![from[c]][grain[c]] = None]
    BY <1>7 DEF ConnectionError
  <2>2. cache' \in [Silos -> [Grains -> Held]]
    <3>1. [cache EXCEPT ![from[c]][grain[c]] = None] \in [Silos -> [Grains -> Held]]
      BY TablesForget
    <3> QED
      BY <2>1, <3>1 DEF CallHeld
  <2>3. cpc' \in [Calls -> CallStates] /\ UNCHANGED <<owned, entry, asked, again>>
    BY <1>7 DEF ConnectionError, CallHeld, CallStates
  <2> QED
    BY <1>3, <2>2, <2>3 DEF CallHeld
<1>8. CASE ResolveFails(c) \/ AbandonedLost(c) \/ Run(c) \/ Unreachable(c) \/ DeadlinePasses(c)
  <2>1. UNCHANGED <<owned, cache, entry, asked, again>>
    BY <1>8 DEF ResolveFails, AbandonedLost, Run, Unreachable, DeadlinePasses, parts
  <2>2. cpc' \in [Calls -> CallStates]
    BY <1>8 DEF ResolveFails, AbandonedLost, Run, Unreachable, DeadlinePasses, CallHeld, CallStates
  <2> QED
    BY <1>3, <2>1, <2>2 DEF CallHeld
<1> QED
  BY <1>4, <1>5, <1>6, <1>7, <1>8 DEF CallStep

\* Where the other steps leave the calls and the rebuilds.
LEMMA StandDownHolds ==
  ASSUME DirTypes, CallHeld, RestHeld, NEW s \in Silos, NEW g \in Grains,
         NEW rest, rest \subseteq net, StandDown(s, g, rest), UNCHANGED <<rebuild, call>>
  PROVE  CallHeld' /\ RestHeld'
<1> DEFINE o == Owner(g, ring[s])
<1>1. o \in Silos \union {NoOwner}
  BY OwnerTyped DEF DirTypes
<1>2. owned' \in [Silos -> [Grains -> Held]]
  <2>1. owned' = owned \/ owned' = [owned EXCEPT ![s][g] = None]
    BY DEF StandDown, UnregisterAt
  <2>2. [owned EXCEPT ![s][g] = None] \in [Silos -> [Grains -> Held]]
    BY TablesForget
  <2> QED
    BY <2>1, <2>2 DEF CallHeld
<1>3. cache' \in [Silos -> [Grains -> Held]]
  <2>1. cache' = cache \/ cache' = [cache EXCEPT ![s][g] = None]
    BY DEF StandDown
  <2>2. [cache EXCEPT ![s][g] = None] \in [Silos -> [Grains -> Held]]
    BY TablesForget
  <2> QED
    BY <2>1, <2>2 DEF CallHeld
<1>4. ASSUME NEW m \in net' PROVE m.to \in Silos /\ m.grain \in Grains /\ m.entry \in Entries
  <2>1. m \in net \/ (o # NoOwner /\ m = Unregister(o, g, s))
    BY DEF StandDown
  <2>2. CASE m \in net
    BY <2>2 DEF RestHeld
  <2>3. CASE o # NoOwner /\ m = Unregister(o, g, s)
    <3>1. Entry(s, 0) \in Entries
      BY NoneHeld
    <3> QED
      BY <1>1, <2>3, <3>1 DEF Unregister
  <2> QED
    BY <2>1, <2>2, <2>3
<1> QED
  BY <1>2, <1>3, <1>4 DEF CallHeld, RestHeld, call

\* The steps that deactivate a grain or forget an entry.
LEMMA DeactivationHolds ==
  ASSUME DirTypes, CallHeld, RestHeld,
         \/ \E s \in Silos, g \in Grains : IdleDeactivate(s, g) \/ CacheDrops(s, g)
         \/ \E m \in net : ServeUnregister(m) \/ ApplyDeactivate(m) \/ MessageLost(m)
  PROVE  CallHeld' /\ RestHeld'
<1>1. ASSUME NEW s \in Silos, NEW g \in Grains, IdleDeactivate(s, g)
      PROVE  CallHeld' /\ RestHeld'
  BY <1>1, StandDownHolds DEF IdleDeactivate
<1>2. ASSUME NEW s \in Silos, NEW g \in Grains, CacheDrops(s, g)
      PROVE  CallHeld' /\ RestHeld'
  BY <1>2, TablesForget DEF CacheDrops, CallHeld, RestHeld, call
<1>3. ASSUME NEW m \in net, ServeUnregister(m) PROVE CallHeld' /\ RestHeld'
  <2>1. owned' = owned \/ owned' = [owned EXCEPT ![m.to][m.grain] = None]
    BY <1>3 DEF ServeUnregister, UnregisterAt
  <2>2. /\ cache' = [cache EXCEPT ![m.entry.silo][m.grain] = None]
        /\ net' \subseteq net /\ UNCHANGED <<rebuild, call>>
    BY <1>3 DEF ServeUnregister
  <2>3. owned' \in [Silos -> [Grains -> Held]]
    <3>1. [owned EXCEPT ![m.to][m.grain] = None] \in [Silos -> [Grains -> Held]]
      BY TablesForget
    <3> QED
      BY <2>1, <3>1 DEF CallHeld
  <2>4. cache' \in [Silos -> [Grains -> Held]]
    BY <2>2, TablesForget
  <2> QED
    BY <2>2, <2>3, <2>4 DEF CallHeld, RestHeld, call
<1>4. ASSUME NEW m \in net, ApplyDeactivate(m) PROVE CallHeld' /\ RestHeld'
  <2>1. m.to \in Silos /\ m.grain \in Grains
    BY DEF RestHeld
  <2>2. CASE m.grain \in hosted[m.to]
    BY <1>4, <2>1, <2>2, StandDownHolds DEF ApplyDeactivate
  <2>3. CASE m.grain \notin hosted[m.to]
    BY <1>4, <2>3 DEF ApplyDeactivate, CallHeld, RestHeld, call
  <2> QED
    BY <2>2, <2>3
<1>5. ASSUME NEW m \in net, MessageLost(m) PROVE CallHeld' /\ RestHeld'
  <2>1. cache' = cache \/ cache' = [cache EXCEPT ![m.entry.silo][m.grain] = None]
    BY <1>5 DEF MessageLost
  <2>2. cache' \in [Silos -> [Grains -> Held]]
    <3>1. [cache EXCEPT ![m.entry.silo][m.grain] = None] \in [Silos -> [Grains -> Held]]
      BY TablesForget
    <3> QED
      BY <2>1, <3>1 DEF CallHeld
  <2> QED
    BY <1>5, <2>2 DEF MessageLost, CallHeld, RestHeld, call
<1> QED
  BY <1>1, <1>2, <1>3, <1>4, <1>5

\* A handoff carries an entry, and only the silo of an entry is told to stand down.
LEMMA HandoffHolds ==
  ASSUME DirTypes, CallHeld, RestHeld, NEW m \in net, ApplyHandoff(m)
  PROVE  CallHeld' /\ RestHeld'
<1> DEFINE o == m.to
           g == m.grain
           kept == owned[o][g]
           wins == kept = None \/ m.entry.epoch < kept.epoch
           loser == IF wins THEN kept ELSE m.entry
<1>1. o \in Silos /\ g \in Grains /\ m.entry \in Entries
  BY DEF RestHeld
<1>2. kept \in Held /\ loser \in Held
  BY <1>1 DEF CallHeld, Held
<1>3. UNCHANGED <<rebuild, cache, call>>
  BY DEF ApplyHandoff
<1>4. owned' = owned \/ owned' = [owned EXCEPT ![o][g] = m.entry]
  BY DEF ApplyHandoff
<1>5. \A n \in net' : n \in net \/ n \in StandDownOrder(o, g, loser)
  BY DEF ApplyHandoff
<1> HIDE DEF o, g, kept, wins, loser
<1>6. owned' \in [Silos -> [Grains -> Held]]
  <2>1. m.entry \in Held
    BY <1>1 DEF Held
  <2>2. owned \in [Silos -> [Grains -> Held]]
    BY DEF CallHeld
  <2>3. [owned EXCEPT ![o][g] = m.entry] \in [Silos -> [Grains -> Held]]
    BY <2>1, <2>2, HeldSet
  <2> QED
    BY <1>4, <2>2, <2>3
<1>7. ASSUME NEW n \in StandDownOrder(o, g, loser)
      PROVE  n.to \in Silos /\ n.grain \in Grains /\ n.entry \in Entries
  <2>1. loser.silo # NoOwner /\ n = Deactivate(loser.silo, g, loser)
    BY DEF StandDownOrder
  <2>2. loser \in Entries
    BY <1>2, <2>1 DEF Held, None
  <2> QED
    BY <1>1, <2>1, <2>2 DEF Deactivate, Entries
<1>8. \A n \in net' : n.to \in Silos /\ n.grain \in Grains /\ n.entry \in Entries
  BY <1>5, <1>7 DEF RestHeld
<1> QED
  BY <1>3, <1>6, <1>8 DEF CallHeld, RestHeld, call

\* Entries are handed off to a silo of the new ring, which is never empty.
LEMMA ChangeHolds ==
  ASSUME DirTypes, CallHeld, RestHeld, NEW s \in Silos,
         Crash(s) \/ \E view \in Views : MembershipChanged(s, view \union {s})
  PROVE  CallHeld' /\ RestHeld'
<1>1. CASE Crash(s)
  BY <1>1 DEF Crash, CallHeld, RestHeld, parts, call
<1>2. ASSUME NEW view \in Views, MembershipChanged(s, view \union {s})
      PROVE  CallHeld' /\ RestHeld'
  <2> DEFINE active == view \union {s}
             moved == {g \in Grains : owned[s][g] # None /\ Owner(g, active) # s}
             arcs == NewArcs(NodesOf, ring[s], active, s)
  <2>1. active \subseteq Silos /\ active # {}
    BY DirectoryAssumption
  <2>2. \A g \in moved : g \in Grains /\ owned[s][g] # None
    OBVIOUS
  <2>3. /\ cache' = [cache EXCEPT ![s] = [g \in Grains |-> None]]
        /\ owned' = [owned EXCEPT ![s] = [g \in Grains |-> IF g \in moved THEN None ELSE @[g]]]
        /\ net' = net \union {Handoff(Owner(g, active), g, owned[s][g]) : g \in moved}
        /\ rebuild' = IF arcs = {} \/ active = {s} THEN rebuild
                      ELSE [rebuild EXCEPT ![s] =
                              [arcs |-> arcs, peers |-> active \ {s}, found |-> {}]]
        /\ UNCHANGED call
    BY <1>2 DEF MembershipChanged
  <2> HIDE DEF active, arcs, moved
  <2>4. /\ [g \in Grains |-> None] \in [Grains -> Held]
        /\ [g \in Grains |-> IF g \in moved THEN None ELSE owned[s][g]] \in [Grains -> Held]
    BY NoneHeld DEF CallHeld
  <2>5. cache' \in [Silos -> [Grains -> Held]] /\ owned' \in [Silos -> [Grains -> Held]]
    BY <2>3, <2>4 DEF CallHeld
  <2>6. ASSUME NEW m \in net' PROVE m.to \in Silos /\ m.grain \in Grains /\ m.entry \in Entries
    <3>1. CASE m \in net
      BY <3>1 DEF RestHeld
    <3>2. CASE m \notin net
      <4>1. PICK g \in moved : m = Handoff(Owner(g, active), g, owned[s][g])
        BY <2>3, <3>2
      <4>2. Owner(g, active) \in Silos
        BY <2>1, <2>2, OwnerTyped
      <4>3. owned[s][g] \in Entries
        BY <2>2 DEF CallHeld, Held
      <4> QED
        BY <2>2, <4>1, <4>2, <4>3 DEF Handoff
    <3> QED
      BY <3>1, <3>2
  <2>7. ASSUME NEW t \in Silos PROVE rebuild'[t].peers \subseteq Silos
    BY <2>1, <2>3 DEF RestHeld, DirTypes, RebuildOK
  <2> QED
    BY <2>3, <2>5, <2>6, <2>7 DEF CallHeld, RestHeld, call
<1> QED
  BY <1>1, <1>2

\* The steps of a rebuild.
LEMMA RebuildHolds ==
  ASSUME DirTypes, CallHeld, RestHeld, NEW s \in Silos,
         FinishRebuild(s) \/ \E p \in Silos : QueryAnswered(s, p) \/ QueryFails(s, p)
  PROVE  CallHeld' /\ RestHeld'
<1>1. ASSUME NEW p \in Silos, NEW f,
             rebuild' = [rebuild EXCEPT ![s] =
                           [arcs |-> rebuild[s].arcs, peers |-> rebuild[s].peers \ {p},
                            found |-> f]],
             UNCHANGED <<owned, cache, net, call>>
      PROVE  CallHeld' /\ RestHeld'
  <2>1. \A t \in Silos : rebuild'[t].peers \subseteq rebuild[t].peers
    BY <1>1 DEF DirTypes, RebuildOK
  <2> QED
    BY <1>1, <2>1 DEF CallHeld, RestHeld, call
<1>2. ASSUME NEW p \in Silos, QueryAnswered(s, p) \/ QueryFails(s, p)
      PROVE  CallHeld' /\ RestHeld'
  BY <1>1, <1>2 DEF QueryAnswered, QueryFails
<1>3. CASE FinishRebuild(s)
  <2> DEFINE hosts(g) == {p \in Silos : <<g, p>> \in rebuild[s].found}
             winner(g) == CHOOSE p \in hosts(g) : \A q \in hosts(g) : p <= q
             losers == {y \in rebuild[s].found : y[2] \notin {s, winner(y[1])}}
  <2>1. ASSUME NEW g \in Grains, hosts(g) # {} PROVE winner(g) \in Silos
    <3>1. \E p \in hosts(g) : \A q \in hosts(g) : p <= q
      BY <2>1, SmallestSilo
    <3> QED
      BY <3>1
  <2>2. losers \subseteq Grains \X Silos
    BY DEF DirTypes, RebuildOK
  <2>3. /\ owned' = [owned EXCEPT ![s] =
             [g \in Grains |-> IF hosts(g) = {} THEN owned[s][g] ELSE Entry(winner(g), 0)]]
        /\ net' = net \union {Deactivate(x[2], x[1], Entry(x[2], 0)) : x \in losers}
        /\ rebuild' = [rebuild EXCEPT ![s] = NoRebuild]
        /\ UNCHANGED <<cache, call>>
    BY <1>3 DEF FinishRebuild
  <2> HIDE DEF hosts, winner, losers
  <2>4. ASSUME NEW g \in Grains, hosts(g) # {} PROVE Entry(winner(g), 0) \in Held
    BY <2>1, <2>4, NoneHeld DEF Held
  <2>5. [g \in Grains |-> IF hosts(g) = {} THEN owned[s][g] ELSE Entry(winner(g), 0)]
          \in [Grains -> Held]
    BY <2>4 DEF CallHeld
  <2>6. owned' \in [Silos -> [Grains -> Held]]
    BY <2>3, <2>5 DEF CallHeld
  <2>7. ASSUME NEW m \in net' PROVE m.to \in Silos /\ m.grain \in Grains /\ m.entry \in Entries
    <3>1. CASE m \in net
      BY <3>1 DEF RestHeld
    <3>2. CASE m \notin net
      <4>1. PICK x \in losers : m = Deactivate(x[2], x[1], Entry(x[2], 0))
        BY <2>3, <3>2
      <4>2. x[1] \in Grains /\ x[2] \in Silos
        BY <2>2
      <4>3. Entry(x[2], 0) \in Entries
        BY <4>2, NoneHeld
      <4> QED
        BY <4>1, <4>2, <4>3 DEF Deactivate
    <3> QED
      BY <3>1, <3>2
  <2>8. ASSUME NEW t \in Silos PROVE rebuild'[t].peers \subseteq Silos
    BY <2>3 DEF RestHeld, DirTypes, RebuildOK, NoRebuild
  <2> QED
    BY <2>3, <2>6, <2>7, <2>8 DEF CallHeld, RestHeld, call
<1> QED
  BY <1>2, <1>3

\* Messages are addressed to silos, and every entry kept, cached or sent names one: no
\* silo hands off, unregisters or stands down towards "nobody" (on_membership_changed
\* with an emptied ring, _notify_deactivate for an entry that was not there).
THEOREM DirTypesHold == DirSpec => []DirTypeOK
<1>1. DirInit => CallHeld /\ RestHeld
  <2> SUFFICES ASSUME DirInit PROVE CallHeld /\ RestHeld
    OBVIOUS
  <2>1. asked \in [Calls -> Silos \union {NoOwner}]
    BY DEF DirInit
  <2> QED
    BY <2>1, NoneHeld DEF DirInit, CallHeld, RestHeld, CallStates, NoRebuild
<1>2. DirTypes /\ CallHeld /\ RestHeld /\ [DirNext]_dirVars => CallHeld' /\ RestHeld'
  <2> SUFFICES ASSUME DirTypes, CallHeld, RestHeld, [DirNext]_dirVars
               PROVE  CallHeld' /\ RestHeld'
    OBVIOUS
  <2>1. CASE DirNext
    BY <2>1, CallHolds, DeactivationHolds, HandoffHolds, ChangeHolds, RebuildHolds DEF DirNext
  <2>2. CASE UNCHANGED dirVars
    BY <2>2 DEF dirVars, parts, call, CallHeld, RestHeld
  <2> QED
    BY <2>1, <2>2
<1>3. DirTypes /\ EpochCoversEntries /\ [DirNext]_dirVars => (DirTypes /\ EpochCoversEntries)'
  BY DirTyped
<1> QED
  BY <1>1, <1>2, <1>3, DirStart, HeldIsTyped, PTL DEF DirSpec
-----------------------------------------------------------------------------
(* What a rebuild asks for.                                                *)

\* Until the ring changes no rebuild has begun, and a silo is on its own ring if it has
\* one; after the first change, a rebuild still under way asks for all that its silo owns.
ArcsFit ==
  /\ changes = 0 => \A s \in Silos : rebuild[s].peers = {} /\ (ring[s] = {} \/ s \in ring[s])
  /\ changes = 1 =>
       \A s \in Silos : rebuild[s].peers # {} =>
         \A g \in Grains : Owner(g, ring[s]) = s =>
           \E arc \in rebuild[s].arcs : Within(arc, HashOf[g])

\* No two silos have a virtual node with the same hash.
HashesDiffer == \A s, t \in Silos : s # t => NodesOf[s] \cap NodesOf[t] = {}

\* A virtual node that no other silo's has the hash of names the owner of that hash.
LEMMA OwnNode ==
  ASSUME HashesDiffer, NEW R, R \subseteq Silos, NEW s \in R, NEW p \in NodesOf[s]
  PROVE  OwnerOf(NodesOf, R, p) = s
<1> DEFINE P == Points(NodesOf, R)
           after == {x \in P : x.pos >= p}
           me == Point(p, s)
<1>1. NodesIn(NodesOf, R) /\ s \in Nat /\ p \in Nat
  <2>1. R \subseteq Nat /\ IsFiniteSet(R)
    BY DirectoryAssumption, FS_Subset
  <2> QED
    BY <2>1, DirectoryAssumption DEF NodesIn
<1>2. /\ P \subseteq PointType /\ P # {} /\ me \in P
      /\ \A x \in P : x.silo \in R /\ x.pos \in NodesOf[x.silo]
  BY <1>1, PointsAre
<1>3. me.pos = p /\ me.silo = s /\ me \in PointType
  BY <1>1 DEF Point, PointType
<1> HIDE DEF P, me
<1>4. me \in after /\ after \subseteq PointType
  BY <1>1, <1>2, <1>3
<1> DEFINE x == Lowest(after)
<1>5. x \in after /\ \A y \in after \ {x} : Before(x, y)
  BY <1>4, LowestIs
<1> HIDE DEF x
<1>6. x = me
  <2>1. SUFFICES ASSUME x # me PROVE FALSE
    OBVIOUS
  <2>2. Before(x, me) /\ x \in P /\ x \in PointType
    BY <1>2, <1>4, <1>5, <2>1
  <2>3. x.pos = p /\ x.silo < s
    BY <1>1, <1>3, <1>5, <2>2 DEF Before, PointType
  <2>4. p \in NodesOf[x.silo] /\ x.silo \in Silos /\ x.silo # s
    BY <1>1, <1>2, <2>2, <2>3 DEF PointType
  <2> QED
    BY <2>4 DEF HashesDiffer
<1>7. OwnerOf(NodesOf, R, p) = Lowest(after).silo
  BY <1>2, <1>4 DEF OwnerOf, P
<1> QED
  BY <1>3, <1>6, <1>7 DEF x

\* The arcs for which a silo's first change of rings schedules a rebuild.
LEMMA FirstArcs ==
  ASSUME HashesDiffer, NEW s \in Silos, NEW old, old = {} \/ (old \subseteq Silos /\ s \in old),
         NEW active, active \subseteq Silos, s \in active, active # {s},
         NewArcs(NodesOf, old, active, s) # {}, NEW g \in Grains, Owner(g, active) = s
  PROVE  \E arc \in NewArcs(NodesOf, old, active, s) : Within(arc, HashOf[g])
<1> DEFINE P == Points(NodesOf, active)
<1>1. NodesIn(NodesOf, active) /\ s \in Nat /\ HashOf[g] \in Nat
  BY OwnerTyped, DirectoryAssumption
<1>2. \A x \in P : x.silo \in active /\ x.pos \in NodesOf[x.silo]
  BY <1>1, PointsAre
<1>3. old = {}
  <2> SUFFICES ASSUME old \subseteq Silos, s \in old PROVE FALSE
    OBVIOUS
  <2>1. \A x \in P : x.silo = s => OwnerOf(NodesOf, old, x.pos) = s
    BY <1>2, OwnNode
  <2>2. NewArcs(NodesOf, old, active, s) = {}
    BY <2>1 DEF NewArcs
  <2> QED
    BY <2>2
<1>4. \A x \in P : OwnerOf(NodesOf, old, x.pos) # s
  BY <1>1, <1>3 DEF OwnerOf, Points, NoOwner
<1>5. \E y, z \in P : y.pos # z.pos
  <2>1. PICK t \in active : t # s
    OBVIOUS
  <2>2. t \in Silos
    OBVIOUS
  <2>3. PICK p \in NodesOf[s], q \in NodesOf[t] : TRUE
    BY <2>2, DirectoryAssumption
  <2>4. p # q
    BY <2>1, <2>2, <2>3 DEF HashesDiffer
  <2>5. Point(p, s) \in P /\ Point(q, t) \in P
    BY <1>1, <2>3, PointsAre
  <2> QED
    BY <2>4, <2>5 DEF Point
<1>6. OwnerOf(NodesOf, active, HashOf[g]) = s
  BY DEF Owner
<1> QED
  BY <1>1, <1>4, <1>5, <1>6, ArcsCover

\* Only a change of rings counts as one, and starts a rebuild.
LEMMA ArcsFrame ==
  ASSUME DirTypes, ArcsFit, UNCHANGED <<ring, changes>>,
         \A s \in Silos : rebuild'[s].peers # {} =>
           rebuild[s].peers # {} /\ rebuild'[s].arcs = rebuild[s].arcs
  PROVE  ArcsFit'
BY DEF ArcsFit

\* A rebuild that goes on or ends leaves the arcs of the others and the rings alone.
LEMMA RebuildFits ==
  ASSUME DirTypes, ArcsFit, NEW s \in Silos,
         FinishRebuild(s) \/ \E p \in Silos : QueryAnswered(s, p) \/ QueryFails(s, p)
  PROVE  ArcsFit'
<1>1. UNCHANGED <<ring, changes>>
  BY DEF FinishRebuild, QueryAnswered, QueryFails, counts
<1>2. CASE FinishRebuild(s)
  <2>1. rebuild' = [rebuild EXCEPT ![s] = NoRebuild]
    BY <1>2 DEF FinishRebuild
  <2> QED
    BY <1>1, <2>1, ArcsFrame DEF NoRebuild, DirTypes, RebuildOK
<1>3. ASSUME NEW p \in Silos, QueryAnswered(s, p) \/ QueryFails(s, p) PROVE ArcsFit'
  <2>1. \E f : rebuild' = [rebuild EXCEPT ![s] =
                 [arcs |-> rebuild[s].arcs, peers |-> rebuild[s].peers \ {p}, found |-> f]]
    BY <1>3 DEF QueryAnswered, QueryFails
  <2> QED
    BY <1>1, <2>1, ArcsFrame DEF DirTypes, RebuildOK
<1> QED
  BY <1>2, <1>3

\* A rebuild that a new ring schedules has the arcs of what the silo newly owns.
LEMMA ChangeFits ==
  ASSUME HashesDiffer, DirTypes, ArcsFit, NEW s \in Silos,
         NEW view \in Views, MembershipChanged(s, view \union {s})
  PROVE  ArcsFit'
<1> DEFINE active == view \union {s}
           arcs == NewArcs(NodesOf, ring[s], active, s)
<1>1. active \subseteq Silos /\ s \in active
  BY DirectoryAssumption
<1>2. /\ changes' = changes + 1
      /\ ring' = [ring EXCEPT ![s] = active]
      /\ rebuild' = IF arcs = {} \/ active = {s} THEN rebuild
                    ELSE [rebuild EXCEPT ![s] =
                            [arcs |-> arcs, peers |-> active \ {s}, found |-> {}]]
  BY DEF MembershipChanged
<1>7. CASE changes # 0
  <2>1. changes' # 0 /\ changes' # 1
    BY <1>2, <1>7 DEF DirTypes
  <2> QED
    BY <2>1 DEF ArcsFit
<1>3. SUFFICES ASSUME changes = 0 PROVE ArcsFit'
  BY <1>7
<1>4. ring[s] = {} \/ (ring[s] \subseteq Silos /\ s \in ring[s])
  BY <1>3 DEF ArcsFit, DirTypes
<1>5. ASSUME NEW t \in Silos, rebuild'[t].peers # {}, NEW g \in Grains, Owner(g, ring'[t]) = t
      PROVE  \E arc \in rebuild'[t].arcs : Within(arc, HashOf[g])
  <2>1. rebuild[t].peers = {}
    BY <1>3 DEF ArcsFit
  <2>2. t = s /\ arcs # {} /\ active # {s}
    BY <1>2, <1>5, <2>1 DEF DirTypes, RebuildOK
  <2>3. rebuild'[t].arcs = arcs /\ ring'[t] = active
    BY <1>2, <2>2 DEF DirTypes, RebuildOK
  <2> HIDE DEF active
  <2>4. \E arc \in NewArcs(NodesOf, ring[s], active, s) : Within(arc, HashOf[g])
    BY <1>1, <1>4, <1>5, <2>2, <2>3, FirstArcs
  <2> QED
    BY <2>3, <2>4
<1>6. changes' = 1
  BY <1>2, <1>3
<1> QED
  BY <1>5, <1>6 DEF ArcsFit

\* A silo that joins asks for all the keys it owns, so that it learns from every peer
\* that answers what that peer hosts of them (compute_new_arcs, the rebuild query),
\* wherever the keys wrap around; a silo that stays asks for nothing.  With a hash in
\* common, a silo that stays would ask for some of its keys only.
THEOREM RebuildsFindHosts ==
  ASSUME HashesDiffer
  PROVE  DirSpec => RebuildFindsHosts
<1>1. DirInit => ArcsFit
  BY DEF DirInit, ArcsFit, NoRebuild
<1>2. DirTypes /\ ArcsFit /\ [DirNext]_dirVars => ArcsFit'
  <2> SUFFICES ASSUME DirTypes, ArcsFit, [DirNext]_dirVars PROVE ArcsFit'
    OBVIOUS
  <2>1. ASSUME UNCHANGED <<ring, rebuild, changes>> PROVE ArcsFit'
    BY <2>1 DEF ArcsFit
  <2>2. ASSUME NEW c \in Calls, CallStep(c) PROVE UNCHANGED <<ring, rebuild, changes>>
    BY <2>2 DEF CallStep, Invoke, Retry, ServeResolve, ReceiveEntry, ResolveFails, AbandonedLost,
         Run, Unreachable, DeadlinePasses, ConnectionError, parts, counts
  <2>3. ASSUME NEW s \in Silos, NEW g \in Grains, IdleDeactivate(s, g) \/ CacheDrops(s, g)
        PROVE  UNCHANGED <<ring, rebuild, changes>>
    BY <2>3 DEF IdleDeactivate, CacheDrops, counts
  <2>4. ASSUME NEW m \in net,
               ServeUnregister(m) \/ ApplyDeactivate(m) \/ ApplyHandoff(m) \/ MessageLost(m)
        PROVE  UNCHANGED <<ring, rebuild, changes>>
    BY <2>4 DEF ServeUnregister, ApplyDeactivate, ApplyHandoff, MessageLost, counts
  <2>5. ASSUME NEW s \in Silos, Crash(s) PROVE UNCHANGED <<ring, rebuild, changes>>
    BY <2>5 DEF Crash, parts, counts
  <2>6. CASE UNCHANGED dirVars
    BY <2>1, <2>6 DEF dirVars, parts, counts
  <2> QED
    BY <2>1, <2>2, <2>3, <2>4, <2>5, <2>6, RebuildFits, ChangeFits DEF DirNext
<1>3. DirTypes /\ ArcsFit /\ [DirNext]_dirVars =>
        [\A s \in Silos, p \in Silos :
           QueryAnswered(s, p) /\ changes = 1 =>
             \A g \in hosted[p] : Owner(g, ring[s]) = s => <<g, p>> \in rebuild'[s].found]_dirVars
  <2> SUFFICES ASSUME DirTypes, ArcsFit, NEW s \in Silos, NEW p \in Silos,
                      QueryAnswered(s, p), changes = 1,
                      NEW g \in hosted[p], Owner(g, ring[s]) = s
               PROVE  <<g, p>> \in rebuild'[s].found
    OBVIOUS
  <2> DEFINE hits == {h \in hosted[p] : \E arc \in rebuild[s].arcs : Within(arc, HashOf[h])}
  <2>1. g \in Grains
    BY DEF DirTypes
  <2>2. p \in rebuild[s].peers
    BY DEF QueryAnswered
  <2>3. g \in hits
    BY <2>1, <2>2 DEF ArcsFit
  <2>4. rebuild' = [rebuild EXCEPT ![s] =
           [arcs |-> rebuild[s].arcs, peers |-> rebuild[s].peers \ {p},
            found |-> rebuild[s].found \union {<<h, p>> : h \in hits}]]
    BY DEF QueryAnswered
  <2> HIDE DEF hits
  <2>5. rebuild'[s].found = rebuild[s].found \union {<<h, p>> : h \in hits}
    BY <2>4 DEF DirTypes, RebuildOK
  <2> QED
    BY <2>3, <2>5
<1>4. DirTypes /\ EpochCoversEntries /\ [DirNext]_dirVars => (DirTypes /\ EpochCoversEntries)'
  BY DirTyped
<1> QED
  BY <1>1, <1>2, <1>3, <1>4, DirStart, PTL DEF DirSpec, RebuildFindsHosts
=============================================================================

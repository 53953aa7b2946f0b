------------------------------ MODULE SiloProofs ------------------------------
(***************************************************************************)
(* Proofs about RingChanges, for any silos, any virtual nodes, colliding   *)
(* or not, and any size of the hash; about SnapshotSpread, for any silos,  *)
(* table versions, crashes and losses; about SiloLifecycle, for any        *)
(* participants and stages and whatever starts or stops fail or hang; and  *)
(* about ConnectionManager, for any number of losses and failures.         *)
(***************************************************************************)
EXTENDS HashRingProofs, RingChanges, SnapshotSpread, SiloLifecycle, ConnectionManager,
        SequenceTheorems

RingTypeOK ==
  /\ vnodes \in [RingSilos -> SUBSET Hashes]
  /\ \A s \in RingSilos : vnodes[s] # {}
  /\ members \subseteq RingSilos
  /\ members # {}
  /\ was \subseteq RingSilos

\* The rings that RingChanges builds are ones that the lemmas on HashRing are about.
LEMMA RingsHaveNodes ==
  ASSUME RingTypeOK, NEW R, R \subseteq RingSilos
  PROVE  NodesIn(vnodes, R)
<1>1. R \subseteq Nat /\ IsFiniteSet(R)
  BY RingAssumption, FS_Subset
<1>2. IsFiniteSet(Hashes) /\ Hashes \subseteq Nat
  BY RingAssumption, FS_Interval DEF Hashes
<1>3. ASSUME NEW s \in R PROVE vnodes[s] \subseteq Nat /\ vnodes[s] # {} /\ IsFiniteSet(vnodes[s])
  <2>1. vnodes[s] \in SUBSET Hashes /\ vnodes[s] # {}
    BY DEF RingTypeOK
  <2> QED
    BY <1>2, <2>1, FS_Subset
<1> QED
  BY <1>1, <1>3 DEF NodesIn

\* Virtual nodes never change and rings are made of the silos.
THEOREM RingTypeCorrect == RingSpec => []RingTypeOK
<1>1. RingInit => RingTypeOK
  <2> SUFFICES ASSUME RingInit PROVE RingTypeOK
    OBVIOUS
  <2>1. Cardinality({}) # Vnodes
    <3>1. Vnodes \in Nat \ {0}
      BY RingAssumption
    <3>2. Cardinality({}) = 0
      BY FS_EmptySet
    <3> QED
      BY <3>1, <3>2
  <2>2. /\ vnodes \in [RingSilos -> SUBSET Hashes]
        /\ \A s \in RingSilos : Cardinality(vnodes[s]) = Vnodes
    BY DEF RingInit
  <2>3. \A s \in RingSilos : vnodes[s] # {}
    BY <2>1, <2>2
  <2>4. members \subseteq RingSilos /\ members # {} /\ was = members
    BY DEF RingInit
  <2> QED
    BY <2>2, <2>3, <2>4 DEF RingTypeOK
<1>2. RingTypeOK /\ [RingNext]_ringVars => RingTypeOK'
  <2> SUFFICES ASSUME RingTypeOK, [RingNext]_ringVars PROVE RingTypeOK'
    OBVIOUS
  <2>1. CASE RingNext
    <3>1. PICK active \in (SUBSET RingSilos) \ {{}} : RingChange(active)
      BY <2>1 DEF RingNext
    <3>2. active \subseteq RingSilos /\ active # {}
      OBVIOUS
    <3> QED
      BY <3>1, <3>2 DEF RingChange, RingTypeOK, Hashes
  <2>2. CASE UNCHANGED ringVars
    BY <2>2 DEF ringVars, RingTypeOK, Hashes
  <2> QED
    BY <2>1, <2>2
<1> QED
  BY <1>1, <1>2, PTL DEF RingSpec

\* A key changes hands only with a silo that leaves or joins.
THEOREM KeysStay == RingSpec => KeysMoveOnlyWithSilos
<1>1. RingTypeOK /\ RingTypeOK' /\ [RingNext]_ringVars =>
        [\A key \in Hashes :
           LET before == OwnerOf(vnodes, members, key)
               now == OwnerOf(vnodes, members', key) IN
           before # now => before \notin members' \/ now \notin members]_ringVars
  <2> SUFFICES ASSUME RingTypeOK, RingTypeOK', NEW key \in Hashes,
                      OwnerOf(vnodes, members, key) \in members',
                      OwnerOf(vnodes, members', key) \in members
               PROVE  OwnerOf(vnodes, members, key) = OwnerOf(vnodes, members', key)
    OBVIOUS
  <2>1. members \subseteq RingSilos /\ members' \subseteq RingSilos
    BY DEF RingTypeOK
  <2>2. NodesIn(vnodes, members) /\ NodesIn(vnodes, members')
    BY <2>1, RingsHaveNodes
  <2>3. key \in Nat
    BY RingAssumption DEF Hashes
  <2> QED
    BY <2>2, <2>3, OwnersAgree
<1> QED
  BY <1>1, RingTypeCorrect, PTL DEF RingSpec, KeysMoveOnlyWithSilos

\* The distance from a key to a virtual node, going clockwise.
LEMMA DistanceIs ==
  ASSUME NEW key \in Hashes, NEW p \in Hashes
  PROVE  Distance(key, p) = IF key <= p THEN p - key ELSE p - key + HashMax + 1
<1>1. HashMax \in Nat /\ key \in 0..HashMax /\ p \in 0..HashMax
  BY RingAssumption DEF Hashes
<1>2. CASE key <= p
  <2> DEFINE d == p - key
  <2>1. d \in 0..HashMax
    BY <1>1, <1>2
  <2>2. d % (HashMax + 1) = d
    BY <1>1, <2>1
  <2> QED
    BY <1>2, <2>2 DEF Distance
<1>3. CASE ~(key <= p)
  <2> DEFINE d == p - key
  <2>1. d \in Int /\ d < 0 /\ d + HashMax + 1 \in 0..HashMax
    BY <1>1, <1>3
  <2>2. d % (HashMax + 1) = d + HashMax + 1
    BY <1>1, <2>1
  <2> QED
    BY <1>3, <2>2 DEF Distance
<1> QED
  BY <1>2, <1>3

\* No virtual node comes between a key and the one that names its owner.
THEOREM OwnersAreNearest == RingSpec => []OwnerIsNearest
<1>1. RingTypeOK => OwnerIsNearest
  <2> SUFFICES ASSUME RingTypeOK, NEW key \in Hashes
               PROVE  \E x \in Points(vnodes, members) :
                        /\ x.silo = OwnerOf(vnodes, members, key)
                        /\ \A y \in Points(vnodes, members) :
                             Distance(key, x.pos) <= Distance(key, y.pos)
    BY DEF OwnerIsNearest
  <2> DEFINE A == Points(vnodes, members)
             after == {x \in A : x.pos >= key}
  <2>1. members \subseteq RingSilos /\ HashMax \in Nat /\ key \in 0..HashMax
    BY RingAssumption DEF RingTypeOK, Hashes
  <2>2. A \subseteq PointType
    BY <2>1, RingsHaveNodes, PointsAre
  <2>3. \A x \in A : x.pos \in 0..HashMax /\ x.pos \in Hashes
    <3>1. \A s \in members : \A p \in vnodes[s] : p \in Hashes
      BY <2>1 DEF RingTypeOK
    <3> QED
      BY <3>1 DEF Points, Point, Hashes
  <2>4. A # {}
    <3>1. PICK s \in members : TRUE
      BY DEF RingTypeOK
    <3>2. PICK p \in vnodes[s] : TRUE
      BY <2>1 DEF RingTypeOK
    <3>3. Point(p, s) \in A
      BY DEF Points
    <3> QED
      BY <3>3
  <2>5. OwnerOf(vnodes, members, key) = IF after = {} THEN Lowest(A).silo ELSE Lowest(after).silo
    BY <2>4 DEF OwnerOf
  <2>6. \A y \in A : Distance(key, y.pos) = IF key <= y.pos THEN y.pos - key
                                            ELSE y.pos - key + HashMax + 1
    BY <2>3, DistanceIs
  <2> HIDE DEF A
  <2>7. CASE after # {}
    <3> DEFINE x == Lowest(after)
    <3>1. x \in after /\ \A y \in after \ {x} : Before(x, y)
      BY <2>2, <2>7, LowestIs
    <3>2. x \in A /\ x.pos >= key
      BY <3>1
    <3> HIDE DEF x
    <3>3. ASSUME NEW y \in A PROVE Distance(key, x.pos) <= Distance(key, y.pos)
      <4>1. x.pos \in 0..HashMax /\ y.pos \in 0..HashMax
        BY <2>3, <3>2
      <4>2. CASE y.pos >= key
        <5>1. x.pos <= y.pos
          BY <3>1, <4>1, <4>2 DEF Before
        <5> QED
          BY <2>1, <2>6, <3>2, <4>1, <4>2, <5>1
      <4>3. CASE ~(y.pos >= key)
        BY <2>1, <2>6, <3>2, <4>1, <4>3
      <4> QED
        BY <4>2, <4>3
    <3> QED
      BY <2>5, <2>7, <3>2, <3>3 DEF A, x
  <2>8. CASE after = {}
    <3> DEFINE x == Lowest(A)
    <3>1. x \in A /\ \A y \in A \ {x} : Before(x, y)
      BY <2>2, <2>4, LowestIs
    <3> HIDE DEF x
    <3>2. \A y \in A : ~(y.pos >= key)
      BY <2>8
    <3>3. ASSUME NEW y \in A PROVE Distance(key, x.pos) <= Distance(key, y.pos)
      <4>1. x.pos \in 0..HashMax /\ y.pos \in 0..HashMax
        BY <2>3, <3>1
      <4>2. x.pos <= y.pos
        BY <3>1, <4>1 DEF Before
      <4> QED
        BY <2>1, <2>6, <3>1, <3>2, <4>1, <4>2
    <3> QED
      BY <2>5, <2>8, <3>1, <3>3 DEF A, x
  <2> QED
    BY <2>7, <2>8
<1> QED
  BY <1>1, RingTypeCorrect, PTL
\* A silo that joins gets the keys it now owns, and no others, for any rings: across the
\* wrap-around and among colliding virtual nodes (compute_new_arcs, Arc.contains).
THEOREM JoinersAreServed == RingSpec => []JoinersGetTheirKeys
<1>1. RingTypeOK => JoinersGetTheirKeys
  <2> DEFINE P == Points(vnodes, members)
  <2> SUFFICES ASSUME RingTypeOK, Cardinality({x.pos : x \in P}) > 1,
                      NEW s \in members \ was, NEW key \in Hashes
               PROVE  (\E arc \in NewArcs(vnodes, was, members, s) : Within(arc, key)) <=>
                        OwnerOf(vnodes, members, key) = s
    BY DEF JoinersGetTheirKeys, Covered, Owned
  <2>1. NodesIn(vnodes, members) /\ NodesIn(vnodes, was) /\ key \in Nat
    <3>1. members \subseteq RingSilos /\ was \subseteq RingSilos
      BY DEF RingTypeOK
    <3>2. NodesIn(vnodes, members) /\ NodesIn(vnodes, was)
      BY <3>1, RingsHaveNodes
    <3>3. key \in Nat
      BY RingAssumption DEF Hashes
    <3> QED
      BY <3>2, <3>3
  <2>2. \E y, z \in P : y.pos # z.pos
    BY SomeDiffer
  <2>3. ASSUME NEW x \in P PROVE OwnerOf(vnodes, was, x.pos) # s
    <3>1. x.pos \in Nat
      BY <2>1, PointsAre DEF PointType
    <3>2. s \in Nat
      BY RingAssumption DEF RingTypeOK
    <3> QED
      BY <2>1, <3>1, <3>2, OwnerIs DEF NoOwner
  <2> QED
    BY <2>1, <2>2, <2>3, ArcsCover
<1> QED
  BY <1>1, RingTypeCorrect, PTL
-----------------------------------------------------------------------------
(* SnapshotSpread.                                                         *)

\* Nobody is ahead of the table, and no ring is ahead of the snapshot its silo has cached.
SpreadInv ==
  /\ views \in Seq(SUBSET Nodes)
  /\ Version >= 1
  /\ last \in [Nodes -> Nat]
  /\ ringOf \in [Nodes -> Nat \ {0}]
  /\ \A s \in Nodes : last[s] <= Version
  /\ \A s \in Nodes : ringOf[s] <= last[s] \/ ringOf[s] = 1

\* A write of the table adds one version to the list.
LEMMA NewVersion ==
  ASSUME SpreadInv, NEW v \in SUBSET Nodes, views' = Append(views, v)
  PROVE  views' \in Seq(SUBSET Nodes) /\ Version' = Version + 1 /\ Version \in Nat
BY AppendProperties, LenProperties DEF SpreadInv, Version

\* A silo caches a version that is not older than the one it has, and leaves its ring.
LEMMA CacheStep ==
  ASSUME SpreadInv, views' \in Seq(SUBSET Nodes), Version' \in Nat, Version' >= Version,
         NEW s \in Nodes, NEW v \in Nat, v >= Version, v <= Version',
         last' = [last EXCEPT ![s] = v], ringOf' = ringOf
  PROVE  SpreadInv'
<1>1. Version \in Nat /\ Version >= 1
  BY LenProperties DEF SpreadInv, Version
<1>2. ASSUME NEW t \in Nodes
      PROVE  last'[t] \in Nat /\ last'[t] <= Version' /\ last'[t] >= last[t]
  BY <1>1, <1>2 DEF SpreadInv
<1>3. ASSUME NEW t \in Nodes PROVE ringOf'[t] <= last'[t] \/ ringOf'[t] = 1
  BY <1>2, <1>3 DEF SpreadInv
<1>4. last' \in [Nodes -> Nat]
  BY DEF SpreadInv
<1> QED
  BY <1>1, <1>2, <1>3, <1>4 DEF SpreadInv

\* Every step keeps the invariant and takes no ring back.
LEMMA SpreadStep ==
  ASSUME ~ReadsSuspend, SpreadInv, [SpreadNext]_spreadVars
  PROVE  SpreadInv' /\ \A s \in Nodes : s \in alive => ringOf'[s] >= ringOf[s]
<1>0. Version \in Nat /\ Version >= 1 /\ ReadAll = {Version} /\ Now \in SUBSET Nodes
  BY LenProperties DEF SpreadInv, Version, ReadAll, Now
<1>1. ASSUME UNCHANGED ringOf PROVE \A s \in Nodes : s \in alive => ringOf'[s] >= ringOf[s]
  BY <1>1 DEF SpreadInv
<1>2. ASSUME NEW s \in Nodes, JoinTable(s)
      PROVE  SpreadInv' /\ \A t \in Nodes : t \in alive => ringOf'[t] >= ringOf[t]
  <2>1. views' \in Seq(SUBSET Nodes) /\ Version' = Version + 1
    <3>1. Now \union {s} \in SUBSET Nodes
      BY <1>0
    <3> QED
      BY <1>2, <3>1, NewVersion DEF JoinTable
  <2>2. /\ s \notin alive
        /\ last' = [last EXCEPT ![s] = Version + 1]
        /\ ringOf' = [ringOf EXCEPT ![s] = Version + 1]
    BY <1>2 DEF JoinTable
  <2> QED
    BY <1>0, <2>1, <2>2 DEF SpreadInv
<1>3. ASSUME NEW s \in Nodes, NEW t \in Nodes, DeclareDead(s, t) PROVE SpreadInv'
  <2>1. Now \ {t} \in SUBSET Nodes
    BY <1>0
  <2>2. views' \in Seq(SUBSET Nodes) /\ Version' = Version + 1
    BY <1>3, <2>1, NewVersion DEF DeclareDead
  <2>3. PICK v \in {Version, Version + 1} : last' = [last EXCEPT ![s] = v]
    BY <1>0, <1>3 DEF DeclareDead, Broadcast
  <2>4. ringOf' = ringOf
    BY <1>3 DEF DeclareDead
  <2>5. v \in Nat /\ v >= Version /\ v <= Version' /\ Version' \in Nat /\ Version' >= Version
    BY <1>0, <2>2, <2>3
  <2> QED
    BY <2>2, <2>3, <2>4, <2>5, CacheStep
<1>4. ASSUME NEW s \in Nodes, Beat(s) PROVE SpreadInv'
  <2>1. /\ views' \in Seq(SUBSET Nodes) /\ Version' \in {Version, Version + 1}
        /\ Len(views') = Version'
    <3>1. CASE views' = views
      BY <3>1 DEF SpreadInv, Version
    <3>2. CASE views' = Append(views, Now)
      BY <1>0, <3>2, NewVersion DEF Version
    <3> QED
      BY <1>4, <3>1, <3>2 DEF Beat
  <2>2. PICK v \in {Version, Version + 1} :
          v = Version' /\ last' = [last EXCEPT ![s] = v]
    BY <1>4, <2>1 DEF Beat, Broadcast
  <2>3. ringOf' = ringOf
    BY <1>4 DEF Beat
  <2>4. v \in Nat /\ v >= Version /\ v <= Version' /\ Version' \in Nat /\ Version' >= Version
    BY <1>0, <2>1, <2>2
  <2> QED
    BY <2>1, <2>2, <2>3, <2>4, CacheStep
<1>5. ASSUME NEW s \in Nodes, Poll(s) PROVE SpreadInv'
  <2>1. PICK v \in {Version} : last' = [last EXCEPT ![s] = v]
    BY <1>0, <1>5 DEF Poll
  <2>2. views' \in Seq(SUBSET Nodes) /\ Version' = Version /\ ringOf' = ringOf
    BY <1>5 DEF Poll, SpreadInv, Version
  <2>3. v \in Nat /\ v >= Version /\ v <= Version' /\ Version' \in Nat /\ Version' >= Version
    BY <1>0, <2>1, <2>2
  <2> QED
    BY <2>1, <2>2, <2>3, CacheStep
<1>6. ASSUME NEW s \in Nodes, NEW v \in 1..Version, Apply(s, v)
      PROVE  SpreadInv' /\ \A t \in Nodes : t \in alive => ringOf'[t] >= ringOf[t]
  <2>1. CASE v < last[s]
    BY <1>1, <1>6, <2>1 DEF Apply, SpreadInv, Version
  <2>2. CASE ~(v < last[s])
    <3>1. /\ last' = [last EXCEPT ![s] = v] /\ ringOf' = [ringOf EXCEPT ![s] = v]
          /\ views' = views /\ v \in Nat \ {0} /\ v <= Version /\ v >= last[s]
      BY <1>0, <1>6, <2>2 DEF Apply, SpreadInv
    <3>2. Version' = Version
      BY <3>1 DEF Version
    <3>3. v >= ringOf[s]
      BY <3>1 DEF SpreadInv
    <3> QED
      BY <1>0, <3>1, <3>2, <3>3 DEF SpreadInv
  <2> QED
    BY <2>1, <2>2
<1>7. ASSUME UNCHANGED <<views, last, ringOf>> PROVE SpreadInv'
  BY <1>7 DEF SpreadInv, Version
<1>8. ASSUME NEW s \in Nodes, NodeCrash(s) PROVE UNCHANGED <<views, last, ringOf>>
  BY <1>8 DEF NodeCrash
<1>9. ASSUME NEW s \in Nodes, NEW v, CastLost(s, v) PROVE UNCHANGED <<views, last, ringOf>>
  BY <1>9 DEF CastLost
<1>10. CASE UNCHANGED spreadVars
  BY <1>1, <1>7, <1>10 DEF spreadVars
<1>11. ASSUME NEW s \in Nodes, NEW t \in Nodes, DeclareDead(s, t) \/ Beat(s) \/ Poll(s)
       PROVE  UNCHANGED ringOf
  BY <1>11 DEF DeclareDead, Beat, Poll
<1> QED
  BY <1>1, <1>2, <1>3, <1>4, <1>5, <1>6, <1>7, <1>8, <1>9, <1>10, <1>11 DEF SpreadNext

\* While what a read returns is not out of date, no silo that runs builds its ring from an
\* older version than before, in whatever order broadcasts and polls reach it.
THEOREM RingsGoForward ==
  ASSUME ~ReadsSuspend
  PROVE  SpreadSpec => RingNeverGoesBack
<1>1. SpreadInit => SpreadInv
  <2> SUFFICES ASSUME SpreadInit PROVE SpreadInv
    OBVIOUS
  <2>1. Nodes \ Late \in SUBSET Nodes
    OBVIOUS
  <2>2. views \in Seq(SUBSET Nodes) /\ Len(views) = 1
    BY <2>1 DEF SpreadInit
  <2> QED
    BY <2>2 DEF SpreadInit, SpreadInv, Version
<1>2. SpreadInv /\ [SpreadNext]_spreadVars => SpreadInv'
  BY SpreadStep
<1>3. SpreadInv /\ [SpreadNext]_spreadVars =>
        [\A s \in Nodes : s \in alive => ringOf'[s] >= ringOf[s]]_spreadVars
  BY SpreadStep
<1> QED
  BY <1>1, <1>2, <1>3, PTL DEF SpreadSpec, RingNeverGoesBack
-----------------------------------------------------------------------------
(* SiloLifecycle.                                                          *)

LifeTypeOK ==
  /\ engine \in {"new", "starting", "rolling", "aborted", "up", "stopping", "stopped"}
  /\ level \in 0..LastStage
  /\ part \in [Participants -> {"off", "starting", "on", "stopping", "failed", "cut"}]

\* A start has completed the stages below its level and not begun those above it.
Rising ==
  \A p \in Participants :
    /\ StageOf[p] < level => part[p] = "on"
    /\ StageOf[p] = level => part[p] \in {"starting", "on"}
    /\ StageOf[p] > level => part[p] = "off"

\* A stop or a rollback has not touched the stages below its level and is done with those
\* above it, except for what the failed stage left behind.
Falling ==
  \A p \in Participants :
    /\ StageOf[p] < level => part[p] = "on"
    /\ StageOf[p] = level => part[p] \in {"stopping", "off"}
    /\ StageOf[p] > level => part[p] \in {"off", "cut", "failed"} \/ Orphaned(p)

LifeInv ==
  /\ LifeTypeOK
  /\ engine = "new" => level = 1 /\ \A p \in Participants : part[p] = "off"
  /\ engine = "starting" => level > 0 /\ Rising
  /\ engine = "up" => \A p \in Participants : part[p] = "on"
  /\ engine \in {"rolling", "stopping", "aborted", "stopped"} => Falling
  /\ engine \in {"aborted", "stopped"} => level = 0

\* What a step writes where.
LEMMA SetIs ==
  ASSUME LifeTypeOK, NEW P, NEW x, part' = Set(P, x)
  PROVE  \A q \in Participants : part'[q] = IF q \in P THEN x ELSE part[q]
  BY DEF Set

\* An engine that rises, or is up, and turns back at level k falls.
LEMMA TurnsBack ==
  ASSUME LifeTypeOK, NEW k \in 0..LastStage,
         NEW others \in [Participants -> {"off", "starting", "on", "stopping", "failed", "cut"}],
         StopFrom(k, others),
         \A p \in Participants : StageOf[p] <= k => others[p] = "on",
         \A p \in Participants : StageOf[p] > k =>
           \/ others[p] \in {"off", "cut", "failed"}
           \/ \E q \in Participants : StageOf[q] = StageOf[p] /\ others[q] = "failed"
  PROVE  /\ level' = k
         /\ part' \in [Participants -> {"off", "starting", "on", "stopping", "failed", "cut"}]
         /\ Falling'
<1>1. StageOf \in [Participants -> 1..LastStage] /\ LastStage \in Nat
  BY LifecycleAssumption
<1>2. /\ level' = k
      /\ part' = [p \in Participants |-> IF StageOf[p] = k THEN "stopping" ELSE others[p]]
  BY DEF StopFrom
<1>3. \A p \in Participants : part'[p] = IF StageOf[p] = k THEN "stopping" ELSE others[p]
  BY <1>2
<1>4. ASSUME NEW p \in Participants, StageOf[p] > k
      PROVE  part'[p] \in {"off", "cut", "failed"} \/ Orphaned(p)'
  <2>1. CASE others[p] \in {"off", "cut", "failed"}
    BY <1>1, <1>3, <1>4, <2>1
  <2>2. CASE \E q \in Participants : StageOf[q] = StageOf[p] /\ others[q] = "failed"
    <3>1. PICK q \in Participants : StageOf[q] = StageOf[p] /\ others[q] = "failed"
      BY <2>2
    <3>2. part'[q] = "failed"
      BY <1>1, <1>3, <1>4, <3>1
    <3> QED
      BY <3>1, <3>2 DEF Orphaned, InStage
  <2> QED
    BY <1>4, <2>1, <2>2
<1>5. \A p \in Participants : /\ StageOf[p] < k => part'[p] = "on"
                              /\ StageOf[p] = k => part'[p] \in {"stopping", "off"}
  BY <1>1, <1>3
<1>6. part' \in [Participants -> {"off", "starting", "on", "stopping", "failed", "cut"}]
  BY <1>2
<1> QED
  BY <1>2, <1>4, <1>5, <1>6 DEF Falling

\* The engine starts and stops as the stages allow.
LEMMA EngineSteps ==
  ASSUME LifeInv, LifeStart \/ StageStarted \/ StageStartTimeout \/ LifeStop \/ StageStopped
                  \/ StageStopTimeout \/ LifeEnd
  PROVE  LifeInv'
<1>1. /\ StageOf \in [Participants -> 1..LastStage] /\ LastStage \in Nat \ {0}
      /\ LifeTypeOK
  BY LifecycleAssumption DEF LifeInv
<1>2. CASE LifeStart
  <2>1. \A q \in Participants : part'[q] = IF q \in InStage(1) THEN "starting" ELSE part[q]
    BY <1>1, <1>2, SetIs DEF LifeStart
  <2>2. LifeTypeOK'
    BY <1>1, <1>2 DEF LifeStart, Set, LifeTypeOK
  <2>3. Rising'
    BY <1>1, <1>2, <2>1 DEF LifeStart, LifeInv, Rising, InStage
  <2> QED
    BY <1>2, <2>2, <2>3 DEF LifeStart, LifeInv
<1>3. CASE StageStarted
  <2>1. \A p \in Participants : StageOf[p] <= level => part[p] = "on"
    BY <1>1, <1>3 DEF StageStarted, LifeInv, LifeTypeOK, Rising, Busy, InStage
  <2>2. CASE level = LastStage
    BY <1>1, <1>3, <2>1, <2>2 DEF StageStarted, LifeInv, LifeTypeOK
  <2>3. CASE level # LastStage
    <3>1. /\ part' = Set(InStage(level + 1), "starting")
          /\ level' = level + 1 /\ engine' = engine /\ engine = "starting"
      BY <1>3, <2>3 DEF StageStarted
    <3>2. \A q \in Participants :
            part'[q] = IF q \in InStage(level + 1) THEN "starting" ELSE part[q]
      BY <1>1, <3>1, SetIs
    <3>3. LifeTypeOK'
      BY <1>1, <2>3, <3>1 DEF Set, LifeTypeOK
    <3>4. Rising'
      BY <1>1, <2>1, <3>1, <3>2 DEF LifeInv, LifeTypeOK, Rising, InStage
    <3> QED
      BY <1>1, <3>1, <3>3, <3>4 DEF LifeInv, LifeTypeOK
  <2> QED
    BY <2>2, <2>3
<1>4. CASE StageStartTimeout
  <2> DEFINE others == Set(Busy(level, "starting"), "failed")
  <2>1. /\ engine = "starting" /\ engine' = "rolling" /\ Rising /\ level \in 1..LastStage
        /\ Busy(level, "starting") # {} /\ StopFrom(level - 1, others)
    BY <1>1, <1>4 DEF StageStartTimeout, LifeInv, LifeTypeOK
  <2>2. \A p \in Participants :
          others[p] = IF StageOf[p] = level /\ part[p] = "starting" THEN "failed" ELSE part[p]
    BY DEF Set, Busy, InStage
  <2>3. others \in [Participants -> {"off", "starting", "on", "stopping", "failed", "cut"}]
    BY <1>1 DEF Set, LifeTypeOK
  <2>4. PICK f \in Participants : StageOf[f] = level /\ part[f] = "starting"
    BY <2>1 DEF Busy, InStage
  <2>5. \A p \in Participants : StageOf[p] <= level - 1 => others[p] = "on"
    BY <1>1, <2>1, <2>2 DEF Rising
  <2>6. \A p \in Participants : StageOf[p] > level - 1 =>
          \/ others[p] \in {"off", "cut", "failed"}
          \/ \E q \in Participants : StageOf[q] = StageOf[p] /\ others[q] = "failed"
    BY <1>1, <2>1, <2>2, <2>4 DEF Rising
  <2> HIDE DEF others
  <2>7. /\ level' = level - 1
        /\ part' \in [Participants -> {"off", "starting", "on", "stopping", "failed", "cut"}]
        /\ Falling'
    BY <1>1, <2>1, <2>3, <2>5, <2>6, TurnsBack
  <2> QED
    BY <1>1, <2>1, <2>7 DEF LifeInv, LifeTypeOK
<1>5. CASE LifeStop
  <2>1. StopFrom(LastStage, part) /\ engine' = "stopping"
    BY <1>5 DEF LifeStop
  <2>2. \A p \in Participants : part[p] = "on" /\ StageOf[p] <= LastStage
    BY <1>1, <1>5 DEF LifeStop, LifeInv
  <2>3. /\ level' = LastStage
        /\ part' \in [Participants -> {"off", "starting", "on", "stopping", "failed", "cut"}]
        /\ Falling'
    BY <1>1, <2>1, <2>2, TurnsBack DEF LifeTypeOK
  <2> QED
    BY <1>1, <2>1, <2>3 DEF LifeInv, LifeTypeOK
<1>6. CASE StageStopped
  <2>1. /\ engine \in {"rolling", "stopping"} /\ engine' = engine
        /\ Falling /\ level \in 1..LastStage
        /\ Busy(level, "stopping") = {} /\ StopFrom(level - 1, part)
    BY <1>1, <1>6 DEF StageStopped, LifeInv, LifeTypeOK
  <2>2. \A p \in Participants : StageOf[p] <= level - 1 => part[p] = "on"
    BY <1>1, <2>1 DEF Falling
  <2>3. \A p \in Participants : StageOf[p] > level - 1 =>
          \/ part[p] \in {"off", "cut", "failed"}
          \/ \E q \in Participants : StageOf[q] = StageOf[p] /\ part[q] = "failed"
    BY <1>1, <2>1 DEF Falling, Busy, InStage, Orphaned
  <2>4. /\ level' = level - 1
        /\ part' \in [Participants -> {"off", "starting", "on", "stopping", "failed", "cut"}]
        /\ Falling'
    BY <1>1, <2>1, <2>2, <2>3, TurnsBack DEF LifeTypeOK
  <2> QED
    BY <1>1, <2>1, <2>4 DEF LifeInv, LifeTypeOK
<1>7. CASE StageStopTimeout
  <2> DEFINE others == Set(Busy(level, "stopping"), "cut")
  <2>1. /\ engine \in {"rolling", "stopping"} /\ engine' = engine
        /\ Falling /\ level \in 0..LastStage
        /\ Busy(level, "stopping") # {} /\ StopFrom(level - 1, others)
    BY <1>1, <1>7 DEF StageStopTimeout, LifeInv, LifeTypeOK
  <2>2. level \in 1..LastStage
    BY <1>1, <2>1 DEF Busy, InStage
  <2>3. \A p \in Participants :
          others[p] = IF StageOf[p] = level /\ part[p] = "stopping" THEN "cut" ELSE part[p]
    BY DEF Set, Busy, InStage
  <2>4. others \in [Participants -> {"off", "starting", "on", "stopping", "failed", "cut"}]
    BY <1>1 DEF Set, LifeTypeOK
  <2>5. \A p \in Participants : StageOf[p] <= level - 1 => others[p] = "on"
    BY <1>1, <2>1, <2>3 DEF Falling
  <2>6. ASSUME NEW p \in Participants, StageOf[p] > level - 1
        PROVE  \/ others[p] \in {"off", "cut", "failed"}
               \/ \E q \in Participants : StageOf[q] = StageOf[p] /\ others[q] = "failed"
    <3>1. CASE StageOf[p] = level
      BY <2>1, <2>3, <3>1 DEF Falling
    <3>2. CASE StageOf[p] > level /\ Orphaned(p)
      <4>1. PICK q \in Participants : StageOf[q] = StageOf[p] /\ part[q] = "failed"
        BY <3>2 DEF Orphaned, InStage
      <4> QED
        BY <2>3, <4>1
    <3>3. CASE StageOf[p] > level /\ ~Orphaned(p)
      <4>1. part[p] \in {"off", "cut", "failed"} /\ StageOf[p] # level
        BY <1>1, <2>1, <3>3 DEF Falling
      <4> QED
        BY <2>3, <4>1
    <3> QED
      BY <1>1, <2>1, <2>6, <3>1, <3>2, <3>3
  <2> HIDE DEF others
  <2>7. /\ level' = level - 1
        /\ part' \in [Participants -> {"off", "starting", "on", "stopping", "failed", "cut"}]
        /\ Falling'
    BY <1>1, <2>1, <2>2, <2>4, <2>5, <2>6, TurnsBack
  <2> QED
    BY <1>1, <2>1, <2>2, <2>7 DEF LifeInv, LifeTypeOK
<1>8. CASE LifeEnd
  <2>1. /\ level = 0 /\ level' = level /\ part' = part
        /\ engine \in {"stopping", "rolling"} /\ engine' \in {"stopped", "aborted"}
    BY <1>8 DEF LifeEnd
  <2>2. Falling'
    BY <2>1 DEF LifeInv, Falling, Orphaned, InStage
  <2> QED
    BY <1>1, <2>1, <2>2 DEF LifeInv, LifeTypeOK
<1> QED
  BY <1>2, <1>3, <1>4, <1>5, <1>6, <1>7, <1>8

\* A participant returns from on_start or on_stop, or raises.
LEMMA ParticipantSteps ==
  ASSUME LifeInv, NEW p \in Participants, Started(p) \/ StartFails(p) \/ Stopped(p)
  PROVE  LifeInv'
<1>1. /\ StageOf \in [Participants -> 1..LastStage] /\ LastStage \in Nat \ {0}
      /\ LifeTypeOK
  BY LifecycleAssumption DEF LifeInv
<1>2. ASSUME NEW x \in {"on", "failed", "off"}, part' = Set({p}, x),
             UNCHANGED <<engine, level>>,
             \/ part[p] = "starting" /\ x = "on"
             \/ part[p] = "starting" /\ x = "failed" /\ engine # "starting"
             \/ part[p] = "stopping" /\ x = "off"
      PROVE  LifeInv'
  <2>1. \A q \in Participants : part'[q] = IF q = p THEN x ELSE part[q]
    BY <1>1, <1>2, SetIs
  <2>2. LifeTypeOK'
    BY <1>1, <1>2 DEF Set, LifeTypeOK
  <2>3. \A q \in Participants : Orphaned(q) => Orphaned(q)'
    BY <1>2, <2>1 DEF Orphaned, InStage
  <2>4. engine # "new" /\ engine # "up"
    BY <1>2 DEF LifeInv
  <2>5. engine = "starting" => level > 0 /\ Rising'
    BY <1>1, <1>2, <2>1 DEF LifeInv, Rising, LifeTypeOK
  <2>6. ASSUME Falling PROVE Falling'
    <3>1. ASSUME NEW q \in Participants
          PROVE  /\ StageOf[q] < level => part'[q] = "on"
                 /\ StageOf[q] = level => part'[q] \in {"stopping", "off"}
                 /\ StageOf[q] > level => part'[q] \in {"off", "cut", "failed"} \/ Orphaned(q)'
      <4>1. CASE q = p
        BY <1>1, <1>2, <2>1, <2>3, <2>6, <4>1 DEF Falling, LifeTypeOK
      <4>2. CASE q # p
        BY <1>1, <2>1, <2>3, <2>6, <4>2 DEF Falling
      <4> QED
        BY <4>1, <4>2
    <3> QED
      BY <1>2, <3>1 DEF Falling
  <2> QED
    BY <1>2, <2>2, <2>4, <2>5, <2>6 DEF LifeInv
<1>3. CASE Started(p)
  BY <1>2, <1>3 DEF Started
<1>4. CASE Stopped(p)
  BY <1>2, <1>4 DEF Stopped
<1>5. CASE StartFails(p) /\ engine # "starting"
  BY <1>2, <1>5 DEF StartFails
<1>6. CASE StartFails(p) /\ engine = "starting"
  <2> DEFINE others == Set({p}, "failed")
  <2>1. /\ part[p] = "starting" /\ engine' = "rolling" /\ Rising /\ level \in 1..LastStage
        /\ StopFrom(level - 1, others)
    BY <1>1, <1>6 DEF StartFails, LifeInv, LifeTypeOK
  <2>2. \A q \in Participants : others[q] = IF q = p THEN "failed" ELSE part[q]
    BY DEF Set
  <2>3. others \in [Participants -> {"off", "starting", "on", "stopping", "failed", "cut"}]
    BY <1>1 DEF Set, LifeTypeOK
  <2>4. StageOf[p] = level
    BY <1>1, <2>1 DEF Rising
  <2>5. \A q \in Participants : StageOf[q] <= level - 1 => others[q] = "on"
    BY <1>1, <2>1, <2>2, <2>4 DEF Rising
  <2>6. \A q \in Participants : StageOf[q] > level - 1 =>
          \/ others[q] \in {"off", "cut", "failed"}
          \/ \E r \in Participants : StageOf[r] = StageOf[q] /\ others[r] = "failed"
    <3>1. others[p] = "failed"
      BY <2>2
    <3>2. ASSUME NEW q \in Participants, StageOf[q] > level PROVE others[q] = "off"
      BY <1>1, <2>1, <2>2, <2>4, <3>2 DEF Rising
    <3>3. \A q \in Participants : StageOf[q] > level - 1 => StageOf[q] = level \/ StageOf[q] > level
      BY <1>1, <2>1
    <3> QED
      BY <2>4, <3>1, <3>2, <3>3
  <2> HIDE DEF others
  <2>7. /\ level' = level - 1
        /\ part' \in [Participants -> {"off", "starting", "on", "stopping", "failed", "cut"}]
        /\ Falling'
    BY <1>1, <2>1, <2>3, <2>5, <2>6, TurnsBack
  <2> QED
    BY <1>1, <2>1, <2>7 DEF LifeInv, LifeTypeOK
<1> QED
  BY <1>3, <1>4, <1>5, <1>6

\* Where a silo is in its start or its stop says what each of its participants does.
THEOREM LifeInvariant == LifeSpec => []LifeInv
<1>1. LifeInit => LifeInv
  BY LifecycleAssumption DEF LifeInit, LifeInv, LifeTypeOK
<1>2. LifeInv /\ [LifeNext]_lifeVars => LifeInv'
  <2> SUFFICES ASSUME LifeInv, [LifeNext]_lifeVars PROVE LifeInv'
    OBVIOUS
  <2>1. CASE UNCHANGED lifeVars
    BY <2>1 DEF lifeVars, LifeInv, LifeTypeOK, Rising, Falling, Orphaned, InStage
  <2> QED
    BY <2>1, EngineSteps, ParticipantSteps DEF LifeNext
<1> QED
  BY <1>1, <1>2, PTL DEF LifeSpec

\* A participant runs only over live stages, whatever fails or hangs.
THEOREM UsersStopFirst == LifeSpec => []ServicesOutliveUsers
<1>1. LifeInv => ServicesOutliveUsers
  <2> SUFFICES ASSUME LifeInv, NEW p \in Participants, NEW q \in Participants,
                      StageOf[q] < StageOf[p], part[p] \in {"starting", "on", "stopping"},
                      ~Orphaned(p)
               PROVE  part[q] = "on"
    BY DEF ServicesOutliveUsers
  <2>1. StageOf \in [Participants -> 1..LastStage] /\ LastStage \in Nat /\ level \in 0..LastStage
    BY LifecycleAssumption DEF LifeInv, LifeTypeOK
  <2>2. CASE Rising
    BY <2>1, <2>2 DEF Rising
  <2>3. CASE Falling
    BY <2>1, <2>3 DEF Falling
  <2> QED
    BY <2>2, <2>3 DEF LifeInv, LifeTypeOK
<1> QED
  BY <1>1, LifeInvariant, PTL

\* A silo that has stopped or given up its start has left nothing running.
THEOREM StoppedMeansStopped == LifeSpec => []NothingIsLeftOn
<1>1. LifeInv => NothingIsLeftOn
  <2> SUFFICES ASSUME LifeInv, engine \in {"stopped", "aborted"}, NEW p \in Participants,
                      part[p] \in {"starting", "on"}
               PROVE  Orphaned(p)
    BY DEF NothingIsLeftOn
  <2>1. level = 0 /\ Falling /\ StageOf[p] > 0
    BY LifecycleAssumption DEF LifeInv
  <2> QED
    BY <2>1 DEF Falling
<1> QED
  BY <1>1, LifeInvariant, PTL
-----------------------------------------------------------------------------
(* ConnectionManager.                                                      *)

LinkStates == {"none", "dialling", "ready", "waiting", "live", "closing", "stuck", "closed"}

MgrTypes ==
  /\ at \in [Managers -> [Links -> LinkStates]]
  /\ held \in [Managers -> Links \union {NoLink}]
  /\ replacing \in [Managers -> [Links -> Links \union {NoLink}]]
  /\ stopped \in [Managers -> BOOLEAN]
  /\ cancels \in Nat

\* A silo holds the link that is live, and nothing while an install waits for a link to
\* close; a link that is being dialled has not reached the other silo.
OneAt(s) ==
  /\ \A l \in Links : at[s][l] = "live" <=> held[s] = l
  /\ \A l \in Links : at[s][l] = "waiting" =>
       /\ held[s] = NoLink
       /\ replacing[s][l] \in Links /\ replacing[s][l] # l
       /\ at[s][replacing[s][l]] \in {"closing", "closed"}
  /\ \A l \in Links : at[Peer(s)][l] = "dialling" => at[s][l] = "none"
MgrInv == MgrTypes /\ (Undisturbed => \A s \in Managers : OneAt(s))

\* Each silo dials one link at a time.
OneDialEach == \A k, l \in Links : Dialler[k] = Dialler[l] => k = l

\* With one link dialled by each, there is only one other than a given one.
LEMMA OneOther ==
  ASSUME OneDialEach, NEW j \in Links, NEW k \in Links, NEW l \in Links, j # l, k # l
  PROVE  j = k
BY ManagerAssumption DEF OneDialEach, Managers

\* The other one of two silos.
LEMMA Ends == \A s \in Managers : Peer(s) \in Managers /\ Peer(s) # s /\ Peer(Peer(s)) = s
              /\ \A t \in Managers : t = s \/ t = Peer(s)
BY DEF Managers, Peer

\* A table of links at each silo, one entry of which changes.
LEMMA EntrySet ==
  ASSUME NEW T, NEW f \in [Managers -> [Links -> T]], NEW s \in Managers, NEW l \in Links, NEW e \in T
  PROVE  /\ [f EXCEPT ![s][l] = e] \in [Managers -> [Links -> T]]
         /\ \A t \in Managers, k \in Links :
              [f EXCEPT ![s][l] = e][t][k] = IF t = s /\ k = l THEN e ELSE f[t][k]
OBVIOUS

\* What an action of one silo on one link does to the states of the links.
Becomes(s, l, e) ==
  \A t \in Managers, k \in Links : at'[t][k] = IF t = s /\ k = l THEN e ELSE at[t][k]

\* Such an action, as the code writes it.
LEMMA BecomesTyped ==
  ASSUME MgrTypes, NEW s \in Managers, NEW l \in Links, NEW e \in LinkStates,
         at' = [at EXCEPT ![s][l] = e]
  PROVE  at' \in [Managers -> [Links -> LinkStates]] /\ Becomes(s, l, e)
BY EntrySet DEF MgrTypes, Becomes

\* The same, for the table of replaced links.
LEMMA ReplacingTyped ==
  ASSUME MgrTypes, NEW s \in Managers, NEW l \in Links, NEW e \in Links \union {NoLink},
         replacing' = [replacing EXCEPT ![s][l] = e]
  PROVE  /\ replacing' \in [Managers -> [Links -> Links \union {NoLink}]]
         /\ \A t \in Managers, k \in Links :
              replacing'[t][k] = IF t = s /\ k = l THEN e ELSE replacing[t][k]
BY EntrySet DEF MgrTypes

\* Nobody stops and no dial is cancelled in the step.
Undisturbing == UNCHANGED <<stopped, cancels>>

\* What each action does to a typed state, entry by entry.
LEMMA ConnectTyped ==
  ASSUME MgrTypes, NEW s \in Managers, NEW l \in Links, Connect(s, l)
  PROVE  /\ MgrTypes' /\ Undisturbing
         /\ \A t \in Managers, k \in Links :
              at'[t][k] = IF k # l THEN at[t][k] ELSE IF t = s THEN "dialling" ELSE "none"
BY DEF MgrTypes, LinkStates, Connect, Undisturbing, counts

\* The three outcomes of an install: the first link, a loser, and a winner that waits.
LEMMA InstallTyped ==
  ASSUME MgrTypes, NEW s \in Managers, NEW l \in Links, Install(s, l)
  PROVE  /\ MgrTypes' /\ Undisturbing
         /\ at[s][l] = "ready"
         /\ \/ ~Live(s) /\ held' = [held EXCEPT ![s] = l] /\ Becomes(s, l, "live")
               /\ UNCHANGED replacing
            \/ Live(s) /\ Becomes(s, l, "closed") /\ UNCHANGED <<held, replacing>>
            \/ /\ Live(s) /\ held' = [held EXCEPT ![s] = NoLink]
               /\ \A t \in Managers, k \in Links : replacing'[t][k] =
                    IF t = s /\ k = l THEN held[s] ELSE replacing[t][k]
               /\ \A t \in Managers, k \in Links : at'[t][k] =
                    IF t # s THEN at[t][k] ELSE IF k = held[s] THEN "closing"
                    ELSE IF k = l THEN "waiting" ELSE at[t][k]
<1>1. at[s][l] = "ready" /\ Undisturbing
  BY DEF Install, Undisturbing, counts
<1>2. CASE /\ ~Live(s) /\ held' = [held EXCEPT ![s] = l]
           /\ at' = [at EXCEPT ![s][l] = "live"] /\ UNCHANGED replacing
  <2>1. at' \in [Managers -> [Links -> LinkStates]] /\ Becomes(s, l, "live")
    BY <1>2, BecomesTyped DEF LinkStates
  <2> QED
    BY <1>1, <1>2, <2>1 DEF MgrTypes, Undisturbing
<1>3. CASE Live(s) /\ at' = [at EXCEPT ![s][l] = "closed"] /\ UNCHANGED <<held, replacing>>
  <2>1. at' \in [Managers -> [Links -> LinkStates]] /\ Becomes(s, l, "closed")
    BY <1>3, BecomesTyped DEF LinkStates
  <2> QED
    BY <1>1, <1>3, <2>1 DEF MgrTypes, Undisturbing
<1>4. CASE /\ Live(s) /\ held' = [held EXCEPT ![s] = NoLink]
           /\ at' = [at EXCEPT ![s] = [@ EXCEPT ![l] = "waiting", ![held[s]] = "closing"]]
           /\ replacing' = [replacing EXCEPT ![s][l] = held[s]]
  <2>1. held[s] \in Links
    BY <1>4 DEF MgrTypes, Live
  <2>2. /\ replacing' \in [Managers -> [Links -> Links \union {NoLink}]]
        /\ \A t \in Managers, k \in Links :
             replacing'[t][k] = IF t = s /\ k = l THEN held[s] ELSE replacing[t][k]
    BY <1>4, <2>1, ReplacingTyped
  <2>3. /\ at' \in [Managers -> [Links -> LinkStates]]
        /\ \A t \in Managers, k \in Links : at'[t][k] =
             IF t # s THEN at[t][k] ELSE IF k = held[s] THEN "closing"
             ELSE IF k = l THEN "waiting" ELSE at[t][k]
    BY <1>4, <2>1 DEF MgrTypes, LinkStates
  <2> QED
    BY <1>1, <1>4, <2>2, <2>3 DEF MgrTypes, Undisturbing
<1> QED
  BY <1>2, <1>3, <1>4, <1>1 DEF Install

\* The winner takes the place of the link it waited for.
LEMMA ReplaceTyped ==
  ASSUME MgrTypes, NEW s \in Managers, NEW l \in Links, Replace(s, l)
  PROVE  /\ MgrTypes' /\ Undisturbing
         /\ at[s][l] = "waiting" /\ at[s][replacing[s][l]] = "closed"
         /\ held' = [held EXCEPT ![s] = l] /\ Becomes(s, l, "live")
         /\ \A t \in Managers, k \in Links :
              replacing'[t][k] = IF t = s /\ k = l THEN NoLink ELSE replacing[t][k]
<1>1. at' \in [Managers -> [Links -> LinkStates]] /\ Becomes(s, l, "live")
  BY BecomesTyped DEF LinkStates, Replace
<1>2. /\ replacing' \in [Managers -> [Links -> Links \union {NoLink}]]
      /\ \A t \in Managers, k \in Links :
           replacing'[t][k] = IF t = s /\ k = l THEN NoLink ELSE replacing[t][k]
  BY ReplacingTyped DEF Replace
<1> QED
  BY <1>1, <1>2 DEF Replace, MgrTypes, Undisturbing, counts

\* The steps that close a link, or forget that it is held.
LEMMA EndsTyped ==
  ASSUME MgrTypes, NEW s \in Managers, NEW l \in Links,
         CloseDrained(s, l) \/ Lost(s, l) \/ (l = dialling[s] /\ DialFails(s))
  PROVE  /\ MgrTypes' /\ Undisturbing /\ UNCHANGED replacing
         /\ Becomes(s, l, "closed")
         /\ at[s][l] \in {"closing", "live", "dialling"}
         /\ \/ at[s][l] # "live" /\ UNCHANGED held
            \/ at[s][l] = "live" /\ held' = IF held[s] = l THEN [held EXCEPT ![s] = NoLink] ELSE held
<1>1. at' = [at EXCEPT ![s][l] = "closed"]
  BY DEF CloseDrained, Lost, DialFails
<1>2. at' \in [Managers -> [Links -> LinkStates]] /\ Becomes(s, l, "closed")
  BY <1>1, BecomesTyped DEF LinkStates
<1>3. UNCHANGED <<stopped, cancels, replacing>>
  BY DEF CloseDrained, Lost, DialFails, counts
<1>4. /\ at[s][l] \in {"closing", "live", "dialling"}
      /\ \/ at[s][l] # "live" /\ UNCHANGED held
         \/ at[s][l] = "live" /\ held' = IF held[s] = l THEN [held EXCEPT ![s] = NoLink] ELSE held
  BY DEF CloseDrained, Lost, DialFails
<1>5. held' \in [Managers -> Links \union {NoLink}]
  BY <1>4 DEF MgrTypes
<1> QED
  BY <1>2, <1>3, <1>4, <1>5 DEF MgrTypes, Undisturbing

\* A handshake that was exchanged makes the link ready at both ends.
LEMMA AcceptTyped ==
  ASSUME MgrTypes, NEW l \in Links, Accept(l)
  PROVE  /\ MgrTypes' /\ Undisturbing /\ UNCHANGED <<held, replacing>>
         /\ at[Dialler[l]][l] = "dialling" /\ Dialler[l] \in Managers
         /\ \A t \in Managers, k \in Links : at'[t][k] = IF k = l THEN "ready" ELSE at[t][k]
BY ManagerAssumption DEF MgrTypes, LinkStates, Accept, Undisturbing, counts

\* The dialling table holds links too: what a failed or cancelled dial leaves is a link.
DialTyped == dialling \in [Managers -> Links \union {NoLink}]

\* Every step keeps that.
LEMMA DialKept ==
  ASSUME DialTyped, [MgrNext]_mgrVars
  PROVE  DialTyped'
<1> USE DEF DialTyped
<1>1. ASSUME NEW s \in Managers, NEW l \in Links,
             \/ Connect(s, l) \/ Install(s, l) \/ Replace(s, l) \/ CloseDrained(s, l) \/ Lost(s, l)
      PROVE  DialTyped'
  BY <1>1 DEF Connect, Install, Replace, CloseDrained, Lost, Ended
<1>2. ASSUME NEW s \in Managers, DialFails(s) \/ DialCancelled(s) \/ Reconnected(s) \/ Stop(s)
      PROVE  DialTyped'
  BY <1>2 DEF DialFails, DialCancelled, Reconnected, Stop
<1>3. ASSUME NEW l \in Links, Accept(l) \/ Cut(l)
      PROVE  DialTyped'
  BY <1>3 DEF Accept, Cut
<1> QED
  BY <1>1, <1>2, <1>3 DEF MgrNext, mgrVars

\* A cancelled dial and a stop: afterwards nothing is claimed of the links.
LEMMA DisturbedTyped ==
  ASSUME MgrTypes, NEW s \in Managers, DialCancelled(s) \/ Stop(s)
  PROVE  MgrTypes' /\ ~Undisturbed'
<1>1. CASE DialCancelled(s)
  <2>1. at' \in [Managers -> [Links -> LinkStates]]
    BY <1>1 DEF DialCancelled, MgrTypes, LinkStates
  <2>2. replacing' \in [Managers -> [Links -> Links \union {NoLink}]]
    BY <1>1 DEF DialCancelled, MgrTypes
  <2>3. cancels' = cancels + 1 /\ UNCHANGED <<held, stopped>>
    BY <1>1 DEF DialCancelled
  <2> QED
    BY <2>1, <2>2, <2>3 DEF MgrTypes, Undisturbed
<1>2. CASE Stop(s)
  <2>1. at' \in [Managers -> [Links -> LinkStates]]
    BY <1>2 DEF Stop, MgrTypes, LinkStates
  <2>2. /\ stopped' = [stopped EXCEPT ![s] = TRUE] /\ held' = [held EXCEPT ![s] = NoLink]
        /\ UNCHANGED <<replacing, cancels>>
    BY <1>2 DEF Stop, counts
  <2> QED
    BY <2>1, <2>2 DEF MgrTypes, Undisturbed
<1> QED
  BY <1>1, <1>2

\* A step of the other silo that dials nothing leaves OneAt as it was.
LEMMA PeerKept ==
  ASSUME NEW s \in Managers, OneAt(Peer(s)), held'[Peer(s)] = held[Peer(s)],
         \A k \in Links : at'[Peer(s)][k] = at[Peer(s)][k],
         \A k \in Links : replacing'[Peer(s)][k] = replacing[Peer(s)][k],
         \A k \in Links : at'[s][k] = "dialling" => at[s][k] = "dialling"
  PROVE  OneAt(Peer(s))'
<1>1. Peer(Peer(s)) = s
  BY Ends
<1> QED
  BY <1>1 DEF OneAt

\* The steps of one silo that disturb nothing keep OneAt at both.
LEMMA OneAtKept ==
  ASSUME OneDialEach, MgrTypes, \A s \in Managers : OneAt(s),
         NEW s \in Managers, NEW l \in Links,
         \/ Connect(s, l) \/ Install(s, l) \/ Replace(s, l) \/ CloseDrained(s, l) \/ Lost(s, l)
         \/ l = dialling[s] /\ DialFails(s)
  PROVE  \A t \in Managers : OneAt(t)'
<1> USE ManagerAssumption
<1>1. CASE Connect(s, l)
  <2>1. Unused(l) /\ UNCHANGED <<held, replacing>>
    BY <1>1 DEF Connect
  <2>2. \A t \in Managers, k \in Links :
          at'[t][k] = IF k # l THEN at[t][k] ELSE IF t = s THEN "dialling" ELSE "none"
    BY <1>1, ConnectTyped
  <2> QED
    BY <2>1, <2>2, Ends DEF OneAt, Unused, Gone
<1>2. CASE Install(s, l)
  <2>1. at[s][l] = "ready"
    BY <1>2, InstallTyped
  <2>2. CASE /\ ~Live(s) /\ held' = [held EXCEPT ![s] = l] /\ Becomes(s, l, "live")
             /\ UNCHANGED replacing
    <3>1. held[s] = NoLink
      BY <2>2 DEF Live, OneAt, MgrTypes
    <3>2. \A k \in Links : at[s][k] # "waiting"
      BY <2>1, OneOther DEF OneAt
    <3>3. held'[s] = l /\ at'[s][l] = "live" /\ \A k \in Links : k # l => at'[s][k] = at[s][k]
      BY <2>2 DEF Becomes, MgrTypes
    <3>4. \A k \in Links : (at'[s][k] = "live") <=> (held'[s] = k)
      BY <3>1, <3>3, ManagerAssumption DEF OneAt
    <3>5. \A k \in Links : at'[s][k] # "waiting"
      BY <3>2, <3>3
    <3>6. Peer(s) \in Managers /\ Peer(s) # s
      BY Ends
    <3>7. \A k \in Links : at'[Peer(s)][k] = at[Peer(s)][k]
      BY <2>2, <3>6 DEF Becomes
    <3>8. \A k \in Links : at'[Peer(s)][k] = "dialling" => at'[s][k] = "none"
      BY <2>1, <3>3, <3>7 DEF OneAt
    <3>9. OneAt(s)'
      BY <3>4, <3>5, <3>8 DEF OneAt
    <3>10. OneAt(Peer(s))'
      <4>1. held'[Peer(s)] = held[Peer(s)]
        BY <2>2, <3>6 DEF MgrTypes
      <4>2. \A k \in Links : at'[s][k] = "dialling" => at[s][k] = "dialling"
        BY <2>1, <3>3
      <4> QED
        BY <2>2, <3>6, <3>7, <4>1, <4>2, PeerKept
    <3> QED
      BY <3>9, <3>10, Ends
  <2>3. CASE Live(s) /\ Becomes(s, l, "closed") /\ UNCHANGED <<held, replacing>>
    BY <2>1, <2>3, Ends DEF OneAt, Becomes, Live
  <2>4. CASE /\ Live(s) /\ held' = [held EXCEPT ![s] = NoLink]
             /\ \A t \in Managers, k \in Links : replacing'[t][k] =
                  IF t = s /\ k = l THEN held[s] ELSE replacing[t][k]
             /\ \A t \in Managers, k \in Links : at'[t][k] =
                  IF t # s THEN at[t][k] ELSE IF k = held[s] THEN "closing"
                  ELSE IF k = l THEN "waiting" ELSE at[t][k]
    <3>1. held[s] \in Links /\ at[s][held[s]] = "live" /\ held[s] # l
      BY <2>1, <2>4 DEF OneAt, Live, MgrTypes
    <3>2. \A k \in Links : at[s][k] # "waiting"
      BY <3>1 DEF OneAt
    <3>3. \A k \in Links : (at'[s][k] = "live") <=> (held'[s] = k)
      BY <2>1, <2>4, <3>1, <3>2, ManagerAssumption DEF OneAt, Becomes, MgrTypes
    <3>4. \A k \in Links : at'[s][k] = "waiting" =>
           /\ held'[s] = NoLink
           /\ replacing'[s][k] \in Links /\ replacing'[s][k] # k
           /\ at'[s][replacing'[s][k]] \in {"closing", "closed"}
      <4>1. \A k \in Links : at'[s][k] = "waiting" => k = l
        BY <2>4, <3>2
      <4>2. held'[s] = NoLink /\ replacing'[s][l] = held[s] /\ at'[s][held[s]] = "closing"
        BY <2>4, <3>1 DEF MgrTypes
      <4> QED
        BY <4>1, <4>2, <3>1
    <3>5. OneAt(s)'
      BY <2>1, <2>4, <3>1, <3>2, <3>3, <3>4, Ends DEF OneAt, Becomes
    <3>6. OneAt(Peer(s))'
      <4>1. Peer(s) \in Managers /\ Peer(s) # s
        BY Ends
      <4>2. held'[Peer(s)] = held[Peer(s)]
        BY <2>4, <4>1 DEF MgrTypes
      <4> QED
        BY <2>4, <4>1, <4>2, PeerKept
    <3> QED
      BY <3>5, <3>6, Ends
  <2> QED
    BY <1>2, InstallTyped, <2>2, <2>3, <2>4
<1>3. CASE Replace(s, l)
  <2>1. /\ at[s][l] = "waiting" /\ at[s][replacing[s][l]] = "closed"
        /\ held' = [held EXCEPT ![s] = l] /\ Becomes(s, l, "live")
        /\ \A t \in Managers, k \in Links :
             replacing'[t][k] = IF t = s /\ k = l THEN NoLink ELSE replacing[t][k]
    BY <1>3, ReplaceTyped
  <2>2. held[s] = NoLink
    BY <2>1 DEF OneAt
  <2>3. \A k \in Links : at[s][k] = "waiting" => k = l
    BY <2>1, OneOther DEF OneAt
  <2>4. \A k \in Links : (at'[s][k] = "live") <=> (held'[s] = k)
    BY <2>1, <2>2, <2>3, ManagerAssumption DEF OneAt, Becomes, MgrTypes
  <2>5. \A k \in Links : at'[s][k] = "waiting" =>
         /\ held'[s] = NoLink
         /\ replacing'[s][k] \in Links /\ replacing'[s][k] # k
         /\ at'[s][replacing'[s][k]] \in {"closing", "closed"}
    BY <2>1, <2>2, <2>3 DEF OneAt, Becomes, MgrTypes
  <2>6. OneAt(s)'
    BY <2>1, <2>2, <2>3, <2>4, <2>5, Ends DEF OneAt, Becomes
  <2>7. OneAt(Peer(s))'
    <3>1. Peer(s) \in Managers /\ Peer(s) # s
      BY Ends
    <3>2. held'[Peer(s)] = held[Peer(s)]
      BY <2>1, <3>1 DEF MgrTypes
    <3> QED
      BY <2>1, <3>1, <3>2, PeerKept DEF Becomes
  <2> QED
    BY <2>6, <2>7, Ends
<1>4. CASE CloseDrained(s, l) \/ Lost(s, l) \/ (l = dialling[s] /\ DialFails(s))
  <2>1. /\ Becomes(s, l, "closed") /\ UNCHANGED replacing
        /\ at[s][l] \in {"closing", "live", "dialling"}
        /\ \/ at[s][l] # "live" /\ UNCHANGED held
           \/ /\ at[s][l] = "live"
              /\ held' = IF held[s] = l THEN [held EXCEPT ![s] = NoLink] ELSE held
    BY <1>4, EndsTyped
  <2>2. at'[s][l] = "closed" /\ \A k \in Links : k # l => at'[s][k] = at[s][k]
    BY <2>1 DEF Becomes
  <2>3. held'[s] = IF held[s] = l THEN NoLink ELSE held[s]
    BY <2>1 DEF OneAt, MgrTypes
  <2>4. Peer(s) \in Managers /\ Peer(s) # s
    BY Ends
  <2>5. \A k \in Links : at'[Peer(s)][k] = at[Peer(s)][k]
    BY <2>1, <2>4 DEF Becomes
  <2>6. OneAt(s)'
    <3>1. \A k \in Links : (at'[s][k] = "live") <=> (held'[s] = k)
      BY <2>2, <2>3, ManagerAssumption DEF OneAt
    <3>2. \A k \in Links : at'[s][k] = "waiting" =>
            /\ held'[s] = NoLink
            /\ replacing'[s][k] \in Links /\ replacing'[s][k] # k
            /\ at'[s][replacing'[s][k]] \in {"closing", "closed"}
      BY <2>1, <2>2, <2>3 DEF OneAt
    <3>3. \A k \in Links : at'[Peer(s)][k] = "dialling" => at'[s][k] = "none"
      BY <2>1, <2>2, <2>5 DEF OneAt
    <3> QED
      BY <3>1, <3>2, <3>3 DEF OneAt
  <2>7. OneAt(Peer(s))'
    <3>1. held'[Peer(s)] = held[Peer(s)]
      BY <2>1, <2>4 DEF MgrTypes
    <3>2. \A k \in Links : at'[s][k] = "dialling" => at[s][k] = "dialling"
      BY <2>2
    <3> QED
      BY <2>1, <2>4, <2>5, <3>1, <3>2, PeerKept
  <2> QED
    BY <2>6, <2>7, Ends
<1> QED
  BY <1>1, <1>2, <1>3, <1>4

\* Every step keeps the invariant.
LEMMA MgrKept ==
  ASSUME OneDialEach, MgrInv, DialTyped, [MgrNext]_mgrVars
  PROVE  MgrInv'
<1> USE DEF MgrInv
<1>1. ASSUME NEW s \in Managers, NEW l \in Links,
             \/ Connect(s, l) \/ Install(s, l) \/ Replace(s, l) \/ CloseDrained(s, l) \/ Lost(s, l)
             \/ l = dialling[s] /\ DialFails(s)
      PROVE  MgrInv'
  <2>1. MgrTypes' /\ Undisturbing
    BY <1>1, ConnectTyped, InstallTyped, ReplaceTyped, EndsTyped
  <2>2. Undisturbed' => Undisturbed
    BY <2>1 DEF Undisturbing, Undisturbed
  <2> QED
    BY <1>1, <2>1, <2>2, OneAtKept
<1>2. ASSUME NEW s \in Managers, DialCancelled(s) \/ Stop(s)
      PROVE  MgrInv'
  BY <1>2, DisturbedTyped
<1>3. ASSUME NEW s \in Managers, DialFails(s)
      PROVE  MgrInv'
  <2>1. dialling[s] \in Links
    BY <1>3 DEF DialFails, DialTyped
  <2> QED
    BY <1>1, <1>3, <2>1
<1>4. ASSUME NEW l \in Links, Accept(l)
      PROVE  MgrInv'
  <2>1. /\ MgrTypes' /\ Undisturbing /\ UNCHANGED <<held, replacing>>
        /\ at[Dialler[l]][l] = "dialling" /\ Dialler[l] \in Managers
        /\ \A t \in Managers, k \in Links : at'[t][k] = IF k = l THEN "ready" ELSE at[t][k]
    BY <1>4, AcceptTyped
  <2>2. ASSUME \A s \in Managers : OneAt(s)
        PROVE  \A s \in Managers : OneAt(s)'
    <3>1. \A s \in Managers : at[s][l] \in {"dialling", "none"}
      BY <2>1, <2>2, Ends DEF OneAt
    <3> QED
      BY <2>1, <2>2, <3>1, Ends DEF OneAt
  <2> QED
    BY <2>1, <2>2 DEF Undisturbing, Undisturbed
<1>5. CASE UNCHANGED <<at, held, replacing, stopped, cancels>>
  BY <1>5 DEF MgrTypes, Undisturbed, OneAt
<1>6. ASSUME NEW s \in Managers, Reconnected(s)
      PROVE  MgrInv'
  BY <1>5, <1>6 DEF Reconnected, counts
<1>7. ASSUME NEW l \in Links, Cut(l)
      PROVE  MgrInv'
  BY <1>5, <1>7 DEF Cut
<1>8. CASE UNCHANGED mgrVars
  BY <1>5, <1>8 DEF mgrVars, counts
<1> QED
  BY <1>1, <1>2, <1>3, <1>4, <1>6, <1>7, <1>8 DEF MgrNext

\* Dedup and monitor leave the two silos with one link, the same at both, once nothing is
\* under way: for two links, whoever dialled first and however often links break or dials
\* fail.  With a third one they may be left with two (OneLiveLink).
THEOREM OneLinkLeft ==
  ASSUME OneDialEach
  PROVE  MgrSpec => []OneLiveLink
<1>1. MgrInit => MgrInv /\ DialTyped
  BY ManagerAssumption
     DEF MgrInit, MgrInv, MgrTypes, LinkStates, DialTyped, OneAt, Managers, Peer
<1>2. MgrInv /\ DialTyped /\ [MgrNext]_mgrVars => (MgrInv /\ DialTyped)'
  BY MgrKept, DialKept
<1>3. MgrInv => OneLiveLink
  <2> SUFFICES ASSUME MgrInv, Settled, Undisturbed
               PROVE  /\ held[1] = held[2]
                      /\ \A s \in Managers : {l \in Links : at[s][l] = "live"} \subseteq {held[s]}
    BY DEF OneLiveLink
  <2>1. \A s \in Managers, l \in Links : at[s][l] = "live" <=> held[s] = l
    BY DEF MgrInv, OneAt
  <2>2. \A s \in Managers, l \in Links : held[s] = l => held[Peer(s)] = l
    BY <2>1, Ends DEF Settled
  <2>3. held[1] = held[2]
    BY <2>2, ManagerAssumption DEF MgrInv, MgrTypes, Managers, Peer
  <2> QED
    BY <2>1, <2>3
<1> QED
  BY <1>1, <1>2, <1>3, PTL DEF MgrSpec
=============================================================================

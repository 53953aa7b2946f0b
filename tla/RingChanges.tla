---------------------------- MODULE RingChanges ----------------------------
(***************************************************************************)
(* Hash rings of all shapes, changing as silos join and leave: what        *)
(* HashRing's definitions must provide for the directory and the failure   *)
(* detector.                                                               *)
(***************************************************************************)
EXTENDS HashRing

CONSTANTS
  RingSilos,   \* the silos that may be on the ring
  HashMax,     \* bound on hashes
  Vnodes,      \* virtual_nodes_per_silo
  Probed       \* num_probed_silos

ASSUME RingAssumption ==
  /\ RingSilos \subseteq Nat
  /\ IsFiniteSet(RingSilos)
  /\ HashMax \in Nat
  /\ {Vnodes, Probed} \subseteq Nat \ {0}

VARIABLES
  vnodes,    \* the hashes of each silo's virtual nodes
  members,   \* the silos on the ring
  was        \* the silos on the ring before the last change

ringVars == <<vnodes, members, was>>

Hashes == 0..HashMax

RingInit ==
  /\ vnodes \in [RingSilos -> {v \in SUBSET Hashes : Cardinality(v) = Vnodes}]
  /\ members \in (SUBSET RingSilos) \ {{}}
  /\ was = members

\* A new ring is built from the active silos of a membership snapshot.
RingChange(active) ==
  /\ active # members
  /\ was' = members
  /\ members' = active
  /\ UNCHANGED vnodes

RingNext == \E active \in (SUBSET RingSilos) \ {{}} : RingChange(active)

RingSpec == RingInit /\ [][RingNext]_ringVars
-----------------------------------------------------------------------------
\* owner_of agrees with its definition by distance: no virtual node is met
\* between the key and one of its owner's, going clockwise with wrap-around.
Distance(key, p) == (p - key) % (HashMax + 1)
OwnerIsNearest ==
  \A key \in Hashes :
    \E x \in Points(vnodes, members) :
      /\ x.silo = OwnerOf(vnodes, members, key)
      /\ \A y \in Points(vnodes, members) : Distance(key, x.pos) <= Distance(key, y.pos)

\* Consistent hashing: a key changes hands only if its owner left or its new owner
\* joined, whatever virtual nodes collide (owner_of, _build_positions).
KeysMoveOnlyWithSilos ==
  [][\A key \in Hashes :
       LET before == OwnerOf(vnodes, members, key)
           now == OwnerOf(vnodes, members', key) IN
       before # now => before \notin members' \/ now \notin members]_ringVars

\* A silo that joins gets, through compute_new_arcs, exactly the keys it now owns,
\* across the wrap-around of the ring and among colliding virtual nodes, unless all
\* virtual nodes share one hash (an arc of no length stands for nothing).
Covered(s) == {key \in Hashes :
                 \E arc \in NewArcs(vnodes, was, members, s) : Within(arc, key)}
Owned(s, ring) == {key \in Hashes : OwnerOf(vnodes, ring, key) = s}
JoinersGetTheirKeys ==
  Cardinality({x.pos : x \in Points(vnodes, members)}) > 1 =>
    \A s \in members \ was : Covered(s) = Owned(s, members)

\* The docstring of compute_new_arcs: arcs whose new owner is the local silo and
\* whose old owner was another one.  The code fails this for every silo that
\* stays on the ring: the end of an arc is its own virtual node, old and new.
SurvivorsGetTheirKeys ==
  \A s \in members \cap was :
    Owned(s, members) \ Owned(s, was) \subseteq Covered(s)

\* The failure detector's completeness: every silo of a ring is probed by some other.
\* It fails: successors starts from one virtual node of each silo only.
EveryoneIsProbed ==
  Cardinality(members) > 1 =>
    \A t \in members : \E s \in members \ {t} : t \in ProbeTargets(vnodes, members, s, Probed)
=============================================================================

------------------------------ MODULE HashRing ------------------------------
(***************************************************************************)
(* The consistent hash ring (hash_ring.py) and the arcs a silo gains when  *)
(* it changes (compute_new_arcs of directory_rebuild.py).                  *)
(* Ring silos are natural numbers in the order of their silo_id.  A ring   *)
(* is a set of silos; at[s] holds the hashes of the virtual nodes of silo  *)
(* s.  Hashes are 64-bit in the code and 0..HashMax here.                  *)
(***************************************************************************)
EXTENDS Integers, FiniteSets

NoOwner == -1

Point(p, s) == [pos |-> p, silo |-> s]

\* _build_positions: the virtual nodes of a ring, in the order of their hash and
\* of their silo where hashes are equal.
Points(at, ring) == UNION {{Point(p, s) : p \in at[s]} : s \in ring}
Before(x, y) == x.pos < y.pos \/ (x.pos = y.pos /\ x.silo < y.silo)
Lowest(points) == CHOOSE x \in points : \A y \in points \ {x} : Before(x, y)
Highest(points) == CHOOSE x \in points : \A y \in points \ {x} : Before(y, x)

\* Mutated: bisect_right, so a key at a virtual node goes to the next one.
OwnerOf_BisectRight(at, ring, key) ==
  LET after == {x \in Points(at, ring) : x.pos > key} IN
  IF Points(at, ring) = {} THEN NoOwner
  ELSE IF after = {} THEN Lowest(Points(at, ring)).silo
  ELSE Lowest(after).silo

\* Mutated: modulo the number of silos.
OwnerOf_Modulo(at, ring, key) ==
  IF Points(at, ring) = {} THEN NoOwner
  ELSE CHOOSE s \in ring : Cardinality({t \in ring : t < s}) = key % Cardinality(ring)

\* owner_of: the first virtual node at the key or after it, else the lowest one.
OwnerOf(at, ring, key) ==
  LET after == {x \in Points(at, ring) : x.pos >= key} IN
  IF Points(at, ring) = {} THEN NoOwner
  ELSE IF after = {} THEN Lowest(Points(at, ring)).silo
  ELSE Lowest(after).silo

\* successors: walking clockwise from the silo's first virtual node, a silo is met
\* at its first node past that one, or at its first node of all.
Meets(at, s, t) ==
  LET start == Lowest(Points(at, {s}))
      past == {x \in Points(at, {t}) : Before(start, x)} IN
  IF past # {} THEN <<0, Lowest(past)>> ELSE <<1, Lowest(Points(at, {t}))>>
MetBefore(at, s, t, u) ==
  LET a == Meets(at, s, t)
      b == Meets(at, s, u) IN
  a[1] < b[1] \/ (a[1] = b[1] /\ Before(a[2], b[2]))
Successors(at, ring, s, count) ==
  {t \in ring \ {s} : s \in ring /\
      Cardinality({u \in ring \ {s, t} : MetBefore(at, s, u, t)}) < count}

\* probe_targets: every peer in a small cluster, else the ring successors.
ProbeTargets(at, ring, s, probed) ==
  IF Cardinality(ring \ {s}) <= probed THEN ring \ {s} ELSE Successors(at, ring, s, probed)

\* Mutated: an arc that does not wrap.
Within_NoWrap(arc, key) == arc.start < key /\ key <= arc.end

\* Arc.contains
Within(arc, key) ==
  IF arc.start <= arc.end THEN arc.start < key /\ key <= arc.end
  ELSE key > arc.start \/ key <= arc.end

\* compute_new_arcs: an arc ends at one of the silo's virtual nodes and begins at the
\* node before it; it is new if another silo owned its end before.
NewArcs(at, old, new, s) ==
  LET points == Points(at, new)
      Prev(x) == LET before == {y \in points : Before(y, x)} IN
                 IF before = {} THEN Highest(points) ELSE Highest(before) IN
  {[start |-> Prev(x).pos, end |-> x.pos] :
     x \in {y \in points : y.silo = s /\ OwnerOf(at, old, y.pos) # s}}

=============================================================================

---------------------------- MODULE HashRingProofs ----------------------------
(***************************************************************************)
(* Lemmas about the operators of HashRing, for any ring and any hashes,    *)
(* colliding or not: which virtual node owner_of finds, and which keys the *)
(* arcs of compute_new_arcs hold.                                          *)
(***************************************************************************)
EXTENDS HashRing, TLAPS, WellFoundedInduction, FiniteSetTheorems

PointType == [pos : Nat, silo : Nat]

\* The silos of a ring have hashes, finitely many each.
NodesIn(at, R) ==
  /\ R \subseteq Nat /\ IsFiniteSet(R)
  /\ \A s \in R : at[s] \subseteq Nat /\ at[s] # {} /\ IsFiniteSet(at[s])

\* A set of natural numbers that is not empty has a smallest element.
LEMMA SmallestNat ==
  ASSUME NEW S, S \subseteq Nat, S # {}
  PROVE  \E n \in S : \A m \in S : n <= m
<1>1. PICK n \in S : \A m \in S : ~(<<m, n>> \in OpToRel(<, Nat))
  BY NatLessThanWellFounded, WFMin
<1>2. ASSUME NEW m \in S, m < n PROVE FALSE
  <2> DEFINE pair == <<m, n>>
  <2>1. pair \in Nat \X Nat /\ pair[1] < pair[2]
    BY <1>2
  <2>2. pair \in OpToRel(<, Nat)
    BY <2>1 DEF OpToRel
  <2> QED
    BY <1>1, <2>2
<1> QED
  BY <1>2

\* The lowest of some virtual nodes exists and is before every other.
LEMMA LowestIs ==
  ASSUME NEW P, P \subseteq PointType, P # {}
  PROVE  Lowest(P) \in P /\ \A y \in P \ {Lowest(P)} : Before(Lowest(P), y)
<1> DEFINE Pos == {x.pos : x \in P}
<1>1. Pos \subseteq Nat /\ Pos # {}
  BY DEF PointType
<1>2. PICK n \in Pos : \A m \in Pos : n <= m
  BY <1>1, SmallestNat
<1> DEFINE Sil == {x.silo : x \in {y \in P : y.pos = n}}
<1>3. Sil \subseteq Nat /\ Sil # {}
  BY <1>2 DEF PointType
<1>4. PICK s \in Sil : \A t \in Sil : s <= t
  BY <1>3, SmallestNat
<1>5. PICK x \in P : x.pos = n /\ x.silo = s
  BY <1>4
<1>6. ASSUME NEW y \in P, y # x PROVE Before(x, y)
  <2>1. x \in PointType /\ y \in PointType
    OBVIOUS
  <2>2. n <= y.pos
    BY <1>2
  <2>3. y.pos = n => s <= y.silo
    BY <1>4
  <2>4. y.pos # n \/ y.silo # s
    BY <1>5, <1>6, <2>1 DEF PointType
  <2> QED
    BY <1>5, <2>1, <2>2, <2>3, <2>4 DEF Before, PointType
<1> QED
  BY <1>6 DEF Lowest

\* A finite set of natural numbers that is not empty has a largest element.
LEMMA LargestNat ==
  ASSUME NEW S, S \subseteq Nat, S # {}, IsFiniteSet(S)
  PROVE  \E n \in S : \A m \in S : m <= n
<1> DEFINE Above(n) == {m \in S : m > n}
           Sizes == {Cardinality(Above(n)) : n \in S}
<1>1. \A n \in S : IsFiniteSet(Above(n)) /\ Cardinality(Above(n)) \in Nat
  <2> SUFFICES ASSUME NEW n \in S PROVE IsFiniteSet(Above(n)) /\ Cardinality(Above(n)) \in Nat
    OBVIOUS
  <2>1. Above(n) \in SUBSET S
    OBVIOUS
  <2> QED
    BY <2>1, FS_Subset, FS_CardinalityType
<1>2. Sizes \subseteq Nat /\ Sizes # {}
  BY <1>1
<1>3. PICK n \in S : \A m \in S : Cardinality(Above(n)) <= Cardinality(Above(m))
  <2>1. PICK k \in Sizes : \A j \in Sizes : k <= j
    BY <1>2, SmallestNat
  <2> QED
    BY <2>1
<1>4. ASSUME NEW m \in S, m > n PROVE FALSE
  <2>1. Above(m) \in SUBSET Above(n) /\ m \in Above(n) /\ m \notin Above(m)
    <3>1. m \in Nat /\ n \in Nat
      OBVIOUS
    <3>2. \A k \in S : k \in Nat /\ (k > m => k > n)
      BY <1>4, <3>1
    <3>3. Above(m) \in SUBSET Above(n)
      BY <3>2
    <3>4. m \in Above(n)
      BY <1>4
    <3>5. m \notin Above(m)
      BY <3>1
    <3> HIDE DEF Above
    <3> QED
      BY <3>3, <3>4, <3>5
  <2>2. /\ Cardinality(Above(m)) <= Cardinality(Above(n))
        /\ Cardinality(Above(n)) = Cardinality(Above(m)) => Above(n) = Above(m)
    BY <1>1, <2>1, FS_Subset
  <2>3. Cardinality(Above(n)) # Cardinality(Above(m))
    BY <2>1, <2>2
  <2> HIDE DEF Above
  <2> QED
    BY <1>1, <1>3, <2>2, <2>3
<1> QED
  BY <1>4

\* What a function takes the members of a finite set to is a finite set.
LEMMA FiniteImage ==
  ASSUME NEW S, IsFiniteSet(S), NEW f, NEW T, f \in [S -> T], T = {f[x] : x \in S}
  PROVE  IsFiniteSet(T)
<1>1. f \in Surjection(S, T)
  BY DEF Surjection
<1> QED
  BY <1>1, FS_Surjection

\* The highest of some virtual nodes exists and is after every other.
LEMMA HighestIs ==
  ASSUME NEW P, P \subseteq PointType, P # {}, IsFiniteSet(P)
  PROVE  Highest(P) \in P /\ \A y \in P \ {Highest(P)} : Before(y, Highest(P))
<1> DEFINE Pos == {x.pos : x \in P}
           pos == [x \in P |-> x.pos]
<1>1. Pos \subseteq Nat /\ Pos # {} /\ IsFiniteSet(Pos)
  <2>1. pos \in [P -> Pos] /\ Pos = {pos[x] : x \in P}
    OBVIOUS
  <2>2. IsFiniteSet(Pos)
    <3> HIDE DEF Pos, pos
    <3> QED
      BY <2>1, FiniteImage
  <2>3. Pos \subseteq Nat /\ Pos # {}
    BY DEF PointType
  <2> QED
    BY <2>2, <2>3
<1>2. PICK n \in Pos : \A m \in Pos : m <= n
  BY <1>1, LargestNat
<1> DEFINE Top == {y \in P : y.pos = n}
           Sil == {x.silo : x \in Top}
           sil == [x \in Top |-> x.silo]
<1>3. Sil \subseteq Nat /\ Sil # {} /\ IsFiniteSet(Sil)
  <2>1. IsFiniteSet(Top)
    BY FS_Subset
  <2>2. Top \subseteq PointType /\ Top # {}
    BY <1>2
  <2> HIDE DEF Top
  <2>3. sil \in [Top -> Sil] /\ Sil = {sil[x] : x \in Top}
    OBVIOUS
  <2>4. Sil \subseteq Nat /\ Sil # {}
    BY <2>2 DEF PointType
  <2> HIDE DEF Sil, sil
  <2> QED
    BY <2>1, <2>3, <2>4, FiniteImage
<1>4. PICK s \in Sil : \A t \in Sil : t <= s
  BY <1>3, LargestNat
<1>5. PICK x \in P : x.pos = n /\ x.silo = s
  BY <1>4
<1>6. ASSUME NEW y \in P, y # x PROVE Before(y, x)
  <2>1. x \in PointType /\ y \in PointType
    OBVIOUS
  <2>2. y.pos <= n
    BY <1>2
  <2>3. y.pos = n => y.silo <= s
    BY <1>4
  <2>4. y.pos # n \/ y.silo # s
    BY <1>5, <1>6, <2>1 DEF PointType
  <2> QED
    BY <1>5, <2>1, <2>2, <2>3, <2>4 DEF Before, PointType
<1> QED
  BY <1>6 DEF Highest

\* Two sets of virtual nodes whose lowest ones each belong to the other share them.
LEMMA SameLowest ==
  ASSUME NEW P, P \subseteq PointType, P # {}, NEW Q, Q \subseteq PointType, Q # {},
         Lowest(P) \in Q, Lowest(Q) \in P
  PROVE  Lowest(P) = Lowest(Q)
<1> DEFINE x == Lowest(P)
           y == Lowest(Q)
<1>1. x \in PointType /\ y \in PointType
  BY LowestIs
<1>2. x # y => Before(x, y) /\ Before(y, x)
  BY LowestIs
<1> HIDE DEF x, y
<1>3. x = y
  BY <1>1, <1>2 DEF Before, PointType
<1> QED
  BY <1>3 DEF x, y

\* The virtual nodes of a ring, of which there are finitely many.
LEMMA PointsAre ==
  ASSUME NEW at, NEW R, NodesIn(at, R)
  PROVE  /\ Points(at, R) \subseteq PointType
         /\ IsFiniteSet(Points(at, R))
         /\ \A x \in Points(at, R) : x.silo \in R /\ x.pos \in at[x.silo]
         /\ \A s \in R : \A p \in at[s] : Point(p, s) \in Points(at, R)
         /\ R # {} => Points(at, R) # {}
<1> DEFINE of(s) == {Point(p, s) : p \in at[s]}
           all == {of(s) : s \in R}
<1>1. Points(at, R) = UNION all
  BY DEF Points
<1>2. \A p, s : Point(p, s).silo = s /\ Point(p, s).pos = p
  BY DEF Point
<1>3. \A x \in Points(at, R) : \E s \in R : \E p \in at[s] : x = Point(p, s)
  BY <1>1
<1>4. \A s \in R : s \in Nat /\ \A p \in at[s] : p \in Nat
  BY DEF NodesIn
<1>5. Points(at, R) \subseteq PointType
  BY <1>3, <1>4 DEF PointType, Point
<1>6. IsFiniteSet(Points(at, R))
  <2>1. ASSUME NEW s \in R PROVE IsFiniteSet(of(s))
    <3>1. IsFiniteSet(at[s])
      BY DEF NodesIn
    <3> DEFINE T == of(s)
               f == [p \in at[s] |-> Point(p, s)]
    <3>2. f \in [at[s] -> T] /\ T = {f[p] : p \in at[s]}
      OBVIOUS
    <3> HIDE DEF T, f
    <3>3. IsFiniteSet(T)
      BY <3>1, <3>2, FiniteImage
    <3> QED
      BY <3>3 DEF T
  <2>2. IsFiniteSet(all)
    <3>1. IsFiniteSet(R)
      BY DEF NodesIn
    <3> DEFINE f == [s \in R |-> of(s)]
    <3>2. f \in [R -> all] /\ all = {f[s] : s \in R}
      OBVIOUS
    <3> HIDE DEF all, f
    <3> QED
      BY <3>1, <3>2, FiniteImage
  <2>3. \A T \in all : IsFiniteSet(T)
    <3> HIDE DEF of
    <3> QED
      BY <2>1
  <2> HIDE DEF all
  <2> QED
    BY <1>1, <2>2, <2>3, FS_UNION
<1>7. R # {} => Points(at, R) # {}
  <2> SUFFICES ASSUME NEW s \in R PROVE Points(at, R) # {}
    OBVIOUS
  <2>1. PICK p \in at[s] : TRUE
    BY DEF NodesIn
  <2>2. Point(p, s) \in of(s)
    BY <2>1
  <2> QED
    BY <1>1, <2>2
<1>8. \A s \in R : \A p \in at[s] : Point(p, s) \in Points(at, R)
  BY <1>1
<1> QED
  BY <1>2, <1>3, <1>5, <1>6, <1>7, <1>8

\* The virtual node before another one, going clockwise, and the arc between them.
PrevPoint(P, x) ==
  LET before == {y \in P : Before(y, x)} IN
  IF before = {} THEN Highest(P) ELSE Highest(before)
ArcTo(P, x) == [start |-> PrevPoint(P, x).pos, end |-> x.pos]

\* The virtual node that names the owner of a key.
OwnerPoint(P, key) ==
  LET after == {x \in P : x.pos >= key} IN
  IF after = {} THEN Lowest(P) ELSE Lowest(after)

\* A key is in the arc that ends at a virtual node just if that node names its owner.
LEMMA ArcOwns ==
  ASSUME NEW P, P \subseteq PointType, IsFiniteSet(P), NEW x \in P,
         \E y, z \in P : y.pos # z.pos, NEW key \in Nat
  PROVE  Within(ArcTo(P, x), key) <=> OwnerPoint(P, key) = x
<1> DEFINE before == {y \in P : Before(y, x)}
           after == {y \in P : y.pos >= key}
           p == PrevPoint(P, x)
<1>1. /\ \A y \in P : y.pos \in Nat /\ y.silo \in Nat /\ y \in PointType
      /\ before \subseteq PointType /\ IsFiniteSet(before)
  BY FS_Subset DEF PointType
<1>2. \A y, z \in P : \/ Before(y, z) /\ ~Before(z, y) /\ y # z
                      \/ Before(z, y) /\ ~Before(y, z) /\ y # z
                      \/ y = z /\ ~Before(y, z)
  <2> SUFFICES ASSUME NEW y \in P, NEW z \in P
               PROVE  \/ Before(y, z) /\ ~Before(z, y) /\ y # z
                      \/ Before(z, y) /\ ~Before(y, z) /\ y # z
                      \/ y = z /\ ~Before(y, z)
    OBVIOUS
  <2>1. y.pos = z.pos /\ y.silo = z.silo => y = z
    BY <1>1 DEF PointType
  <2> QED
    BY <1>1, <2>1 DEF Before
<1>3. \A y, z \in P : Before(y, z) => y.pos <= z.pos
  BY <1>1 DEF Before
<1>4. Within(ArcTo(P, x), key) <=>
        IF p.pos <= x.pos THEN p.pos < key /\ key <= x.pos ELSE key > p.pos \/ key <= x.pos
  BY DEF Within, ArcTo
<1>5. OwnerPoint(P, key) = IF after = {} THEN Lowest(P) ELSE Lowest(after)
  BY DEF OwnerPoint
<1>6. after \subseteq PointType /\ (after # {} => Lowest(after) \in after
        /\ \A y \in after \ {Lowest(after)} : Before(Lowest(after), y))
  BY <1>1, LowestIs
<1>7. Lowest(P) \in P /\ \A y \in P \ {Lowest(P)} : Before(Lowest(P), y)
  BY <1>1, LowestIs
<1>8. CASE before = {}
  <2>1. x = Lowest(P)
    BY <1>2, <1>7, <1>8
  <2>2. p = Highest(P)
    BY <1>8 DEF PrevPoint
  <2>3. p \in P /\ \A y \in P \ {p} : Before(y, p)
    BY <2>2, HighestIs
  <2> HIDE DEF p
  <2>4. \A y \in P : x.pos <= y.pos /\ y.pos <= p.pos
    BY <1>1, <1>3, <1>7, <2>1, <2>3
  <2>5. p.pos > x.pos
    BY <1>1, <2>3, <2>4
  <2>6. CASE key > p.pos
    <3>1. after = {}
      BY <1>1, <2>3, <2>4, <2>6
    <3> QED
      BY <1>1, <1>4, <1>5, <2>1, <2>3, <2>5, <2>6, <3>1
  <2>7. CASE key <= x.pos
    <3>1. x \in after
      BY <2>7
    <3>2. Lowest(after) = x
      BY <1>2, <1>6, <1>7, <2>1, <3>1
    <3> QED
      BY <1>1, <1>4, <1>5, <2>3, <2>5, <2>7, <3>1, <3>2
  <2>8. CASE ~(key > p.pos) /\ ~(key <= x.pos)
    <3>1. p \in after /\ x \notin after
      BY <1>1, <2>3, <2>8
    <3>2. Lowest(after) # x
      BY <1>6, <3>1
    <3> QED
      BY <1>1, <1>4, <1>5, <2>3, <2>5, <2>8, <3>1, <3>2
  <2> QED
    BY <2>6, <2>7, <2>8
<1>9. CASE before # {}
  <2>1. p = Highest(before)
    BY <1>9 DEF PrevPoint
  <2>2. p \in before /\ \A y \in before \ {p} : Before(y, p)
    <3> HIDE DEF before, p
    <3> QED
      BY <1>1, <1>9, <2>1, HighestIs
  <2> HIDE DEF p
  <2>3. p \in P /\ Before(p, x) /\ p.pos <= x.pos /\ x # Lowest(P)
    BY <1>2, <1>3, <1>7, <2>2
  <2>4. CASE p.pos < key /\ key <= x.pos
    <3>1. x \in after
      BY <2>4
    <3>2. ASSUME NEW y \in after, Before(y, x) PROVE FALSE
      <4>1. y \in before /\ y.pos <= p.pos
        BY <1>1, <1>3, <2>2, <2>3, <3>2
      <4> QED
        BY <1>1, <2>3, <2>4, <3>2, <4>1
    <3>3. Lowest(after) = x
      BY <1>2, <1>6, <3>1, <3>2
    <3> QED
      BY <1>4, <1>5, <2>3, <2>4, <3>1, <3>3
  <2>5. CASE ~(p.pos < key) \/ ~(key <= x.pos)
    <3>1. CASE after = {}
      BY <1>4, <1>5, <2>3, <2>5, <3>1
    <3>2. CASE after # {} /\ ~(p.pos < key)
      <4>1. p \in after
        BY <1>1, <2>3, <3>2
      <4>2. Lowest(after) # x
        BY <1>2, <1>6, <2>3, <4>1
      <4> QED
        BY <1>4, <1>5, <2>3, <2>5, <3>2, <4>2
    <3>3. CASE after # {} /\ ~(key <= x.pos)
      <4>1. x \notin after
        BY <1>1, <3>3
      <4> QED
        BY <1>4, <1>5, <1>6, <2>3, <2>5, <3>3, <4>1
    <3> QED
      BY <2>5, <3>1, <3>2, <3>3
  <2> QED
    BY <2>4, <2>5
<1> QED
  BY <1>8, <1>9

\* owner_of: the virtual node found is one of the ring, and names the owner.
LEMMA OwnerIs ==
  ASSUME NEW at, NEW R, NodesIn(at, R), NEW key \in Nat
  PROVE  LET P == Points(at, R) IN
         /\ R = {} => OwnerOf(at, R, key) = NoOwner
         /\ R # {} => /\ OwnerPoint(P, key) \in P
                      /\ OwnerOf(at, R, key) = OwnerPoint(P, key).silo
                      /\ OwnerOf(at, R, key) \in R
<1> DEFINE P == Points(at, R)
           after == {x \in P : x.pos >= key}
<1>1. CASE R = {}
  BY <1>1 DEF OwnerOf, Points
<1>2. CASE R # {}
  <2>1. P \subseteq PointType /\ P # {} /\ (\A x \in P : x.silo \in R) /\ after \subseteq P
    BY <1>2, PointsAre
  <2>2. OwnerOf(at, R, key) = OwnerPoint(P, key).silo
    BY <2>1 DEF OwnerOf, OwnerPoint
  <2>3. Lowest(P) \in P /\ (after # {} => Lowest(after) \in after)
    BY <2>1, LowestIs
  <2>4. OwnerPoint(P, key) \in P
    BY <2>3 DEF OwnerPoint
  <2> QED
    BY <1>2, <2>1, <2>2, <2>4
<1> QED
  BY <1>1, <1>2

\* compute_new_arcs: the arcs of a silo that owned the end of none of them before hold
\* just the keys that it owns now, if there are two different hashes on the ring.
LEMMA ArcsCover ==
  ASSUME NEW at, NEW old, NEW new, NodesIn(at, new), NEW s \in new,
         \A x \in Points(at, new) : x.silo = s => OwnerOf(at, old, x.pos) # s,
         \E y, z \in Points(at, new) : y.pos # z.pos, NEW key \in Nat
  PROVE  (\E arc \in NewArcs(at, old, new, s) : Within(arc, key)) <=> OwnerOf(at, new, key) = s
<1> DEFINE P == Points(at, new)
<1>1. P \subseteq PointType /\ IsFiniteSet(P)
  BY PointsAre
<1>2. OwnerPoint(P, key) \in P /\ OwnerOf(at, new, key) = OwnerPoint(P, key).silo
  BY OwnerIs
<1>3. {y \in P : y.silo = s /\ OwnerOf(at, old, y.pos) # s} = {y \in P : y.silo = s}
  OBVIOUS
<1>4. NewArcs(at, old, new, s) = {ArcTo(P, x) : x \in {y \in P : y.silo = s}}
  BY <1>3 DEF NewArcs, ArcTo, PrevPoint
<1> HIDE DEF P
<1>5. \A x \in P : Within(ArcTo(P, x), key) <=> OwnerPoint(P, key) = x
  BY <1>1, ArcOwns DEF P
<1> QED
  BY <1>2, <1>4, <1>5

\* The owner of a key is the same on two rings that both have both owners.
LEMMA OwnersAgree ==
  ASSUME NEW at, NEW R, NodesIn(at, R), NEW Q, NodesIn(at, Q), NEW key \in Nat,
         OwnerOf(at, R, key) \in Q, OwnerOf(at, Q, key) \in R
  PROVE  OwnerOf(at, R, key) = OwnerOf(at, Q, key)
<1> DEFINE A == Points(at, R)
           B == Points(at, Q)
           afterA == {x \in A : x.pos >= key}
           afterB == {x \in B : x.pos >= key}
<1>1. NoOwner \notin R /\ NoOwner \notin Q
  BY DEF NodesIn, NoOwner
<1>2. A # {} /\ B # {}
  BY <1>1 DEF OwnerOf
<1>3. /\ A \subseteq PointType /\ B \subseteq PointType
      /\ \A x \in A : x.silo \in Q => x \in B
      /\ \A x \in B : x.silo \in R => x \in A
  <2>1. /\ A \subseteq PointType /\ B \subseteq PointType
        /\ \A x \in A : x.pos \in at[x.silo]
        /\ \A x \in B : x.pos \in at[x.silo]
        /\ \A s \in R : \A p \in at[s] : Point(p, s) \in A
        /\ \A s \in Q : \A p \in at[s] : Point(p, s) \in B
    BY PointsAre
  <2>2. \A x \in PointType : x = Point(x.pos, x.silo)
    BY DEF PointType, Point
  <2> HIDE DEF A, B
  <2> QED
    BY <2>1, <2>2
<1>4. /\ OwnerOf(at, R, key) = IF afterA = {} THEN Lowest(A).silo ELSE Lowest(afterA).silo
      /\ OwnerOf(at, Q, key) = IF afterB = {} THEN Lowest(B).silo ELSE Lowest(afterB).silo
  BY <1>2 DEF OwnerOf
<1>5. /\ afterA \subseteq A /\ afterB \subseteq B
      /\ \A x \in A \cap B : x \in afterA <=> x \in afterB
  OBVIOUS
<1> HIDE DEF A, B, afterA, afterB
<1>6. /\ Lowest(A) \in A /\ Lowest(B) \in B
      /\ afterA # {} => Lowest(afterA) \in afterA
      /\ afterB # {} => Lowest(afterB) \in afterB
  BY <1>2, <1>3, <1>5, LowestIs
<1>7. CASE afterA # {}
  <2>1. Lowest(afterA) \in afterB
    BY <1>3, <1>4, <1>5, <1>6, <1>7
  <2>2. Lowest(afterB) \in afterA
    BY <1>3, <1>4, <1>5, <1>6, <2>1
  <2>3. Lowest(afterA) = Lowest(afterB)
    BY <1>3, <1>5, <2>1, <2>2, SameLowest
  <2> QED
    BY <1>4, <1>7, <2>1, <2>3
<1>8. CASE afterA = {}
  <2>1. afterB = {}
    BY <1>3, <1>4, <1>5, <1>6, <1>8
  <2>2. Lowest(A) \in B /\ Lowest(B) \in A
    BY <1>3, <1>4, <1>6, <1>8, <2>1
  <2>3. Lowest(A) = Lowest(B)
    BY <1>2, <1>3, <2>2, SameLowest
  <2> QED
    BY <1>4, <1>8, <2>1, <2>3
<1> QED
  BY <1>7, <1>8

\* Positions of which there are more than one differ somewhere.
LEMMA SomeDiffer ==
  ASSUME NEW P, Cardinality({x.pos : x \in P}) > 1
  PROVE  \E y, z \in P : y.pos # z.pos
<1> SUFFICES ASSUME \A y, z \in P : y.pos = z.pos PROVE FALSE
  OBVIOUS
<1>1. CASE P = {}
  <2>1. {x.pos : x \in P} = {}
    BY <1>1
  <2> QED
    BY <2>1, FS_EmptySet
<1>2. CASE P # {}
  <2>1. PICK y \in P : TRUE
    BY <1>2
  <2>2. {x.pos : x \in P} = {y.pos}
    BY <2>1
  <2>3. Cardinality({y.pos}) = 1
    BY FS_Singleton
  <2> QED
    BY <2>2, <2>3
<1> QED
  BY <1>1, <1>2

=============================================================================

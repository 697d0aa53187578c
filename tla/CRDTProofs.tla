----------------------------- MODULE CRDTProofs -----------------------------
(***************************************************************************)
(* The merge of every type of crdt.rs is the join of an order: an upper    *)
(* bound, idempotent, associative, and commutative as long as the two      *)
(* sides do not hold different values for one register write.              *)
(***************************************************************************)
EXTENDS CRDT, FiniteSetTheorems, WellFoundedInduction, TLAPS

-----------------------------------------------------------------------------
(* Counters. *)

\* GCounter::merge stays in the type (crdt.rs:433-440).
LEMMA GMergeType ==
    ASSUME NEW g \in GCounter, NEW h \in GCounter
    PROVE  GMerge(g, h) \in GCounter
  BY DEF GCounter, GMerge

\* GCounter::merge is an upper bound of both sides.
LEMMA GMergeUpper ==
    ASSUME NEW g \in GCounter, NEW h \in GCounter
    PROVE  GLeq(g, GMerge(g, h)) /\ GLeq(h, GMerge(g, h))
  BY DEF GCounter, GMerge, GLeq

\* GCounter::merge does not depend on which side is self.
LEMMA GMergeCommutes ==
    ASSUME NEW g \in GCounter, NEW h \in GCounter
    PROVE  GMerge(g, h) = GMerge(h, g)
  BY DEF GCounter, GMerge

\* GCounter::merge does not depend on the order in which states arrive.
LEMMA GMergeAssociates ==
    ASSUME NEW g \in GCounter, NEW h \in GCounter, NEW k \in GCounter
    PROVE  GMerge(GMerge(g, h), k) = GMerge(g, GMerge(h, k))
  BY DEF GCounter, GMerge

\* Merging a counter that is already covered changes nothing.
LEMMA GMergeAbsorbs ==
    ASSUME NEW g \in GCounter, NEW h \in GCounter, GLeq(h, g)
    PROVE  GMerge(g, h) = g
<1>1. \A a \in Actor : GMerge(g, h)[a] = g[a]
  BY DEF GCounter, GMerge, GLeq
<1> QED
  BY <1>1 DEF GCounter, GMerge

-----------------------------------------------------------------------------
(* Registers. *)

\* LWWReg::merge is an upper bound of both sides (crdt.rs:321-329), as soon
\* as they agree about the write they hold.
LEMMA RegMergeUpper ==
    ASSUME NEW r \in LWWReg, NEW s \in LWWReg, RegAgree(r, s)
    PROVE  /\ RegMerge(r, s) \in LWWReg
           /\ RegLeq(r, RegMerge(r, s))
           /\ RegLeq(s, RegMerge(r, s))
<1>1. r.clock \in Nat /\ s.clock \in Nat /\ r.actor \in Nat /\ s.actor \in Nat
  BY ActorAssumption DEF LWWReg
<1>2. CASE ShouldUpdate(r, s.clock, s.actor)
  BY <1>1, <1>2 DEF RegMerge, RegLeq, ShouldUpdate
<1>3. CASE ~ShouldUpdate(r, s.clock, s.actor)
  <2>1. RegMerge(r, s) = r
    BY <1>3 DEF RegMerge
  <2>2. CASE r.clock = s.clock /\ r.actor = s.actor
    <3>1. r = s
      BY <2>2 DEF RegAgree, LWWReg
    <3> QED
      BY <2>1, <3>1 DEF RegLeq
  <2>3. CASE ~(r.clock = s.clock /\ r.actor = s.actor)
    <3>1. ShouldUpdate(s, r.clock, r.actor)
      BY <1>1, <1>3, <2>3 DEF ShouldUpdate
    <3> QED
      BY <1>1, <2>1, <3>1 DEF RegLeq, ShouldUpdate
  <2> QED
    BY <2>2, <2>3
<1> QED
  BY <1>2, <1>3

\* LWWReg::merge does not depend on which side is self, as soon as the two
\* sides agree about the write they hold.
LEMMA RegMergeCommutes ==
    ASSUME NEW r \in LWWReg, NEW s \in LWWReg, RegAgree(r, s)
    PROVE  RegMerge(r, s) = RegMerge(s, r)
<1>1. r.clock \in Nat /\ s.clock \in Nat /\ r.actor \in Nat /\ s.actor \in Nat
  BY ActorAssumption DEF LWWReg
<1>2. CASE r.clock = s.clock /\ r.actor = s.actor
  <2>1. r = s
    BY <1>2 DEF RegAgree, LWWReg
  <2> QED
    BY <2>1
<1>3. CASE ~(r.clock = s.clock /\ r.actor = s.actor)
  BY <1>1, <1>3 DEF RegMerge, ShouldUpdate
<1> QED
  BY <1>2, <1>3

\* LWWReg::merge does not depend on the order in which states arrive.
LEMMA RegMergeAssociates ==
    ASSUME NEW r \in LWWReg, NEW s \in LWWReg, NEW t \in LWWReg
    PROVE  RegMerge(RegMerge(r, s), t) = RegMerge(r, RegMerge(s, t))
<1>1. /\ r.clock \in Nat /\ s.clock \in Nat /\ t.clock \in Nat
      /\ r.actor \in Nat /\ s.actor \in Nat /\ t.actor \in Nat
  BY ActorAssumption DEF LWWReg
<1> QED
  BY <1>1 DEF RegMerge, ShouldUpdate

-----------------------------------------------------------------------------
(* Items and lists. *)

\* Item::merge is an upper bound of both sides (crdt.rs:39-44).
LEMMA ItemMergeUpper ==
    ASSUME NEW x \in Item, NEW y \in Item, RegAgree(x.acquired, y.acquired)
    PROVE  /\ ItemMerge(x, y) \in Item
           /\ ItemLeq(x, ItemMerge(x, y))
           /\ ItemLeq(y, ItemMerge(x, y))
<1>1. /\ x.p \in GCounter /\ x.n \in GCounter /\ x.acquired \in LWWReg
      /\ y.p \in GCounter /\ y.n \in GCounter /\ y.acquired \in LWWReg
  BY DEF Item
<1>2. /\ GMerge(x.p, y.p) \in GCounter
      /\ GMerge(x.n, y.n) \in GCounter
      /\ RegMerge(x.acquired, y.acquired) \in LWWReg
  BY <1>1, GMergeType, RegMergeUpper
<1>3. ItemMerge(x, y) \in Item
  BY <1>2 DEF ItemMerge, Item
<1>4. GLeq(x.p, GMerge(x.p, y.p)) /\ GLeq(y.p, GMerge(x.p, y.p))
  BY <1>1, GMergeUpper
<1>5. GLeq(x.n, GMerge(x.n, y.n)) /\ GLeq(y.n, GMerge(x.n, y.n))
  BY <1>1, GMergeUpper
<1>6. /\ RegLeq(x.acquired, RegMerge(x.acquired, y.acquired))
      /\ RegLeq(y.acquired, RegMerge(x.acquired, y.acquired))
  BY <1>1, RegMergeUpper
<1> QED
  BY <1>3, <1>4, <1>5, <1>6 DEF ItemLeq, ItemMerge

\* Item::merge does not depend on which side is self.
LEMMA ItemMergeCommutes ==
    ASSUME NEW x \in Item, NEW y \in Item, RegAgree(x.acquired, y.acquired)
    PROVE  ItemMerge(x, y) = ItemMerge(y, x)
<1>1. /\ x.p \in GCounter /\ x.n \in GCounter /\ x.acquired \in LWWReg
      /\ y.p \in GCounter /\ y.n \in GCounter /\ y.acquired \in LWWReg
  BY DEF Item
<1>2. GMerge(x.p, y.p) = GMerge(y.p, x.p) /\ GMerge(x.n, y.n) = GMerge(y.n, x.n)
  BY <1>1, GMergeCommutes
<1>3. RegMerge(x.acquired, y.acquired) = RegMerge(y.acquired, x.acquired)
  BY <1>1, RegMergeCommutes
<1> QED
  BY <1>2, <1>3 DEF ItemMerge

\* Item::merge does not depend on the order in which states arrive.
LEMMA ItemMergeAssociates ==
    ASSUME NEW x \in Item, NEW y \in Item, NEW z \in Item
    PROVE  ItemMerge(ItemMerge(x, y), z) = ItemMerge(x, ItemMerge(y, z))
<1>1. /\ x.p \in GCounter /\ x.n \in GCounter /\ x.acquired \in LWWReg
      /\ y.p \in GCounter /\ y.n \in GCounter /\ y.acquired \in LWWReg
      /\ z.p \in GCounter /\ z.n \in GCounter /\ z.acquired \in LWWReg
  BY DEF Item
<1>2. /\ GMerge(GMerge(x.p, y.p), z.p) = GMerge(x.p, GMerge(y.p, z.p))
      /\ GMerge(GMerge(x.n, y.n), z.n) = GMerge(x.n, GMerge(y.n, z.n))
  BY <1>1, GMergeAssociates
<1>3. RegMerge(RegMerge(x.acquired, y.acquired), z.acquired)
        = RegMerge(x.acquired, RegMerge(y.acquired, z.acquired))
  BY <1>1, RegMergeAssociates
<1> QED
  BY <1>2, <1>3 DEF ItemMerge

\* The shape of a list: a function from some of the names to items.
LEMMA MapShape ==
    ASSUME NEW Name, NEW m, IsAWORMap(m, Name)
    PROVE  /\ DOMAIN m \subseteq Name
           /\ m = [n \in DOMAIN m |-> m[n]]
           /\ \A n \in DOMAIN m : m[n] \in Item
  BY DEF IsAWORMap

\* AWORMap::merge stays in the type and is an upper bound of both sides
\* (crdt.rs:82-95).
THEOREM MapMergeUpper ==
    ASSUME NEW Name, NEW l, IsAWORMap(l, Name), NEW m, IsAWORMap(m, Name),
           MapAgree(l, m)
    PROVE  /\ IsAWORMap(MapMerge(l, m), Name)
           /\ MapLeq(l, MapMerge(l, m))
           /\ MapLeq(m, MapMerge(l, m))
<1> DEFINE j == MapMerge(l, m)
<1>1. /\ DOMAIN l \subseteq Name /\ \A n \in DOMAIN l : l[n] \in Item
      /\ DOMAIN m \subseteq Name /\ \A n \in DOMAIN m : m[n] \in Item
  BY MapShape
<1>2. DOMAIN j = DOMAIN l \cup DOMAIN m
  BY DEF MapMerge
<1>3. ASSUME NEW n \in DOMAIN j
      PROVE  /\ j[n] \in Item
             /\ n \in DOMAIN l => ItemLeq(l[n], j[n])
             /\ n \in DOMAIN m => ItemLeq(m[n], j[n])
  <2>1. CASE n \in DOMAIN l /\ n \in DOMAIN m
    <3>1. j[n] = ItemMerge(l[n], m[n])
      BY <2>1 DEF MapMerge
    <3>2. RegAgree(l[n].acquired, m[n].acquired)
      BY <2>1 DEF MapAgree
    <3> QED
      BY <1>1, <2>1, <3>1, <3>2, ItemMergeUpper
  <2>2. CASE n \in DOMAIN l /\ n \notin DOMAIN m
    <3>1. j[n] = l[n]
      BY <2>2 DEF MapMerge
    <3>2. ItemLeq(l[n], l[n])
      BY <1>1, <2>2, SMT DEF ItemLeq, GLeq, RegLeq, Item, GCounter
    <3> QED
      BY <1>1, <2>2, <3>1, <3>2
  <2>3. CASE n \notin DOMAIN l /\ n \in DOMAIN m
    <3>1. j[n] = m[n]
      BY <2>3 DEF MapMerge
    <3>2. ItemLeq(m[n], m[n])
      BY <1>1, <2>3, SMT DEF ItemLeq, GLeq, RegLeq, Item, GCounter
    <3> QED
      BY <1>1, <2>3, <3>1, <3>2
  <2> QED
    BY <1>2, <2>1, <2>2, <2>3
<1>4. j \in [DOMAIN l \cup DOMAIN m -> Item]
  BY <1>2, <1>3 DEF MapMerge
<1>5. IsAWORMap(j, Name)
  <2> HIDE DEF j
  <2> QED
    BY <1>1, <1>2, <1>4 DEF IsAWORMap
<1>6. MapLeq(l, j) /\ MapLeq(m, j)
  BY <1>2, <1>3 DEF MapLeq
<1> QED
  BY <1>5, <1>6

\* AWORMap::merge does not depend on which side is self, for lists that do
\* not disagree about a register write: what test_awormap_merge_is_commutative
\* (crdt.rs:851) tries on one example.
THEOREM MapMergeCommutes ==
    ASSUME NEW Name, NEW l, IsAWORMap(l, Name), NEW m, IsAWORMap(m, Name),
           MapAgree(l, m)
    PROVE  MapMerge(l, m) = MapMerge(m, l)
<1>1. /\ \A n \in DOMAIN l : l[n] \in Item
      /\ \A n \in DOMAIN m : m[n] \in Item
  BY MapShape
<1>2. ASSUME NEW n \in DOMAIN l \cup DOMAIN m
      PROVE  MapMerge(l, m)[n] = MapMerge(m, l)[n]
  <2>1. CASE n \in DOMAIN l /\ n \in DOMAIN m
    <3>1. RegAgree(l[n].acquired, m[n].acquired)
      BY <2>1 DEF MapAgree
    <3>2. ItemMerge(l[n], m[n]) = ItemMerge(m[n], l[n])
      BY <1>1, <2>1, <3>1, ItemMergeCommutes
    <3> QED
      BY <2>1, <3>2 DEF MapMerge
  <2>2. CASE ~(n \in DOMAIN l /\ n \in DOMAIN m)
    BY <2>2 DEF MapMerge
  <2> QED
    BY <2>1, <2>2
<1> QED
  BY <1>2, Zenon DEF MapMerge

\* AWORMap::merge does not depend on the order in which states arrive: what
\* test_awormap_merge_is_associative (crdt.rs:884) tries on one example.
THEOREM MapMergeAssociates ==
    ASSUME NEW Name, NEW l, IsAWORMap(l, Name), NEW m, IsAWORMap(m, Name),
           NEW k, IsAWORMap(k, Name)
    PROVE  MapMerge(MapMerge(l, m), k) = MapMerge(l, MapMerge(m, k))
<1> DEFINE D == DOMAIN l \cup DOMAIN m \cup DOMAIN k
           left == MapMerge(MapMerge(l, m), k)
           right == MapMerge(l, MapMerge(m, k))
<1>1. /\ \A n \in DOMAIN l : l[n] \in Item
      /\ \A n \in DOMAIN m : m[n] \in Item
      /\ \A n \in DOMAIN k : k[n] \in Item
  BY MapShape
<1>2. /\ left = [n \in D |-> left[n]]
      /\ right = [n \in D |-> right[n]]
  BY DEF MapMerge
<1>3. ASSUME NEW n \in D
      PROVE  left[n] = right[n]
  <2>1. CASE n \in DOMAIN l /\ n \in DOMAIN m /\ n \in DOMAIN k
    <3>1. ItemMerge(ItemMerge(l[n], m[n]), k[n])
            = ItemMerge(l[n], ItemMerge(m[n], k[n]))
      BY <1>1, <2>1, ItemMergeAssociates
    <3> QED
      BY <2>1, <3>1 DEF MapMerge
  <2>2. CASE ~(n \in DOMAIN l /\ n \in DOMAIN m /\ n \in DOMAIN k)
    BY <2>2 DEF MapMerge
  <2> QED
    BY <2>1, <2>2
<1>4. [n \in D |-> left[n]] = [n \in D |-> right[n]]
  BY <1>3
<1> QED
  BY <1>2, <1>4

-----------------------------------------------------------------------------
(* The sum of a counter's entries, which value_total adds up one by one.   *)

\* Every set of numbers but the empty one has a smallest element.
LEMMA Smallest ==
    ASSUME NEW S \in SUBSET Nat, S # {}
    PROVE  \E m \in S : \A k \in S : m <= k
<1> DEFINE R == OpToRel(<, Nat)
<1>1. IsWellFoundedOn(R, Nat)
  BY NatLessThanWellFounded
<1>2. \A k, m \in Nat : k < m => <<k, m>> \in R
  BY DEF OpToRel
<1> HIDE DEF R
<1>3. PICK m \in S : \A k \in S : ~ (<<k, m>> \in R)
  BY <1>1, WFMin
<1>4. ASSUME NEW k \in S PROVE m <= k
  <2>1. ~ (k < m)
    BY <1>2, <1>3
  <2> QED
    BY <2>1
<1> QED
  BY <1>4

\* Induction over the numbers in T.
LEMMA AllNumbers ==
    ASSUME NEW T, 0 \in T, \A n \in Nat : n \in T => n + 1 \in T
    PROVE  \A n \in Nat : n \in T
<1> SUFFICES ASSUME Nat \ T # {} PROVE FALSE
  OBVIOUS
<1>1. PICK m \in Nat \ T : \A k \in Nat \ T : m <= k
  BY Smallest
<1>2. m - 1 \in Nat /\ ~ (m <= m - 1)
  BY <1>1
<1>3. m - 1 \in T
  BY <1>1, <1>2
<1> QED
  BY <1>1, <1>2, <1>3

\* The next partial sum, given those of smaller sets.
PartialSum(g, f, S) == IF S = {} THEN 0
                       ELSE LET a == CHOOSE a \in S : TRUE IN g[a] + f[S \ {a}]

Sum(g) == CHOOSE f : f = [S \in SUBSET Actor |-> PartialSum(g, f, S)]

LEMMA ValueTotalIsSum == \A g : ValueTotal(g) = Sum(g)[Actor]
  BY DEF ValueTotal, Sum, PartialSum, MapThenSumSet, MapThenFoldSet

\* A set of actors, and what is left when one is taken out.
LEMMA ActorSets ==
    ASSUME NEW S \in SUBSET Actor
    PROVE  /\ Cardinality(S) \in Nat
           /\ Cardinality(S) = 0 <=> S = {}
           /\ S # {} => LET a == CHOOSE a \in S : TRUE IN
                        /\ a \in S /\ S \ {a} \in SUBSET Actor
                        /\ Cardinality(S \ {a}) = Cardinality(S) - 1
<1>1. IsFiniteSet(S)
  BY ActorAssumption, FS_Subset
<1> QED
  BY <1>1, FS_CardinalityType, FS_EmptySet, FS_RemoveElement

\* There is a function that is the partial sums.
LEMMA SumIsDefined ==
    ASSUME NEW g
    PROVE  Sum(g) = [S \in SUBSET Actor |-> PartialSum(g, Sum(g), S)]
<1> DEFINE Upto(n, f) == \A S \in SUBSET Actor :
                             Cardinality(S) <= n => f[S] = PartialSum(g, f, S)
           T == { n \in Nat : \E f : Upto(n, f) }
<1>1. 0 \in T
  <2> DEFINE f == [S \in SUBSET Actor |-> 0]
  <2>1. ASSUME NEW S \in SUBSET Actor, Cardinality(S) <= 0
        PROVE  f[S] = PartialSum(g, f, S)
    <3>1. Cardinality(S) \in Nat /\ (Cardinality(S) = 0 <=> S = {})
      BY ActorSets
    <3>2. S = {}
      BY <2>1, <3>1
    <3> QED
      BY <3>2 DEF PartialSum
  <2> HIDE DEF f
  <2>2. Upto(0, f)
    BY <2>1
  <2> QED
    BY <2>2
<1>2. ASSUME NEW n \in Nat, n \in T PROVE n + 1 \in T
  <2>1. PICK f : Upto(n, f)
    BY <1>2
  <2> DEFINE h == [S \in SUBSET Actor |->
                      IF Cardinality(S) <= n THEN f[S] ELSE PartialSum(g, f, S)]
  <2>2. ASSUME NEW S \in SUBSET Actor, Cardinality(S) <= n + 1
        PROVE  h[S] = PartialSum(g, h, S)
    <3>1. h[S] = PartialSum(g, f, S)
      BY <2>1
    <3>2. CASE S = {}
      BY <3>1, <3>2 DEF PartialSum
    <3>3. CASE S # {}
      <4> DEFINE a == CHOOSE a \in S : TRUE
      <4>1. /\ S \ {a} \in SUBSET Actor /\ Cardinality(S \ {a}) <= n
        BY <2>2, <3>3, ActorSets
      <4>2. h[S \ {a}] = f[S \ {a}]
        BY <4>1
      <4> QED
        BY <3>1, <3>3, <4>2 DEF PartialSum
    <3> QED
      BY <3>2, <3>3
  <2> HIDE DEF h
  <2>3. Upto(n + 1, h)
    BY <2>2
  <2> QED
    BY <2>3
<1> HIDE DEF T
<1>3. Cardinality(Actor) \in T
  BY <1>1, <1>2, AllNumbers, ActorSets
<1>4. PICK f : Upto(Cardinality(Actor), f)
  BY <1>3 DEF T
<1>5. ASSUME NEW S \in SUBSET Actor PROVE f[S] = PartialSum(g, f, S)
  <2>1. Cardinality(S) <= Cardinality(Actor)
    BY ActorAssumption, FS_Subset
  <2> QED
    BY <1>4, <2>1
<1> DEFINE h == [S \in SUBSET Actor |-> f[S]]
<1>6. ASSUME NEW S \in SUBSET Actor PROVE h[S] = PartialSum(g, h, S)
  BY <1>5, ActorSets DEF PartialSum
<1>7. h = [S \in SUBSET Actor |-> PartialSum(g, h, S)]
  BY <1>6
<1> HIDE DEF h
<1> QED
  BY <1>7 DEF Sum

\* One counter that is n more in the entry of client c: every partial sum that
\* includes c is n more.
LEMMA SumsDiffer ==
    ASSUME NEW g \in GCounter, NEW c \in Actor, NEW n \in Nat
    PROVE  \A S \in SUBSET Actor :
              /\ Sum(g)[S] \in Nat
              /\ Sum(IncBy(g, c, n))[S] = Sum(g)[S] + (IF c \in S THEN n ELSE 0)
<1> DEFINE h == IncBy(g, c, n)
           Good(S) == /\ Sum(g)[S] \in Nat
                      /\ Sum(h)[S] = Sum(g)[S] + (IF c \in S THEN n ELSE 0)
           T == { k \in Nat : \A S \in SUBSET Actor : Cardinality(S) = k => Good(S) }
<1>1. \A a \in Actor : /\ g[a] \in Nat
                       /\ h[a] = g[a] + (IF a = c THEN n ELSE 0)
  BY DEF IncBy, GCounter
<1> HIDE DEF h
<1>2. \A S \in SUBSET Actor : /\ Sum(g)[S] = PartialSum(g, Sum(g), S)
                              /\ Sum(h)[S] = PartialSum(h, Sum(h), S)
  BY SumIsDefined
<1>3. 0 \in T
  <2>1. Good({})
    BY <1>2 DEF PartialSum
  <2>2. \A S \in SUBSET Actor : Cardinality(S) = 0 => S = {}
    BY ActorSets
  <2> HIDE DEF Good
  <2> QED
    BY <2>1, <2>2
<1>4. ASSUME NEW k \in Nat, k \in T PROVE k + 1 \in T
  <2> SUFFICES ASSUME NEW S \in SUBSET Actor, Cardinality(S) = k + 1 PROVE Good(S)
    OBVIOUS
  <2> DEFINE a == CHOOSE a \in S : TRUE
  <2>1. S # {}
    BY ActorSets
  <2>2. a \in S /\ S \ {a} \in SUBSET Actor /\ Cardinality(S \ {a}) = k
    BY <2>1, ActorSets
  <2>3. Good(S \ {a})
    BY <1>4, <2>2
  <2>4. /\ Sum(g)[S] = g[a] + Sum(g)[S \ {a}]
        /\ Sum(h)[S] = h[a] + Sum(h)[S \ {a}]
    BY <1>2, <2>1 DEF PartialSum
  <2>5. a \in Actor
    BY <2>2
  <2> HIDE DEF a
  <2> QED
    BY <1>1, <2>2, <2>3, <2>4, <2>5
<1> HIDE DEF T
<1>5. \A k \in Nat : k \in T
  BY <1>3, <1>4, AllNumbers
<1> QED
  BY <1>5, ActorSets DEF T, h

\* value_total sees an increment as such: inc_by(n) raises it by n.
THEOREM ValueTotalCounts ==
    ASSUME NEW g \in GCounter, NEW c \in Actor, NEW n \in Nat
    PROVE  /\ ValueTotal(g) \in Nat
           /\ ValueTotal(IncBy(g, c, n)) = ValueTotal(g) + n
  BY SumsDiffer, ValueTotalIsSum
=============================================================================

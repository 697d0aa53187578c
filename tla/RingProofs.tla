----------------------------- MODULE RingProofs -----------------------------
(***************************************************************************)
(* What the hash ring of HashRing gives for any number of nodes, positions *)
(* and replicas: which nodes a preference list has, and what becomes of it *)
(* when nodes come and go.                                                 *)
(***************************************************************************)
EXTENDS RingChanges, FiniteSetTheorems, SequenceTheorems, WellFoundedInduction, TLAPS

-----------------------------------------------------------------------------
(* Finite sets of numbers, and their ascending sequences.                  *)

\* Every set of numbers but the empty one has a smallest element.
LEMMA Smallest ==
    ASSUME NEW S \in SUBSET Nat, S # {}
    PROVE  \E m \in S : \A k \in S : m <= k
<1> DEFINE R == OpToRel(<, Nat)
<1>1. IsWellFoundedOn(R, Nat)
  BY NatLessThanWellFounded
<1>2. \A k, m \in Nat : k < m => <<k, m>> \in R
  BY DEF OpToRel
<1> HIDE DEF R
<1>3. PICK m \in S : \A k \in S : ~ (<<k, m>> \in R)
  BY <1>1, WFMin
<1>4. ASSUME NEW k \in S PROVE m <= k
  <2>1. ~ (k < m)
    BY <1>2, <1>3
  <2> QED
    BY <2>1
<1> QED
  BY <1>4

\* A set with 0 and with the successors of its numbers has all numbers.
LEMMA AllNumbers ==
    ASSUME NEW T, 0 \in T, \A n \in Nat : n \in T => n + 1 \in T
    PROVE  \A n \in Nat : n \in T
<1> SUFFICES ASSUME Nat \ T # {} PROVE FALSE
  OBVIOUS
<1>1. PICK m \in Nat \ T : \A k \in Nat \ T : m <= k
  BY Smallest
<1>2. m - 1 \in Nat /\ ~ (m <= m - 1)
  BY <1>1
<1> QED
  BY <1>1, <1>2

UpTo(S, h) == { g \in S : g <= h }

\* How many elements of a set are up to h grows with h, and takes every value up
\* to the number of elements.
LEMMA Ranks ==
    ASSUME NEW S \in SUBSET Nat, IsFiniteSet(S)
    PROVE  /\ Cardinality(S) \in Nat
           /\ \A h \in S : Cardinality(UpTo(S, h)) \in 1 .. Cardinality(S)
           /\ \A h, g \in S : h < g => Cardinality(UpTo(S, h)) < Cardinality(UpTo(S, g))
           /\ \A k \in 1 .. Cardinality(S) : \E h \in S : Cardinality(UpTo(S, h)) = k
<1> DEFINE n == Cardinality(S)
           rank == [h \in S |-> Cardinality(UpTo(S, h))]
<1>1. n \in Nat
  BY FS_CardinalityType
<1>2. \A h : IsFiniteSet(UpTo(S, h)) /\ Cardinality(UpTo(S, h)) \in Nat
                                     /\ Cardinality(UpTo(S, h)) <= n
  <2> SUFFICES ASSUME NEW h PROVE IsFiniteSet(UpTo(S, h)) /\ Cardinality(UpTo(S, h)) \in Nat
                                                          /\ Cardinality(UpTo(S, h)) <= n
    OBVIOUS
  <2>1. UpTo(S, h) \in SUBSET S
    BY DEF UpTo
  <2> QED
    BY <2>1, FS_Subset, FS_CardinalityType
<1>3. \A h \in S : Cardinality(UpTo(S, h)) # 0
  <2> SUFFICES ASSUME NEW h \in S PROVE UpTo(S, h) # {}
    BY <1>2, FS_EmptySet
  <2> QED
    BY DEF UpTo
<1>4. ASSUME NEW h \in S, NEW g \in S, h < g
      PROVE  Cardinality(UpTo(S, h)) < Cardinality(UpTo(S, g))
  <2>1. \A x \in S : x <= h => x <= g
    BY <1>4
  <2>2. g <= g /\ ~ (g <= h)
    BY <1>4
  <2>3. UpTo(S, h) \in SUBSET UpTo(S, g) /\ g \in UpTo(S, g) /\ g \notin UpTo(S, h)
    BY <2>1, <2>2 DEF UpTo
  <2> QED
    BY <1>2, <2>3, FS_Subset
<1>5. rank \in Injection(S, 1 .. n)
  <2>1. rank \in [S -> 1 .. n]
    BY <1>1, <1>2, <1>3
  <2>2. ASSUME NEW h \in S, NEW g \in S, rank[h] = rank[g] PROVE h = g
    BY <1>2, <1>4, <2>2
  <2> QED
    BY <2>1, <2>2 DEF Injection, IsInjective
<1>6. IsFiniteSet(1 .. n) /\ Cardinality(1 .. n) = n
  BY <1>1, FS_Interval
<1>7. rank \in Surjection(S, 1 .. n)
  BY <1>5, <1>6, FS_Injection
<1>8. \A k \in 1 .. n : \E h \in S : rank[h] = k
  BY <1>7 DEF Surjection
<1> QED
  BY <1>1, <1>2, <1>3, <1>4, <1>8

\* Ascending lists the elements of a set, each once, in their order.
LEMMA AscendingShape ==
    ASSUME NEW S \in SUBSET Nat, IsFiniteSet(S)
    PROVE  /\ Cardinality(S) \in Nat
           /\ Ascending(S) \in Seq(S) /\ Len(Ascending(S)) = Cardinality(S)
           /\ DOMAIN Ascending(S) = 1 .. Cardinality(S)
           /\ \A k \in DOMAIN Ascending(S) : /\ Ascending(S)[k] \in S
                                             /\ Cardinality(UpTo(S, Ascending(S)[k])) = k
           /\ \A i, j \in DOMAIN Ascending(S) : i < j => Ascending(S)[i] < Ascending(S)[j]
           /\ \A h \in S : \E k \in DOMAIN Ascending(S) : Ascending(S)[k] = h
<1> DEFINE n == Cardinality(S)
           s == Ascending(S)
<1>1. n \in Nat
  BY Ranks
<1>2. DOMAIN s = 1 .. n
  BY DEF Ascending
<1>3. ASSUME NEW k \in 1 .. n
      PROVE  s[k] \in S /\ Cardinality(UpTo(S, s[k])) = k
  <2>1. \E h \in S : Cardinality(UpTo(S, h)) = k
    BY Ranks
  <2>2. s[k] = CHOOSE h \in S : Cardinality(UpTo(S, h)) = k
    BY DEF Ascending, UpTo
  <2> HIDE DEF s
  <2> QED
    BY <2>1, <2>2
<1>4. s \in [1 .. n -> S]
  BY <1>3 DEF Ascending
<1> HIDE DEF s, n
<1>5. s \in Seq(S) /\ Len(s) = n
  BY <1>1, <1>2, <1>4, SeqDef, LenProperties
<1>6. ASSUME NEW i \in 1 .. n, NEW j \in 1 .. n, i < j PROVE s[i] < s[j]
  <2>1. /\ s[i] \in S /\ s[j] \in S /\ s[i] \in Nat /\ s[j] \in Nat
        /\ Cardinality(UpTo(S, s[i])) = i /\ Cardinality(UpTo(S, s[j])) = j
    BY <1>3
  <2>2. ~ (s[j] < s[i]) /\ s[i] # s[j]
    BY <1>6, <2>1, Ranks
  <2> QED
    BY <2>1, <2>2
<1>7. ASSUME NEW h \in S PROVE \E k \in 1 .. n : s[k] = h
  <2> DEFINE k == Cardinality(UpTo(S, h))
  <2>1. k \in 1 .. n
    BY Ranks DEF n
  <2>2. s[k] \in S /\ Cardinality(UpTo(S, s[k])) = k
    BY <1>3, <2>1
  <2>3. s[k] \in Nat /\ h \in Nat
    BY <2>2
  <2>4. ~ (s[k] < h) /\ ~ (h < s[k])
    BY <2>2, <2>3, Ranks
  <2> QED
    BY <2>1, <2>3, <2>4
<1> QED
  BY <1>1, <1>2, <1>3, <1>5, <1>6, <1>7 DEF s, n

-----------------------------------------------------------------------------
(* The nodes met on a way along the ring.                                  *)

\* The places of a way where a node is met that was not met before.
New(nodes, way) ==
    { i \in DOMAIN way : \A j \in 1 .. i - 1 : nodes[way[j]] # nodes[way[i]] }

Met(nodes, way) == { nodes[way[i]] : i \in DOMAIN way }

\* Every node on the way is met for the first time at one place.
LEMMA NewShape ==
    ASSUME NEW nodes, NEW S, NEW way \in Seq(S)
    PROVE  /\ New(nodes, way) \in SUBSET Nat
           /\ New(nodes, way) \subseteq DOMAIN way
           /\ IsFiniteSet(New(nodes, way)) /\ IsFiniteSet(Met(nodes, way))
           /\ Cardinality(New(nodes, way)) = Cardinality(Met(nodes, way))
           /\ \A i, j \in New(nodes, way) : nodes[way[i]] = nodes[way[j]] => i = j
           /\ \A m \in Met(nodes, way) : \E i \in New(nodes, way) : nodes[way[i]] = m
<1> DEFINE new == New(nodes, way)
           met == Met(nodes, way)
           at == [i \in new |-> nodes[way[i]]]
<1>1. DOMAIN way = 1 .. Len(way) /\ Len(way) \in Nat
  BY LenProperties
<1>2. new \in SUBSET Nat /\ new \subseteq DOMAIN way
  BY <1>1 DEF New
<1>3. IsFiniteSet(new)
  <2> HIDE DEF new
  <2>1. IsFiniteSet(1 .. Len(way))
    BY <1>1, FS_Interval
  <2>2. new \in SUBSET (1 .. Len(way))
    BY <1>1, <1>2
  <2> QED
    BY <2>1, <2>2, FS_Subset
<1>4. ASSUME NEW i \in new, NEW j \in new, nodes[way[i]] = nodes[way[j]] PROVE i = j
  <2>1. \A a, b \in new : a < b => nodes[way[a]] # nodes[way[b]]
    BY <1>1 DEF New
  <2>2. i \in Nat /\ j \in Nat
    BY <1>2
  <2> QED
    BY <1>4, <2>1, <2>2
<1>5. ASSUME NEW m \in met PROVE \E i \in new : nodes[way[i]] = m
  <2> DEFINE T == { i \in DOMAIN way : nodes[way[i]] = m }
  <2>1. T \in SUBSET Nat /\ T # {}
    BY <1>1 DEF Met
  <2>2. PICK i \in T : \A k \in T : i <= k
    BY <2>1, Smallest
  <2>3. \A j \in 1 .. i - 1 : j \in DOMAIN way /\ j \notin T
    BY <1>1, <2>2
  <2>4. i \in new
    BY <2>2, <2>3 DEF New
  <2> QED
    BY <2>2, <2>4
<1>6. at \in Bijection(new, met)
  <2>1. at \in [new -> met]
    BY <1>2 DEF Met
  <2>2. IsInjective(at)
    BY <1>4 DEF IsInjective
  <2>3. \A m \in met : \E i \in new : at[i] = m
    BY <1>5
  <2> HIDE DEF at, new, met
  <2> QED
    BY <2>1, <2>2, <2>3 DEF Bijection, Injection, Surjection
<1>7. IsFiniteSet(met) /\ Cardinality(met) = Cardinality(new)
  BY <1>3, <1>6, FS_Bijection DEF ExistsBijection
<1> QED
  BY <1>2, <1>3, <1>4, <1>5, <1>7

\* FirstMet has the nodes of the way in the order in which they are met, each once,
\* up to the number that is asked for.
LEMMA FirstMetShape ==
    ASSUME NEW nodes, NEW S, NEW way \in Seq(S), NEW replicas \in Nat
    PROVE  LET s == FirstMet(nodes, way, replicas)
               new == New(nodes, way)
               met == Met(nodes, way)
           IN  /\ s \in Seq(met)
               /\ Len(s) = IF Cardinality(met) < replicas THEN Cardinality(met)
                           ELSE replicas
               /\ DOMAIN s = 1 .. Len(s)
               /\ \A k \in DOMAIN s : \E i \in new :
                     s[k] = nodes[way[i]] /\ Cardinality(UpTo(new, i)) = k
<1> DEFINE new == New(nodes, way)
           met == Met(nodes, way)
           n == Cardinality(new)
           F == { i \in new : Cardinality({ j \in new : j <= i }) <= replicas }
           firsts == Ascending(F)
           s == FirstMet(nodes, way, replicas)
<1>1. s = [k \in DOMAIN firsts |-> nodes[way[firsts[k]]]]
  BY DEF FirstMet, New
<1>2. F = { i \in new : Cardinality(UpTo(new, i)) <= replicas }
  BY DEF UpTo
<1>3. /\ new \in SUBSET Nat /\ IsFiniteSet(new) /\ new \subseteq DOMAIN way
      /\ n = Cardinality(met)
  BY NewShape
<1>4. /\ n \in Nat
      /\ \A i \in new : Cardinality(UpTo(new, i)) \in 1 .. n
      /\ \A i, j \in new : i < j => Cardinality(UpTo(new, i)) < Cardinality(UpTo(new, j))
      /\ \A k \in 1 .. n : \E i \in new : Cardinality(UpTo(new, i)) = k
  BY <1>3, Ranks
<1> HIDE DEF F, s, firsts, new, met
<1>5. F \in SUBSET new /\ F \in SUBSET Nat /\ IsFiniteSet(F)
  BY <1>2, <1>3, FS_Subset
<1>6. Cardinality(F) = IF n < replicas THEN n ELSE replicas
  <2>1. CASE n < replicas
    <3>1. F = new
      BY <1>2, <1>4, <2>1
    <3> QED
      BY <2>1, <3>1
  <2>2. CASE ~ (n < replicas)
    <3> DEFINE rank == [i \in F |-> Cardinality(UpTo(new, i))]
    <3>1. rank \in [F -> 1 .. replicas]
      BY <1>2, <1>4, <1>5
    <3>2. ASSUME NEW i \in F, NEW j \in F, rank[i] = rank[j] PROVE i = j
      <4>1. i \in new /\ j \in new /\ i \in Nat /\ j \in Nat
        BY <1>5
      <4>2. ~ (i < j) /\ ~ (j < i)
        BY <1>4, <3>2, <4>1
      <4> QED
        BY <4>1, <4>2
    <3>3. ASSUME NEW k \in 1 .. replicas PROVE \E i \in F : rank[i] = k
      <4>1. k \in 1 .. n
        BY <1>4, <2>2
      <4>2. PICK i \in new : Cardinality(UpTo(new, i)) = k
        BY <1>4, <4>1
      <4> QED
        BY <1>2, <4>2
    <3> HIDE DEF rank
    <3>4. rank \in Bijection(F, 1 .. replicas)
      BY <3>1, <3>2, <3>3 DEF Bijection, Injection, Surjection, IsInjective
    <3>5. Cardinality(1 .. replicas) = Cardinality(F)
      BY <1>5, <3>4, FS_Bijection DEF ExistsBijection
    <3> QED
      BY <2>2, <3>5, FS_Interval
  <2> QED
    BY <2>1, <2>2
<1>7. /\ Cardinality(F) \in Nat
      /\ DOMAIN firsts = 1 .. Cardinality(F)
      /\ \A k \in DOMAIN firsts : /\ firsts[k] \in F
                                  /\ Cardinality(UpTo(F, firsts[k])) = k
  BY <1>5, AscendingShape DEF firsts
<1>8. ASSUME NEW i \in F PROVE UpTo(F, i) = UpTo(new, i)
  <2>1. \A j \in new : j < i => Cardinality(UpTo(new, j)) < Cardinality(UpTo(new, i))
    BY <1>4, <1>5
  <2>2. \A j \in new : Cardinality(UpTo(new, j)) \in Nat
    BY <1>4
  <2>3. \A j \in new : j <= i => Cardinality(UpTo(new, j)) <= replicas
    BY <1>2, <1>3, <1>5, <2>1, <2>2
  <2>4. \A j \in new : j <= i => j \in F
    BY <1>2, <2>3
  <2> QED
    BY <1>5, <2>4 DEF UpTo
<1>9. ASSUME NEW k \in 1 .. Cardinality(F)
      PROVE  /\ firsts[k] \in new /\ Cardinality(UpTo(new, firsts[k])) = k
             /\ nodes[way[firsts[k]]] \in met
  BY <1>3, <1>5, <1>7, <1>8 DEF met, Met
<1>10. s \in [1 .. Cardinality(F) -> met]
  BY <1>1, <1>7, <1>9
<1>11. s \in Seq(met) /\ Len(s) = Cardinality(F) /\ DOMAIN s = 1 .. Cardinality(F)
  BY <1>7, <1>10, SeqDef, LenProperties
<1>12. \A k \in DOMAIN s : \E i \in new :
          s[k] = nodes[way[i]] /\ Cardinality(UpTo(new, i)) = k
  BY <1>1, <1>7, <1>9, <1>11
<1> QED
  BY <1>3, <1>6, <1>11, <1>12 DEF s, new, met
-----------------------------------------------------------------------------
(* The order of the nodes going around from a hash.                        *)

\* Position h is met before position g, going around from hash.
Precedes(hash, h, g) == \/ h >= hash /\ g < hash
                        \/ (h >= hash <=> g >= hash) /\ h < g

\* Node m has a position that is met before all of node m2's.
Nearer(nodes, hash, m, m2) ==
    \E h \in Vnodes(nodes, m) : \A g \in Vnodes(nodes, m2) : Precedes(hash, h, g)

\* A ring has finitely many positions, all of them hashes.
IsRing(nodes) == DOMAIN nodes \in SUBSET Nat /\ IsFiniteSet(DOMAIN nodes)

\* The nodes of a ring, and those up to a node.
NodesOf(nodes) == { nodes[h] : h \in DOMAIN nodes }

NodesUpTo(nodes, hash, m) ==
    { m2 \in NodesOf(nodes) : m2 = m \/ Nearer(nodes, hash, m2, m) }

\* Going around meets the positions in a strict order.
LEMMA PrecedesIsAnOrder ==
    ASSUME NEW hash \in Nat
    PROVE  /\ \A h \in Nat : ~ Precedes(hash, h, h)
           /\ \A h, g \in Nat : h = g \/ Precedes(hash, h, g) \/ Precedes(hash, g, h)
           /\ \A h, g \in Nat : Precedes(hash, h, g) => ~ Precedes(hash, g, h)
           /\ \A h, g, k \in Nat :
                 Precedes(hash, h, g) /\ Precedes(hash, g, k) => Precedes(hash, h, k)
  BY DEF Precedes

\* From goes around: it meets every position, and where it meets a node first it has
\* met every position that precedes this one.
LEMMA WayShape ==
    ASSUME NEW nodes, IsRing(nodes),
           NEW hash \in Nat
    PROVE  LET way == From(nodes, hash)
               new == New(nodes, way)
           IN  /\ way \in Seq(DOMAIN nodes)
               /\ \A h \in DOMAIN nodes : \E i \in DOMAIN way : way[i] = h
               /\ \A i \in new, h \in DOMAIN nodes :
                     Precedes(hash, h, way[i]) => \E j \in 1 .. i - 1 : way[j] = h
               /\ \A i, j \in new : i < j => Precedes(hash, way[i], way[j])
<1> DEFINE D == DOMAIN nodes
           A == { h \in D : h >= hash }
           ahead == Ascending(A)
           all == Ascending(D)
           way == From(nodes, hash)
           new == New(nodes, way)
           a == Cardinality(A)
           d == Cardinality(D)
<1>1. way = ahead \o all
  BY DEF From
<1>2. D \in SUBSET Nat /\ A \in SUBSET D /\ A \in SUBSET Nat /\ IsFiniteSet(D) /\ IsFiniteSet(A)
  BY FS_Subset DEF IsRing
<1>3. /\ a \in Nat /\ ahead \in Seq(A) /\ Len(ahead) = a /\ DOMAIN ahead = 1 .. a
      /\ \A k \in 1 .. a : ahead[k] \in A
      /\ \A i, j \in 1 .. a : i < j => ahead[i] < ahead[j]
      /\ \A h \in A : \E k \in 1 .. a : ahead[k] = h
  <2> HIDE DEF A
  <2> QED
    BY <1>2, AscendingShape
<1>4. /\ d \in Nat /\ all \in Seq(D) /\ Len(all) = d /\ DOMAIN all = 1 .. d
      /\ \A k \in 1 .. d : all[k] \in D
      /\ \A i, j \in 1 .. d : i < j => all[i] < all[j]
      /\ \A h \in D : \E k \in 1 .. d : all[k] = h
  BY <1>2, AscendingShape
<1>5. \A h \in D : h \in Nat /\ (h \in A <=> h >= hash)
  BY <1>2
<1>6. \A i, j : i \in new /\ j \in 1 .. i - 1 => nodes[way[j]] # nodes[way[i]]
  BY DEF New
<1>7. new \subseteq DOMAIN way
  BY DEF New
<1> HIDE DEF A, ahead, all, way, new, a, d
<1>8. ahead \in Seq(D) /\ all \in Seq(D)
  BY <1>2, <1>3, <1>4, SeqMonotonic
<1>9. /\ way \in Seq(D) /\ Len(way) = a + d /\ DOMAIN way = 1 .. a + d
      /\ \A i \in 1 .. a + d : way[i] = IF i <= a THEN ahead[i] ELSE all[i - a]
  <2>1. /\ way \in Seq(D) /\ Len(way) = Len(ahead) + Len(all)
        /\ \A i \in 1 .. Len(ahead) + Len(all) :
              way[i] = IF i <= Len(ahead) THEN ahead[i] ELSE all[i - Len(ahead)]
    BY <1>1, <1>8, ConcatProperties
  <2>2. DOMAIN way = 1 .. Len(way)
    BY <2>1, LenProperties
  <2> QED
    BY <1>3, <1>4, <2>1, <2>2
<1>10. \A i \in 1 .. a : i \in 1 .. a + d /\ way[i] = ahead[i]
  BY <1>3, <1>4, <1>9
<1>11. \A k \in 1 .. d : k + a \in 1 .. a + d /\ way[k + a] = all[k]
  BY <1>3, <1>4, <1>9
<1>12. \A h \in D : \E i \in DOMAIN way : way[i] = h
  BY <1>4, <1>9, <1>11
\* The positions from the hash on come first.
<1>13. \A i \in 1 .. a : way[i] \in D /\ way[i] \in Nat /\ way[i] >= hash
  BY <1>2, <1>3, <1>5, <1>10
<1>14. \A h \in D : h >= hash => \E j \in 1 .. a : way[j] = h
  BY <1>3, <1>5, <1>10
\* Then, of the positions where a node is met first, those before the hash.
<1>15. ASSUME NEW i \in new, ~ (i <= a)
       PROVE  /\ i - a \in 1 .. d /\ way[i] = all[i - a]
              /\ way[i] \in D /\ way[i] \in Nat /\ ~ (way[i] >= hash)
  <2>1. i \in 1 .. a + d /\ i - a \in 1 .. d /\ way[i] = all[i - a]
    BY <1>3, <1>4, <1>7, <1>9, <1>15
  <2>2. way[i] \in D /\ way[i] \in Nat
    BY <1>4, <1>5, <2>1
  <2>3. \A j \in 1 .. a : j \in 1 .. i - 1
    BY <1>3, <1>4, <1>15, <2>1
  <2> QED
    BY <1>6, <1>14, <2>1, <2>2, <2>3
<1>16. \A i \in new : i \in Nat /\ i \in 1 .. a + d /\ (i <= a => i \in 1 .. a)
  BY <1>3, <1>4, <1>7, <1>9
<1>17. ASSUME NEW i \in new, NEW h \in D, Precedes(hash, h, way[i])
       PROVE  \E j \in 1 .. i - 1 : way[j] = h
  <2>1. CASE i <= a
    <3>1. way[i] \in Nat /\ way[i] >= hash /\ i \in 1 .. a
      BY <1>13, <1>16, <2>1
    <3>2. h \in Nat /\ h >= hash /\ h < way[i]
      BY <1>5, <1>17, <3>1 DEF Precedes
    <3>3. PICK j \in 1 .. a : way[j] = h
      BY <1>14, <3>2
    <3>4. j < i
      <4>1. i < j => way[i] < way[j]
        BY <1>3, <1>10, <3>1
      <4>2. ~ (i < j) /\ i # j
        BY <3>1, <3>2, <3>3, <4>1
      <4> QED
        BY <1>3, <3>1, <4>2
    <3> QED
      BY <1>3, <3>1, <3>3, <3>4
  <2>2. CASE ~ (i <= a) /\ h >= hash
    <3>1. PICK j \in 1 .. a : way[j] = h
      BY <1>14, <2>2
    <3>2. j \in 1 .. i - 1
      BY <1>3, <1>16, <2>2
    <3> QED
      BY <3>1, <3>2
  <2>3. CASE ~ (i <= a) /\ ~ (h >= hash)
    <3>1. /\ i - a \in 1 .. d /\ way[i] = all[i - a] /\ way[i] \in Nat
          /\ ~ (way[i] >= hash)
      BY <1>15, <2>3
    <3>2. h \in Nat /\ h < way[i]
      BY <1>5, <1>17, <2>3, <3>1 DEF Precedes
    <3>3. PICK k \in 1 .. d : all[k] = h
      BY <1>4
    <3>4. i - a < k => all[i - a] < all[k]
      BY <1>4, <3>1
    <3>5. ~ (i - a < k) /\ i - a # k
      BY <3>1, <3>2, <3>3, <3>4
    <3>6. k + a \in 1 .. i - 1
      BY <1>3, <1>4, <1>16, <3>5
    <3> QED
      BY <1>11, <3>3, <3>6
  <2> QED
    BY <2>1, <2>2, <2>3
<1>18. ASSUME NEW i \in new, NEW j \in new, i < j PROVE Precedes(hash, way[i], way[j])
  <2>1. CASE j <= a
    <3>1. i \in 1 .. a /\ j \in 1 .. a
      BY <1>3, <1>16, <1>18, <2>1
    <3>2. way[i] < way[j]
      BY <1>3, <1>10, <1>18, <3>1
    <3> QED
      BY <1>13, <3>1, <3>2 DEF Precedes
  <2>2. CASE ~ (j <= a) /\ i <= a
    <3>1. way[i] \in Nat /\ way[i] >= hash
      BY <1>13, <1>16, <2>2
    <3>2. way[j] \in Nat /\ ~ (way[j] >= hash)
      BY <1>15, <2>2
    <3> QED
      BY <3>1, <3>2 DEF Precedes
  <2>3. CASE ~ (i <= a)
    <3>1. ~ (j <= a)
      BY <1>3, <1>16, <1>18, <2>3
    <3>2. /\ i - a \in 1 .. d /\ way[i] = all[i - a]
          /\ j - a \in 1 .. d /\ way[j] = all[j - a]
          /\ way[i] \in Nat /\ way[j] \in Nat /\ ~ (way[i] >= hash) /\ ~ (way[j] >= hash)
      BY <1>15, <2>3, <3>1
    <3>3. i - a < j - a
      BY <1>3, <1>16, <1>18
    <3>4. way[i] < way[j]
      BY <1>4, <3>2, <3>3
    <3> QED
      BY <3>2, <3>4 DEF Precedes
  <2> QED
    BY <2>1, <2>2, <2>3
<1> QED
  BY <1>9, <1>12, <1>17, <1>18 DEF way, new
\* The place of a node in the order in which the nodes are met.
RankOf(nodes, hash, m) == Cardinality(NodesUpTo(nodes, hash, m))

\* The places where nodes are met first are in the order of Nearer.
LEMMA NewIsNearer ==
    ASSUME NEW nodes, IsRing(nodes),
           NEW hash \in Nat
    PROVE  LET way == From(nodes, hash)
           IN  \A i, j \in New(nodes, way) :
                  Nearer(nodes, hash, nodes[way[i]], nodes[way[j]]) <=> i < j
<1> DEFINE way == From(nodes, hash)
           new == New(nodes, way)
<1>1. /\ way \in Seq(DOMAIN nodes)
      /\ \A i \in new, h \in DOMAIN nodes :
            Precedes(hash, h, way[i]) => \E j \in 1 .. i - 1 : way[j] = h
      /\ \A i, j \in new : i < j => Precedes(hash, way[i], way[j])
  BY WayShape
<1>2. new \in SUBSET Nat /\ \A i \in new : way[i] \in DOMAIN nodes /\ way[i] \in Nat
  <2>1. DOMAIN way = 1 .. Len(way) /\ \A i \in DOMAIN way : way[i] \in DOMAIN nodes
    BY <1>1, LenProperties, ElementOfSeq
  <2> QED
    BY <2>1 DEF New
<1>3. \A i, j : i \in new /\ j \in 1 .. i - 1 => nodes[way[j]] # nodes[way[i]]
  BY DEF New
<1> HIDE DEF way, new
<1>4. ASSUME NEW i \in new, NEW g \in Vnodes(nodes, nodes[way[i]])
      PROVE  g = way[i] \/ Precedes(hash, way[i], g)
  <2>1. g \in DOMAIN nodes /\ g \in Nat /\ nodes[g] = nodes[way[i]]
    BY DEF Vnodes, IsRing
  <2>2. ~ Precedes(hash, g, way[i])
    BY <1>1, <1>3, <2>1
  <2> QED
    BY <1>2, <2>1, <2>2, PrecedesIsAnOrder
<1>5. ASSUME NEW i \in new, NEW j \in new, i < j
      PROVE  Nearer(nodes, hash, nodes[way[i]], nodes[way[j]])
  <2>1. way[i] \in Vnodes(nodes, nodes[way[i]])
    BY <1>2 DEF Vnodes
  <2>2. ASSUME NEW g \in Vnodes(nodes, nodes[way[j]]) PROVE Precedes(hash, way[i], g)
    <3>1. g \in Nat
      BY DEF Vnodes, IsRing
    <3>2. Precedes(hash, way[i], way[j])
      BY <1>1, <1>5
    <3>3. g = way[j] \/ Precedes(hash, way[j], g)
      BY <1>4
    <3> QED
      BY <1>2, <3>1, <3>2, <3>3, PrecedesIsAnOrder
  <2> QED
    BY <2>1, <2>2 DEF Nearer
<1>6. ASSUME NEW i \in new, NEW j \in new,
             Nearer(nodes, hash, nodes[way[i]], nodes[way[j]])
      PROVE  i < j
  <2>1. PICK h \in Vnodes(nodes, nodes[way[i]]) :
                \A g \in Vnodes(nodes, nodes[way[j]]) : Precedes(hash, h, g)
    BY <1>6 DEF Nearer
  <2>2. way[j] \in Vnodes(nodes, nodes[way[j]])
    BY <1>2 DEF Vnodes
  <2>3. h \in DOMAIN nodes /\ nodes[h] = nodes[way[i]]
    BY DEF Vnodes
  <2>4. PICK k \in 1 .. j - 1 : way[k] = h
    BY <1>1, <2>1, <2>2, <2>3
  <2>5. k \notin 1 .. i - 1
    BY <1>3, <2>3, <2>4
  <2> QED
    BY <1>2, <2>4, <2>5
<1> QED
  BY <1>5, <1>6 DEF way, new

\* A preference list has the nodes by their places in that order.
LEMMA PreferenceOrder ==
    ASSUME NEW nodes, IsRing(nodes),
           NEW hash \in Nat, NEW replicas \in Nat
    PROVE  LET ms == NodesOf(nodes)
               n == Cardinality(ms)
               p == PreferenceList(nodes, hash, replicas)
           IN  /\ IsFiniteSet(ms) /\ n \in Nat
               /\ \A m \in ms : RankOf(nodes, hash, m) \in 1 .. n
               /\ \A k \in 1 .. n : \E m \in ms : RankOf(nodes, hash, m) = k
               /\ \A m, m2 \in ms : /\ RankOf(nodes, hash, m) = RankOf(nodes, hash, m2) => m = m2
                                    /\ Nearer(nodes, hash, m, m2) <=>
                                          RankOf(nodes, hash, m) < RankOf(nodes, hash, m2)
               /\ p \in Seq(ms) /\ DOMAIN p = 1 .. Len(p)
               /\ Len(p) = IF n < replicas THEN n ELSE replicas
               /\ \A k \in DOMAIN p : p[k] \in ms /\ RankOf(nodes, hash, p[k]) = k
<1> DEFINE ms == NodesOf(nodes)
           n == Cardinality(ms)
           way == From(nodes, hash)
           new == New(nodes, way)
           p == PreferenceList(nodes, hash, replicas)
<1>1. /\ way \in Seq(DOMAIN nodes)
      /\ \A h \in DOMAIN nodes : \E i \in DOMAIN way : way[i] = h
  <2>1. /\ way \in Seq(DOMAIN nodes)
        /\ \A h \in DOMAIN nodes : \E i \in DOMAIN way : way[i] = h
        /\ \A i \in new, h \in DOMAIN nodes :
              Precedes(hash, h, way[i]) => \E j \in 1 .. i - 1 : way[j] = h
        /\ \A i, j \in new : i < j => Precedes(hash, way[i], way[j])
    BY WayShape
  <2> QED
    BY <2>1
<1>2. \A i, j \in new : Nearer(nodes, hash, nodes[way[i]], nodes[way[j]]) <=> i < j
  BY NewIsNearer
<1>3. p = FirstMet(nodes, way, replicas)
  BY DEF PreferenceList
<1> HIDE DEF way, new, p
<1>4. Met(nodes, way) = ms
  <2>1. \A i \in DOMAIN way : way[i] \in DOMAIN nodes
    BY <1>1, LenProperties, ElementOfSeq
  <2> QED
    BY <1>1, <2>1 DEF Met, NodesOf
<1>5. /\ new \in SUBSET Nat /\ new \subseteq DOMAIN way
      /\ IsFiniteSet(new) /\ IsFiniteSet(ms) /\ Cardinality(new) = n
      /\ \A i, j \in new : nodes[way[i]] = nodes[way[j]] => i = j
      /\ \A m \in ms : \E i \in new : nodes[way[i]] = m
  BY <1>1, <1>4, NewShape DEF new
<1>6. \A i \in new : nodes[way[i]] \in ms
  BY <1>4, <1>5 DEF Met
<1>7. /\ n \in Nat
      /\ \A i \in new : Cardinality(UpTo(new, i)) \in 1 .. n
      /\ \A i, j \in new : i < j => Cardinality(UpTo(new, i)) < Cardinality(UpTo(new, j))
      /\ \A k \in 1 .. n : \E i \in new : Cardinality(UpTo(new, i)) = k
  BY <1>5, Ranks
<1> HIDE DEF ms, n
<1>8. ASSUME NEW i \in new
      PROVE  RankOf(nodes, hash, nodes[way[i]]) = Cardinality(UpTo(new, i))
  <2> DEFINE U == UpTo(new, i)
             M == NodesUpTo(nodes, hash, nodes[way[i]])
             at == [j \in U |-> nodes[way[j]]]
  <2>1. U \subseteq new /\ IsFiniteSet(U)
    <3>1. U \in SUBSET new
      BY DEF UpTo
    <3> QED
      BY <1>5, <3>1, FS_Subset
  <2>2. \A j \in new : j \in U <=> nodes[way[j]] \in M
    <3>1. \A j \in new : j \in U <=> j = i \/ j < i
      BY <1>5 DEF UpTo
    <3>2. \A j \in new : nodes[way[j]] \in M <=> j = i \/ j < i
      BY <1>2, <1>5, <1>6 DEF NodesUpTo, ms
    <3> QED
      BY <3>1, <3>2
  <2>3. M \subseteq ms
    BY DEF NodesUpTo, ms
  <2> HIDE DEF U, M
  <2>4. at \in [U -> M]
    BY <2>1, <2>2
  <2>5. \A j, k \in U : at[j] = at[k] => j = k
    BY <1>5, <2>1
  <2>6. \A m \in M : \E j \in U : at[j] = m
    BY <1>5, <2>2, <2>3
  <2> HIDE DEF at
  <2>7. at \in Bijection(U, M)
    BY <2>4, <2>5, <2>6 DEF Bijection, Injection, Surjection, IsInjective
  <2>8. Cardinality(M) = Cardinality(U)
    BY <2>1, <2>7, FS_Bijection DEF ExistsBijection
  <2> QED
    BY <2>8 DEF RankOf, M, U
<1>9. \A m \in ms : RankOf(nodes, hash, m) \in 1 .. n
  BY <1>5, <1>7, <1>8
<1>10. \A k \in 1 .. n : \E m \in ms : RankOf(nodes, hash, m) = k
  BY <1>6, <1>7, <1>8
<1>11. ASSUME NEW m \in ms, NEW m2 \in ms
       PROVE  /\ RankOf(nodes, hash, m) = RankOf(nodes, hash, m2) => m = m2
              /\ Nearer(nodes, hash, m, m2) <=>
                    RankOf(nodes, hash, m) < RankOf(nodes, hash, m2)
  <2>1. PICK i \in new : nodes[way[i]] = m
    BY <1>5
  <2>2. PICK j \in new : nodes[way[j]] = m2
    BY <1>5
  <2>3. Nearer(nodes, hash, m, m2) <=> i < j
    BY <1>2, <2>1, <2>2
  <2>4. /\ RankOf(nodes, hash, m) = Cardinality(UpTo(new, i))
        /\ RankOf(nodes, hash, m2) = Cardinality(UpTo(new, j))
    BY <1>8, <2>1, <2>2
  <2>5. /\ i \in Nat /\ j \in Nat
        /\ Cardinality(UpTo(new, i)) \in Nat /\ Cardinality(UpTo(new, j)) \in Nat
        /\ i < j => Cardinality(UpTo(new, i)) < Cardinality(UpTo(new, j))
        /\ j < i => Cardinality(UpTo(new, j)) < Cardinality(UpTo(new, i))
    BY <1>5, <1>7
  <2>6. i = j \/ i < j \/ j < i
    BY <2>5
  <2> QED
    BY <2>1, <2>2, <2>3, <2>4, <2>5, <2>6
<1>12. /\ p \in Seq(ms) /\ DOMAIN p = 1 .. Len(p)
       /\ Len(p) = IF n < replicas THEN n ELSE replicas
       /\ \A k \in DOMAIN p : \E i \in new :
             p[k] = nodes[way[i]] /\ Cardinality(UpTo(new, i)) = k
  BY <1>1, <1>3, <1>4, FirstMetShape DEF new, n
<1>13. \A k \in DOMAIN p : p[k] \in ms /\ RankOf(nodes, hash, p[k]) = k
  BY <1>6, <1>8, <1>12
<1> QED
  BY <1>5, <1>7, <1>9, <1>10, <1>11, <1>12, <1>13 DEF ms, n, p
IsAdded(node, nodes, big) ==
    /\ node \notin NodesOf(nodes) /\ NodesOf(big) = NodesOf(nodes) \cup {node}
    /\ \A m \in NodesOf(nodes) : Vnodes(big, m) = Vnodes(nodes, m)

\* A node that is added to a ring, with positions of its own, leaves the places of the
\* other nodes as they are but for being counted itself where it is nearer.
LEMMA AddedRanks ==
    ASSUME NEW nodes, IsRing(nodes),
           NEW big, IsRing(big), NEW node, IsAdded(node, nodes, big),
           NEW hash \in Nat
    PROVE  /\ IsFiniteSet(NodesOf(nodes)) /\ Cardinality(NodesOf(nodes)) \in Nat
           /\ Cardinality(NodesOf(big)) = Cardinality(NodesOf(nodes)) + 1
           /\ \A m \in NodesOf(nodes) :
                 RankOf(big, hash, m) =
                    IF RankOf(big, hash, node) < RankOf(big, hash, m)
                    THEN RankOf(nodes, hash, m) + 1 ELSE RankOf(nodes, hash, m)
<1> DEFINE ms == NodesOf(nodes)
           few(m) == NodesUpTo(nodes, hash, m)
           more(m) == NodesUpTo(big, hash, m)
<1> USE DEF IsAdded
<1>1. IsFiniteSet(ms) /\ Cardinality(ms) \in Nat
  <2>1. 0 \in Nat
    OBVIOUS
  <2> QED
    BY <2>1, PreferenceOrder
<1>2. Cardinality(NodesOf(big)) = Cardinality(ms) + 1
  BY <1>1, FS_AddElement
<1>3. \A m \in ms : Nearer(big, hash, node, m) <=>
                       RankOf(big, hash, node) < RankOf(big, hash, m)
  <2>1. 0 \in Nat /\ node \in NodesOf(big) /\ ms \subseteq NodesOf(big)
    OBVIOUS
  <2>2. \A m, m2 \in NodesOf(big) :
           /\ RankOf(big, hash, m) = RankOf(big, hash, m2) => m = m2
           /\ Nearer(big, hash, m, m2) <=> RankOf(big, hash, m) < RankOf(big, hash, m2)
    BY <2>1, PreferenceOrder
  <2> QED
    BY <2>1, <2>2
<1>4. ASSUME NEW m \in ms
      PROVE  /\ IsFiniteSet(few(m)) /\ node \notin few(m)
             /\ more(m) = IF Nearer(big, hash, node, m) THEN few(m) \cup {node} ELSE few(m)
  <2>1. \A m2 \in ms : Nearer(big, hash, m2, m) <=> Nearer(nodes, hash, m2, m)
    BY DEF Nearer
  <2>2. few(m) \in SUBSET ms
    BY DEF NodesUpTo
  <2>3. m # node
    OBVIOUS
  <2> QED
    BY <1>1, <2>1, <2>2, <2>3, FS_Subset DEF NodesUpTo
<1>5. ASSUME NEW m \in ms
      PROVE  RankOf(big, hash, m) = IF Nearer(big, hash, node, m)
                                    THEN RankOf(nodes, hash, m) + 1
                                    ELSE RankOf(nodes, hash, m)
  <2>1. Cardinality(few(m) \cup {node}) = Cardinality(few(m)) + 1
    BY <1>4, FS_AddElement
  <2> QED
    BY <1>4, <2>1 DEF RankOf
<1> QED
  BY <1>1, <1>2, <1>3, <1>5

\* A preference list gets the added node at its place, and is otherwise as it was.
LEMMA AddedNode ==
    ASSUME NEW nodes, IsRing(nodes),
           NEW big, IsRing(big), NEW node, IsAdded(node, nodes, big),
           NEW hash \in Nat, NEW replicas \in Nat
    PROVE  Inserted(node, PreferenceList(nodes, hash, replicas),
                          PreferenceList(big, hash, replicas))
<1> DEFINE ms == NodesOf(nodes)
           n == Cardinality(ms)
           s == PreferenceList(nodes, hash, replicas)
           t == PreferenceList(big, hash, replicas)
           few(m) == RankOf(nodes, hash, m)
           more(m) == RankOf(big, hash, m)
           r == more(node)
<1>1. /\ n \in Nat /\ Cardinality(NodesOf(big)) = n + 1
      /\ \A m \in ms : more(m) = IF r < more(m) THEN few(m) + 1 ELSE few(m)
  <2> HIDE DEF s, t
  <2> QED
    BY AddedRanks
<1>2. /\ \A m \in ms : few(m) \in 1 .. n
      /\ \A m, m2 \in ms : few(m) = few(m2) => m = m2
      /\ s \in Seq(ms) /\ DOMAIN s = 1 .. Len(s)
      /\ Len(s) = IF n < replicas THEN n ELSE replicas
      /\ \A k \in DOMAIN s : s[k] \in ms /\ few(s[k]) = k
  BY PreferenceOrder
<1>3. /\ \A m \in NodesOf(big) : more(m) \in 1 .. n + 1
      /\ \A m, m2 \in NodesOf(big) : more(m) = more(m2) => m = m2
      /\ t \in Seq(NodesOf(big)) /\ DOMAIN t = 1 .. Len(t)
      /\ Len(t) = IF n + 1 < replicas THEN n + 1 ELSE replicas
      /\ \A k \in DOMAIN t : t[k] \in NodesOf(big) /\ more(t[k]) = k
  <2> DEFINE n2 == Cardinality(NodesOf(big))
  <2>1. n2 = n + 1
    BY <1>1
  <2>2. /\ \A m \in NodesOf(big) : more(m) \in 1 .. n2
        /\ \A m, m2 \in NodesOf(big) : more(m) = more(m2) => m = m2
        /\ t \in Seq(NodesOf(big)) /\ DOMAIN t = 1 .. Len(t)
        /\ Len(t) = IF n2 < replicas THEN n2 ELSE replicas
        /\ \A k \in DOMAIN t : t[k] \in NodesOf(big) /\ more(t[k]) = k
    BY PreferenceOrder
  <2> HIDE DEF n2, n, t, more
  <2> QED
    BY <2>1, <2>2
<1> HIDE DEF ms, n, s, t, few, more
<1>4. /\ Len(s) \in Nat /\ Len(t) \in Nat /\ r \in 1 .. n + 1
      /\ Len(t) \in {Len(s), Len(s) + 1} /\ Len(s) <= Len(t)
  BY <1>1, <1>2, <1>3 DEF IsAdded
\* A node before the added one is where it was, one after it a place further on.
<1>5. ASSUME NEW k \in DOMAIN t, k < r PROVE k \in DOMAIN s /\ t[k] = s[k]
  <2>1. t[k] \in NodesOf(big) /\ more(t[k]) = k /\ t[k] # node
    BY <1>3, <1>4, <1>5
  <2>2. t[k] \in ms /\ few(t[k]) = k
    BY <1>1, <1>2, <1>3, <1>4, <1>5, <2>1 DEF ms, IsAdded
  <2>3. k \in DOMAIN s
    BY <1>1, <1>2, <1>3, <1>4, <2>2
  <2> QED
    BY <1>2, <2>2, <2>3
<1>6. ASSUME NEW k \in DOMAIN t, k > r PROVE k - 1 \in DOMAIN s /\ t[k] = s[k - 1]
  <2>1. t[k] \in NodesOf(big) /\ more(t[k]) = k /\ t[k] # node /\ k \in Nat
    BY <1>3, <1>4, <1>6
  <2>2. t[k] \in ms /\ few(t[k]) = k - 1
    BY <1>1, <1>2, <1>3, <1>4, <1>6, <2>1 DEF ms, IsAdded
  <2>3. k - 1 \in DOMAIN s
    BY <1>1, <1>2, <1>3, <1>4, <1>6, <2>1
  <2> QED
    BY <1>2, <2>2, <2>3
<1>7. CASE r \in DOMAIN t
  <2>1. t[r] = node
    BY <1>3, <1>7 DEF IsAdded
  <2>2. /\ \A i \in DOMAIN t : i < r => t[i] = s[i]
        /\ \A i \in DOMAIN t : i > r => t[i] = s[i - 1]
    BY <1>5, <1>6
  <2> QED
    BY <1>4, <1>7, <2>1, <2>2 DEF Inserted, s, t
<1>8. CASE r \notin DOMAIN t
  <2>1. Len(t) = Len(s)
    BY <1>1, <1>2, <1>3, <1>4, <1>8
  <2>2. \A k \in DOMAIN t : k < r
    BY <1>3, <1>4, <1>8
  <2>3. \A k \in 1 .. Len(t) : t[k] = s[k]
    BY <1>3, <1>5, <2>2
  <2>4. s \in Seq(NodesOf(big))
    BY <1>2, SeqMonotonic DEF ms, IsAdded
  <2>5. t = s
    BY <1>3, <2>1, <2>3, <2>4, SeqEqual
  <2> QED
    BY <2>5 DEF Inserted, s, t
<1> QED
  BY <1>7, <1>8
-----------------------------------------------------------------------------
(* The ring of the state machine.                                          *)

\* The invariant of the theorems: the ring has the positions of its members.
RingInv == /\ place \in Arrangements /\ list \in ListHashes
           /\ IsRing(ring)
           /\ Members \subseteq Node
           /\ DOMAIN ring = UNION { place[n] : n \in Members }
           /\ \A n \in Members : \A h \in place[n] : ring[h] = n

LEMMA InvTypeOK == RingInv => TypeOK
  BY DEF RingInv, TypeOK

\* A ring has a node's positions if the node is a member, and none otherwise.
LEMMA MembersPositions ==
    ASSUME RingInv
    PROVE  /\ Members = NodesOf(ring)
           /\ \A n \in Members : Vnodes(ring, n) = place[n] /\ place[n] # {}
           /\ \A n \in Node, m \in Members : n # m => place[n] \cap place[m] = {}
           /\ \A n \in Node : /\ place[n] \in SUBSET Nat /\ IsFiniteSet(place[n])
                              /\ place[n] # {}
<1>1. /\ \A n \in Node : /\ place[n] \in SUBSET Nat /\ IsFiniteSet(place[n])
                         /\ place[n] # {}
      /\ \A n \in Node, m \in Node : n # m => place[n] \cap place[m] = {}
  BY ArrangementsAssumption DEF RingInv
<1>2. Members = NodesOf(ring)
  BY DEF Members, NodesOf
<1>3. ASSUME NEW n \in Members PROVE Vnodes(ring, n) = place[n]
  <2>1. \A h \in place[n] : h \in Vnodes(ring, n)
    BY DEF RingInv, Vnodes
  <2>2. ASSUME NEW h \in Vnodes(ring, n) PROVE h \in place[n]
    <3>1. h \in DOMAIN ring /\ ring[h] = n
      BY DEF Vnodes
    <3>2. PICK m \in Members : h \in place[m]
      BY <3>1 DEF RingInv
    <3> QED
      BY <3>1, <3>2 DEF RingInv
  <2> QED
    BY <2>1, <2>2
<1> QED
  BY <1>1, <1>2, <1>3 DEF RingInv

\* add_node: a node that enters is added to the ring.
LEMMA EnterAdds ==
    ASSUME RingInv, NEW n \in Node, Enter(n)
    PROVE  /\ IsRing(ring') /\ IsAdded(n, ring, ring') /\ Members' = Members \cup {n}
           /\ RingInv'
<1>1. /\ n \notin Members /\ place' = place /\ list' = list
      /\ ring' = [h \in DOMAIN ring \cup place[n] |->
                     IF h \in place[n] THEN n ELSE ring[h]]
  BY DEF Enter, AddNode
<1>2. /\ DOMAIN ring' = DOMAIN ring \cup place[n]
      /\ \A h \in DOMAIN ring' : ring'[h] = IF h \in place[n] THEN n ELSE ring[h]
  BY <1>1
<1>3. /\ Members = NodesOf(ring)
      /\ \A m \in Members : Vnodes(ring, m) = place[m] /\ place[m] # {}
      /\ \A m \in Members : place[n] \cap place[m] = {}
      /\ place[n] \in SUBSET Nat /\ IsFiniteSet(place[n]) /\ place[n] # {}
  BY <1>1, MembersPositions
<1>4. IsRing(ring')
  <2>1. IsFiniteSet(DOMAIN ring \cup place[n])
    BY <1>3, FS_Union DEF RingInv, IsRing
  <2> QED
    BY <1>2, <1>3, <2>1 DEF RingInv, IsRing
<1>5. \A m \in Members : \A h \in place[m] : h \in DOMAIN ring /\ ring[h] = m
                                             /\ h \notin place[n] /\ ring'[h] = m
  BY <1>2, <1>3 DEF RingInv
<1>6. \A h \in DOMAIN ring : ring[h] \in Members /\ h \in place[ring[h]]
  BY <1>3 DEF Vnodes, NodesOf
<1>7. NodesOf(ring') = Members \cup {n}
  <2>1. ASSUME NEW m \in NodesOf(ring') PROVE m \in Members \cup {n}
    BY <1>2, <1>6 DEF NodesOf
  <2>2. n \in NodesOf(ring')
    BY <1>2, <1>3 DEF NodesOf
  <2>3. ASSUME NEW m \in Members PROVE m \in NodesOf(ring')
    <3>1. PICK h \in place[m] : TRUE
      BY <1>3
    <3> QED
      BY <1>2, <1>5, <3>1 DEF NodesOf
  <2> QED
    BY <2>1, <2>2, <2>3
<1>8. ASSUME NEW m \in Members PROVE Vnodes(ring', m) = Vnodes(ring, m)
  BY <1>1, <1>2, <1>3, <1>5 DEF Vnodes
<1>9. Members' = Members \cup {n}
  BY <1>7 DEF Members, NodesOf
<1>10. RingInv'
  <2>1. DOMAIN ring' = UNION { place'[m] : m \in Members' }
    BY <1>1, <1>2, <1>9 DEF RingInv
  <2>2. \A m \in Members' : \A h \in place'[m] : ring'[h] = m
    BY <1>1, <1>2, <1>5, <1>9
  <2> QED
    BY <1>1, <1>4, <1>9, <2>1, <2>2 DEF RingInv
<1> QED
  BY <1>3, <1>4, <1>7, <1>8, <1>9, <1>10 DEF IsAdded
\* The coordinator of a ring with nodes is the nearest of them.
LEMMA CoordinatorIsNearest ==
    ASSUME NEW nodes, IsRing(nodes), DOMAIN nodes # {}, NEW hash \in Nat
    PROVE  LET p == PreferenceList(nodes, hash, Replicas)
           IN  /\ 1 \in DOMAIN p /\ Head(p) = p[1] /\ Head(p) \in NodesOf(nodes)
               /\ RankOf(nodes, hash, Head(p)) = 1
<1> DEFINE ms == NodesOf(nodes)
           n == Cardinality(ms)
           p == PreferenceList(nodes, hash, Replicas)
<1>1. Replicas \in Nat /\ Replicas >= 1
  BY ReplicasAssumption
<1>2. /\ IsFiniteSet(ms) /\ n \in Nat
      /\ p \in Seq(ms) /\ DOMAIN p = 1 .. Len(p)
      /\ Len(p) = IF n < Replicas THEN n ELSE Replicas
      /\ \A k \in DOMAIN p : p[k] \in ms /\ RankOf(nodes, hash, p[k]) = k
  <2>1. IsFiniteSet(ms) /\ n \in Nat
    BY <1>1, PreferenceOrder
  <2>2. /\ p \in Seq(ms) /\ DOMAIN p = 1 .. Len(p)
        /\ Len(p) = IF n < Replicas THEN n ELSE Replicas
        /\ \A k \in DOMAIN p : p[k] \in ms /\ RankOf(nodes, hash, p[k]) = k
    BY <1>1, PreferenceOrder
  <2> QED
    BY <2>1, <2>2
<1>3. ms # {}
  BY DEF NodesOf
<1>4. n # 0
  BY <1>2, <1>3, FS_EmptySet
<1> HIDE DEF ms, n, p
<1>5. 1 \in DOMAIN p /\ Len(p) >= 1
  BY <1>1, <1>2, <1>4
<1>6. Head(p) = p[1]
  BY <1>2, <1>5, HeadTailProperties
<1> QED
  BY <1>2, <1>5, <1>6 DEF ms, p

\* remove_node: a node that leaves is what the ring before had beyond the ring after.
LEMMA LeaveRemoves ==
    ASSUME RingInv, Leave
    PROVE  /\ IsRing(ring') /\ IsAdded(Self, ring', ring)
           /\ Members = Members' \cup {Self} /\ RingInv'
<1> DEFINE n == Self
<1>1. /\ n \in Members /\ place' = place /\ list' = list
      /\ ring' = [h \in DOMAIN ring \ place[n] |-> ring[h]]
  BY DEF Leave, RemoveNode
<1>0. n \in Node
  BY SelfAssumption
<1> HIDE DEF n
<1>2. /\ DOMAIN ring' = DOMAIN ring \ place[n]
      /\ \A h \in DOMAIN ring' : ring'[h] = ring[h]
  BY <1>1
<1>3. /\ Members = NodesOf(ring)
      /\ \A m \in Members : Vnodes(ring, m) = place[m] /\ place[m] # {}
      /\ \A m \in Members : n # m => place[n] \cap place[m] = {}
  BY <1>0, MembersPositions
<1>4. IsRing(ring')
  BY <1>2, FS_Subset DEF RingInv, IsRing
<1>5. \A m \in Members \ {n} : \A h \in place[m] : /\ h \in DOMAIN ring /\ ring[h] = m
                                                   /\ h \in DOMAIN ring' /\ ring'[h] = m
  BY <1>2, <1>3 DEF RingInv
<1>6. \A h \in DOMAIN ring : ring[h] \in Members /\ h \in place[ring[h]]
  BY <1>3 DEF Vnodes, NodesOf
<1>7. NodesOf(ring') = Members \ {n}
  <2>1. ASSUME NEW m \in NodesOf(ring') PROVE m \in Members \ {n}
    <3>1. PICK h \in DOMAIN ring' : ring'[h] = m
      BY DEF NodesOf
    <3>2. h \in DOMAIN ring /\ ring[h] = m /\ h \notin place[n]
      BY <1>2, <3>1
    <3> QED
      BY <1>6, <3>2
  <2>2. ASSUME NEW m \in Members \ {n} PROVE m \in NodesOf(ring')
    <3>1. PICK h \in place[m] : TRUE
      BY <1>3
    <3> QED
      BY <1>5, <3>1 DEF NodesOf
  <2> QED
    BY <2>1, <2>2
<1>8. ASSUME NEW m \in Members \ {n} PROVE Vnodes(ring, m) = Vnodes(ring', m)
  BY <1>2, <1>3, <1>5 DEF Vnodes
<1>9. Members' = Members \ {n}
  BY <1>7 DEF Members, NodesOf
<1>10. RingInv'
  <2>1. DOMAIN ring' = UNION { place'[m] : m \in Members' }
    <3>1. ASSUME NEW h \in DOMAIN ring' PROVE \E m \in Members' : h \in place'[m]
      <4>1. h \in DOMAIN ring /\ h \notin place[n]
        BY <1>2
      <4>2. PICK m \in Members : h \in place[m]
        BY <4>1 DEF RingInv
      <4> QED
        BY <1>1, <1>9, <4>1, <4>2
    <3>2. \A m \in Members' : \A h \in place'[m] : h \in DOMAIN ring'
      BY <1>1, <1>5, <1>9
    <3> QED
      BY <3>1, <3>2
  <2>2. \A m \in Members' : \A h \in place'[m] : ring'[h] = m
    BY <1>1, <1>5, <1>9
  <2> QED
    BY <1>1, <1>4, <1>9, <2>1, <2>2 DEF RingInv
<1>11. IsAdded(n, ring', ring)
  <2>1. NodesOf(ring) = NodesOf(ring') \cup {n} /\ n \notin NodesOf(ring')
    BY <1>1, <1>3, <1>7
  <2>2. \A m \in NodesOf(ring') : Vnodes(ring, m) = Vnodes(ring', m)
    BY <1>7, <1>8
  <2> QED
    BY <2>1, <2>2 DEF IsAdded
<1> QED
  BY <1>1, <1>4, <1>9, <1>10, <1>11 DEF n

LEMMA InitRing == Init => RingInv
<1> SUFFICES ASSUME Init PROVE RingInv
  OBVIOUS
<1>1. PICK n \in Node : ring = AddNode(<<>>, n, place[n])
  BY SelfAssumption DEF Init
<1>2. place \in Arrangements /\ list \in ListHashes
  BY DEF Init
<1>3. ring = [h \in DOMAIN <<>> \cup place[n] |-> IF h \in place[n] THEN n ELSE <<>>[h]]
  BY <1>1 DEF AddNode
<1>4. DOMAIN ring = place[n] /\ \A h \in place[n] : ring[h] = n
  BY <1>3
<1>5. place[n] \in SUBSET Nat /\ IsFiniteSet(place[n]) /\ place[n] # {}
  BY <1>2, ArrangementsAssumption
<1>6. Members = {n}
  BY <1>4, <1>5 DEF Members
<1> QED
  BY <1>2, <1>4, <1>5, <1>6 DEF RingInv, IsRing

LEMMA NextRing == RingInv /\ [Next]_vars => RingInv'
<1> SUFFICES ASSUME RingInv, [Next]_vars PROVE RingInv'
  OBVIOUS
<1>2. CASE \E n \in Node : Enter(n)
  BY <1>2, EnterAdds
<1>3. CASE Leave
  BY <1>3, LeaveRemoves
<1>4. CASE UNCHANGED vars
  BY <1>4 DEF vars, RingInv, Members
<1> QED
  BY <1>2, <1>3, <1>4 DEF Next

LEMMA RingInvariant == Spec => []RingInv
<1>1. Init => RingInv
  BY InitRing
<1>2. RingInv /\ [Next]_vars => RingInv'
  BY NextRing
<1> QED
  BY <1>1, <1>2, PTL DEF Spec

\* In every state the ring has the positions of its members and no others, each with
\* its owner: a node that enters takes no other's position, and the peer that leaves
\* leaves none behind (add_node, remove_node).
THEOREM RingTypeCorrect == Spec => []TypeOK
  BY RingInvariant, InvTypeOK, PTL

\* A node that enters or leaves changes a preference list only by being put in or taken
\* out, however many nodes, positions and replicas there are (get_preference_list after
\* add_node and remove_node).
THEOREM RingPreferenceListIsStable == Spec => PreferenceListIsStable
<1> DEFINE A == /\ \A n \in Node : Enter(n) =>
                      Inserted(n, GetPreferenceList(ring), GetPreferenceList(ring'))
                /\ Leave =>
                      Inserted(Self, GetPreferenceList(ring'), GetPreferenceList(ring))
<1>1. RingInv => A
  <2> SUFFICES ASSUME RingInv PROVE A
    OBVIOUS
  <2>1. list \in Nat /\ Replicas \in Nat /\ IsRing(ring)
    BY ListHashesAssumption, ReplicasAssumption DEF RingInv
  <2>2. ASSUME NEW n \in Node, Enter(n)
        PROVE  Inserted(n, GetPreferenceList(ring), GetPreferenceList(ring'))
    <3>1. IsRing(ring') /\ IsAdded(n, ring, ring') /\ list' = list
      BY <2>2, EnterAdds DEF Enter
    <3>2. Inserted(n, PreferenceList(ring, list, Replicas), PreferenceList(ring', list, Replicas))
      BY <2>1, <3>1, AddedNode
    <3> QED
      BY <3>1, <3>2 DEF GetPreferenceList
  <2>3. ASSUME Leave
        PROVE  Inserted(Self, GetPreferenceList(ring'), GetPreferenceList(ring))
    <3>1. IsRing(ring') /\ IsAdded(Self, ring', ring) /\ list' = list
      BY <2>3, LeaveRemoves DEF Leave
    <3>2. Inserted(Self, PreferenceList(ring', list, Replicas), PreferenceList(ring, list, Replicas))
      BY <2>1, <3>1, AddedNode
    <3> QED
      BY <3>1, <3>2 DEF GetPreferenceList
  <2> QED
    BY <2>2, <2>3
<1>2. RingInv => [A]_vars
  BY <1>1
<1>3. Spec => [][A]_vars
  BY <1>2, RingInvariant, PTL
<1> QED
  BY <1>3 DEF PreferenceListIsStable
-----------------------------------------------------------------------------
(* Distances.                                                              *)

\* The distance of a position.
DistanceOf(h) == IF h >= list THEN h - list ELSE h + 1 + Max(DOMAIN ring)

\* A position that is met before another is at a smaller distance.
LEMMA Distances ==
    ASSUME RingInv
    PROVE  /\ \A h \in DOMAIN ring : DistanceOf(h) \in Nat
           /\ \A h, g \in DOMAIN ring :
                 Precedes(list, h, g) => DistanceOf(h) < DistanceOf(g)
<1> DEFINE D == DOMAIN ring
           top == Max(D)
<1>1. D \in SUBSET Nat /\ IsFiniteSet(D) /\ list \in Nat
  BY ListHashesAssumption DEF RingInv, IsRing
<1>2. CASE D = {}
  BY <1>2
<1>3. CASE D # {}
  <2> DEFINE n == Cardinality(D)
             up == Ascending(D)
  <2>1. /\ n \in Nat /\ DOMAIN up = 1 .. n
        /\ \A k \in DOMAIN up : up[k] \in D
        /\ \A i, j \in DOMAIN up : i < j => up[i] < up[j]
        /\ \A h \in D : \E k \in DOMAIN up : up[k] = h
    BY <1>1, AscendingShape
  <2>2. n # 0
    BY <1>1, <1>3, FS_EmptySet
  <2> HIDE DEF n, up, D
  <2>3. n \in DOMAIN up /\ up[n] \in D /\ up[n] \in Nat
    <3>1. n \in 1 .. n
      BY <2>1, <2>2
    <3>2. up[n] \in D
      BY <2>1, <3>1
    <3> QED
      BY <1>1, <2>1, <3>1, <3>2
  <2>4. ASSUME NEW h \in D PROVE up[n] >= h
    <3>1. PICK k \in DOMAIN up : up[k] = h
      BY <2>1
    <3>2. k = n \/ k < n
      BY <2>1, <3>1
    <3> QED
      BY <1>1, <2>1, <2>3, <3>1, <3>2
  <2>5. top \in D /\ \A h \in D : top >= h
    BY <2>3, <2>4 DEF Max
  <2>6. \A h \in D : h \in Nat /\ h <= top
    BY <1>1, <2>5
  <2>7. top \in Nat
    BY <1>1, <2>5
  <2> HIDE DEF top
  <2>8. \A h \in D : DistanceOf(h) = IF h >= list THEN h - list ELSE h + 1 + top
    BY DEF DistanceOf, top, D
  <2>9. \A h \in D : DistanceOf(h) \in Nat
    BY <1>1, <2>6, <2>7, <2>8
  <2>10. ASSUME NEW h \in D, NEW g \in D, Precedes(list, h, g)
         PROVE  DistanceOf(h) < DistanceOf(g)
    BY <1>1, <2>6, <2>7, <2>8, <2>10 DEF Precedes
  <2> QED
    BY <2>9, <2>10 DEF D
<1> QED
  BY <1>2, <1>3

\* A node that is nearer is at a smaller distance.
LEMMA NearerIsCloser ==
    ASSUME RingInv, NEW m \in Members, NEW m2 \in Members, Nearer(ring, list, m, m2)
    PROVE  Distance(m) < Distance(m2)
<1> DEFINE dist(n) == { DistanceOf(h) : h \in Vnodes(ring, n) }
<1>1. \A n : Distance(n) = Min(dist(n))
  BY DEF Distance, DistanceOf
<1>2. ASSUME NEW n \in Members
      PROVE  /\ Min(dist(n)) \in dist(n) /\ Min(dist(n)) \in Nat
             /\ \A k \in dist(n) : Min(dist(n)) <= k
  <2>1. dist(n) \in SUBSET Nat
    BY Distances DEF Vnodes
  <2>2. dist(n) # {}
    BY MembersPositions
  <2> HIDE DEF dist
  <2>3. \E k \in dist(n) : \A j \in dist(n) : k <= j
    BY <2>1, <2>2, Smallest
  <2> QED
    BY <2>1, <2>3 DEF Min
<1>3. PICK h \in Vnodes(ring, m) : \A g \in Vnodes(ring, m2) : Precedes(list, h, g)
  BY DEF Nearer
<1>4. PICK g \in Vnodes(ring, m2) : Min(dist(m2)) = DistanceOf(g)
  BY <1>2
<1>5. h \in DOMAIN ring /\ g \in DOMAIN ring
  BY DEF Vnodes
<1>6. DistanceOf(h) < DistanceOf(g) /\ DistanceOf(h) \in Nat /\ DistanceOf(g) \in Nat
  BY <1>3, <1>5, Distances
<1>7. Min(dist(m)) <= DistanceOf(h) /\ Min(dist(m)) \in Nat
  BY <1>2
<1> HIDE DEF dist
<1> QED
  BY <1>1, <1>4, <1>6, <1>7

LEMMA InvNearest == RingInv => PreferenceListIsNearest
<1> SUFFICES ASSUME RingInv PROVE PreferenceListIsNearest
  OBVIOUS
<1> DEFINE n == Cardinality(Members)
           p == GetPreferenceList(ring)
           rank(m) == RankOf(ring, list, m)
<1>1. list \in Nat /\ Replicas \in Nat /\ IsRing(ring) /\ Members = NodesOf(ring)
  BY ListHashesAssumption, ReplicasAssumption, MembersPositions DEF RingInv
<1>2. p = PreferenceList(ring, list, Replicas)
  BY DEF GetPreferenceList
<1>3. n \in Nat /\ \A m \in Members : rank(m) \in 1 .. n
  BY <1>1, PreferenceOrder
<1>4. \A m, m2 \in Members : /\ rank(m) = rank(m2) => m = m2
                             /\ Nearer(ring, list, m, m2) <=> rank(m) < rank(m2)
  BY <1>1, PreferenceOrder
<1>5. /\ p \in Seq(Members) /\ DOMAIN p = 1 .. Len(p)
      /\ Len(p) = IF n < Replicas THEN n ELSE Replicas
      /\ \A k \in DOMAIN p : p[k] \in Members /\ rank(p[k]) = k
  BY <1>1, <1>2, PreferenceOrder
<1> HIDE DEF n, p, rank
<1>6. ASSUME NEW i \in DOMAIN p, NEW j \in DOMAIN p, i < j
      PROVE  Distance(p[i]) < Distance(p[j])
  BY <1>4, <1>5, <1>6, NearerIsCloser
<1>7. ASSUME NEW m \in Members \ ToSet(p), NEW i \in DOMAIN p
      PROVE  Distance(p[i]) < Distance(m)
  <2>1. rank(m) \in Nat /\ rank(m) >= 1 /\ rank(m) <= n
    BY <1>3
  <2>2. rank(m) \notin DOMAIN p
    <3>1. SUFFICES ASSUME rank(m) \in DOMAIN p PROVE FALSE
      OBVIOUS
    <3>2. p[rank(m)] \in Members /\ rank(p[rank(m)]) = rank(m)
      BY <1>5, <3>1
    <3>3. p[rank(m)] = m
      BY <1>4, <3>2
    <3> QED
      BY <3>1, <3>3 DEF ToSet
  <2>3. Len(p) \in Nat /\ DOMAIN p = 1 .. Len(p)
    BY <1>5, LenProperties
  <2>4. rank(m) > Len(p)
    BY <2>1, <2>2, <2>3
  <2>5. rank(p[i]) < rank(m) /\ p[i] \in Members
    BY <1>5, <2>1, <2>3, <2>4
  <2> QED
    BY <1>4, <2>5, NearerIsCloser
<1> QED
  BY <1>5, <1>6, <1>7 DEF PreferenceListIsNearest, n, p

\* A preference list has the members nearest to the list, as many as there are replicas,
\* each once and in the order in which going around meets them (get_preference_list).
THEOREM RingPreferenceListIsNearest == Spec => []PreferenceListIsNearest
  BY RingInvariant, InvNearest, PTL

-----------------------------------------------------------------------------
(* What Replication and Proxy assume of preference lists.                  *)

\* A preference list has at least one node, nodes of the ring only, and none twice
\* (get_preference_list).
LEMMA PreferenceListOfNodes ==
    ASSUME NEW nodes, IsRing(nodes), DOMAIN nodes # {}, NEW hash \in Nat
    PROVE  LET p == PreferenceList(nodes, hash, Replicas)
           IN  /\ p \in Seq(NodesOf(nodes)) /\ Len(p) >= 1
               /\ Head(p) = p[1] /\ Head(p) \in NodesOf(nodes)
               /\ \A i, j \in DOMAIN p : p[i] = p[j] => i = j
<1> DEFINE p == PreferenceList(nodes, hash, Replicas)
<1>1. Replicas \in Nat
  BY ReplicasAssumption
<1>2. /\ p \in Seq(NodesOf(nodes)) /\ DOMAIN p = 1 .. Len(p)
      /\ \A k \in DOMAIN p : RankOf(nodes, hash, p[k]) = k
  BY <1>1, PreferenceOrder
<1>3. 1 \in DOMAIN p /\ Head(p) = p[1] /\ Head(p) \in NodesOf(nodes)
  BY CoordinatorIsNearest
<1> HIDE DEF p
<1>4. Len(p) >= 1
  BY <1>2, <1>3, LenProperties
<1>5. \A i, j \in DOMAIN p : p[i] = p[j] => i = j
  BY <1>2
<1> QED
  BY <1>2, <1>3, <1>4, <1>5 DEF p

\* The coordinator of a ring is the coordinator of every part of the ring that has it.
LEMMA CoordinatorStays ==
    ASSUME NEW nodes, IsRing(nodes), NEW big, IsRing(big), NEW hash \in Nat,
           NodesOf(nodes) \subseteq NodesOf(big),
           \A m \in NodesOf(nodes) : Vnodes(big, m) = Vnodes(nodes, m),
           Head(PreferenceList(big, hash, Replicas)) \in NodesOf(nodes)
    PROVE  Head(PreferenceList(nodes, hash, Replicas)) = Head(PreferenceList(big, hash, Replicas))
<1> DEFINE c == Head(PreferenceList(big, hash, Replicas))
           f == Head(PreferenceList(nodes, hash, Replicas))
<1>1. DOMAIN nodes # {} /\ DOMAIN big # {}
  BY DEF NodesOf
<1>2. f \in NodesOf(nodes) /\ RankOf(nodes, hash, f) = 1
  BY <1>1, CoordinatorIsNearest
<1>3. c \in NodesOf(big) /\ RankOf(big, hash, c) = 1
  BY <1>1, CoordinatorIsNearest
<1>4. c \in NodesOf(nodes)
  OBVIOUS
<1> HIDE DEF c, f
<1>5. 0 \in Nat
  OBVIOUS
<1>6. \A m, m2 \in NodesOf(nodes) : Nearer(nodes, hash, m, m2) <=> Nearer(big, hash, m, m2)
  BY DEF Nearer
<1>7. /\ RankOf(nodes, hash, c) \in 1 .. Cardinality(NodesOf(nodes))
      /\ RankOf(big, hash, f) \in 1 .. Cardinality(NodesOf(big))
  BY <1>2, <1>4, <1>5, PreferenceOrder
<1>8. ~ Nearer(big, hash, f, c)
  <2>1. \A m, m2 \in NodesOf(big) :
           /\ RankOf(big, hash, m) = RankOf(big, hash, m2) => m = m2
           /\ Nearer(big, hash, m, m2) <=> RankOf(big, hash, m) < RankOf(big, hash, m2)
    BY <1>5, PreferenceOrder
  <2> QED
    BY <1>2, <1>3, <1>7, <2>1
<1>9. \A m, m2 \in NodesOf(nodes) :
         /\ RankOf(nodes, hash, m) = RankOf(nodes, hash, m2) => m = m2
         /\ Nearer(nodes, hash, m, m2) <=> RankOf(nodes, hash, m) < RankOf(nodes, hash, m2)
  BY <1>5, PreferenceOrder
<1>10. f = c
  BY <1>2, <1>4, <1>6, <1>7, <1>8, <1>9
<1> QED
  BY <1>10 DEF c, f

\* The ring of a peer that knows only the nodes S of a ring.
Part(nodes, S) == [h \in { g \in DOMAIN nodes : nodes[g] \in S } |-> nodes[h]]

\* Peers that do not know all of a ring yet agree on a list's coordinator as soon as they
\* know it: PrefListAssumption of Replication and CoordinatorAssumption of Proxy hold
\* of the rings of HashRing (get_preference_list, however much of the ring is known).
THEOREM PartsOfARingAgree ==
    ASSUME NEW nodes, IsRing(nodes), NEW hash \in Nat
    PROVE  LET prefs(S) == PreferenceList(Part(nodes, S), hash, Replicas)
               coordinator == Head(PreferenceList(nodes, hash, Replicas))
           IN  \A S \in SUBSET NodesOf(nodes) :
                  /\ S # {} => prefs(S) \in Seq(S) /\ Head(prefs(S)) \in S
                  /\ coordinator \in S =>
                        /\ Len(prefs(S)) >= 1 /\ prefs(S)[1] = coordinator
                        /\ \A i, j \in DOMAIN prefs(S) : prefs(S)[i] = prefs(S)[j] => i = j
<1> DEFINE coordinator == Head(PreferenceList(nodes, hash, Replicas))
<1> SUFFICES ASSUME NEW S \in SUBSET NodesOf(nodes), S # {}
             PROVE  LET p == PreferenceList(Part(nodes, S), hash, Replicas)
                    IN  /\ p \in Seq(S) /\ Head(p) \in S
                        /\ coordinator \in S =>
                              /\ Len(p) >= 1 /\ p[1] = coordinator
                              /\ \A i, j \in DOMAIN p : p[i] = p[j] => i = j
  OBVIOUS
<1> DEFINE part == Part(nodes, S)
           p == PreferenceList(part, hash, Replicas)
<1>1. /\ DOMAIN part = { g \in DOMAIN nodes : nodes[g] \in S }
      /\ \A h \in DOMAIN part : part[h] = nodes[h]
  BY DEF Part
<1> HIDE DEF part
<1>2. DOMAIN part \in SUBSET DOMAIN nodes
  BY <1>1
<1>3. IsRing(part)
  BY <1>2, FS_Subset DEF IsRing
<1>4. NodesOf(part) = S
  BY <1>1 DEF NodesOf
<1>5. \A m \in S : Vnodes(nodes, m) = Vnodes(part, m)
  BY <1>1 DEF Vnodes
<1>6. DOMAIN part # {}
  BY <1>4 DEF NodesOf
<1>7. /\ p \in Seq(S) /\ Len(p) >= 1 /\ Head(p) = p[1] /\ Head(p) \in S
      /\ \A i, j \in DOMAIN p : p[i] = p[j] => i = j
  BY <1>3, <1>4, <1>6, PreferenceListOfNodes
<1>8. coordinator \in S => Head(p) = coordinator
  BY <1>3, <1>4, <1>5, CoordinatorStays
<1> HIDE DEF coordinator, p
<1> QED
  BY <1>7, <1>8 DEF p, part

\* next_node of a node of the ring is one other node of it, and there is none for the
\* only node of a ring.
LEMMA NextNodesShape ==
    ASSUME NEW nodes, IsRing(nodes), NEW n
    PROVE  /\ NextNodes(nodes, n) \subseteq NodesOf(nodes) \ {n}
           /\ \A m, m2 \in NextNodes(nodes, n) : m = m2
<1> DEFINE others == DOMAIN nodes \ Vnodes(nodes, n)
           ahead == { h \in others : h > Min(Vnodes(nodes, n)) }
           these == IF ahead = {} THEN others ELSE ahead
<1>1. CASE Vnodes(nodes, n) = {} \/ others = {}
  BY <1>1 DEF NextNodes
<1>2. CASE ~ (Vnodes(nodes, n) = {} \/ others = {})
  <2>1. NextNodes(nodes, n) = { nodes[Min(these)] }
    BY <1>2 DEF NextNodes
  <2>2. these \in SUBSET Nat /\ these # {} /\ these \subseteq others
    BY <1>2 DEF IsRing
  <2>3. \A h \in others : h \in DOMAIN nodes /\ nodes[h] # n
    BY DEF Vnodes
  <2> HIDE DEF these, others
  <2>4. \E h \in these : \A g \in these : h <= g
    BY <2>2, Smallest
  <2>5. Min(these) \in these
    BY <2>4 DEF Min
  <2> QED
    BY <2>1, <2>2, <2>3, <2>5 DEF NodesOf
<1> QED
  BY <1>1, <1>2

\* Where the walk of NextAvailable is after i steps, given where it was before.
WalkStep(nodes, start, f, i) ==
    IF i = 0 THEN {start} ELSE UNION { NextNodes(nodes, n) : n \in f[i - 1] }

WalkFrom(nodes, start) ==
    CHOOSE f : f = [i \in 0 .. Cardinality(DOMAIN nodes) |-> WalkStep(nodes, start, f, i)]

\* There is a function that is the walk.
LEMMA WalkIsDefined ==
    ASSUME NEW nodes, IsRing(nodes), NEW start
    PROVE  WalkFrom(nodes, start) = [i \in 0 .. Cardinality(DOMAIN nodes) |->
                                        WalkStep(nodes, start, WalkFrom(nodes, start), i)]
<1> DEFINE N == Cardinality(DOMAIN nodes)
           Upto(k, f) == \A i \in 0 .. k : f[i] = WalkStep(nodes, start, f, i)
           T == { k \in Nat : \E f : Upto(k, f) }
<1>1. N \in Nat
  BY FS_CardinalityType DEF IsRing
<1> HIDE DEF N
<1>2. 0 \in T
  <2> DEFINE f == [i \in {0} |-> {start}]
  <2>1. Upto(0, f)
    BY DEF WalkStep
  <2> HIDE DEF f
  <2> QED
    BY <2>1
<1>3. ASSUME NEW k \in Nat, k \in T PROVE k + 1 \in T
  <2>1. PICK f : Upto(k, f)
    BY <1>3
  <2> DEFINE g == [i \in 0 .. k + 1 |-> IF i <= k THEN f[i] ELSE WalkStep(nodes, start, f, i)]
  <2>2. ASSUME NEW i \in 0 .. k + 1 PROVE g[i] = WalkStep(nodes, start, g, i)
    <3>1. g[i] = WalkStep(nodes, start, f, i)
      BY <2>1
    <3>2. i # 0 => i - 1 \in 0 .. k + 1 /\ i - 1 <= k
      OBVIOUS
    <3>3. i # 0 => g[i - 1] = f[i - 1]
      BY <3>2
    <3> HIDE DEF g
    <3> QED
      BY <3>1, <3>3 DEF WalkStep
  <2> HIDE DEF g
  <2>3. Upto(k + 1, g)
    BY <2>2
  <2> QED
    BY <2>3
<1> HIDE DEF T
<1>4. N \in T
  BY <1>1, <1>2, <1>3, AllNumbers
<1>5. PICK f : Upto(N, f)
  BY <1>4 DEF T
<1> DEFINE g == [i \in 0 .. N |-> f[i]]
<1>6. ASSUME NEW i \in 0 .. N PROVE g[i] = WalkStep(nodes, start, g, i)
  <2>1. i # 0 => i - 1 \in 0 .. N
    BY <1>1
  <2>2. i # 0 => g[i - 1] = f[i - 1]
    BY <2>1
  <2>3. g[i] = WalkStep(nodes, start, f, i)
    BY <1>5
  <2> HIDE DEF g
  <2> QED
    BY <2>2, <2>3 DEF WalkStep
<1>7. g = [i \in 0 .. N |-> WalkStep(nodes, start, g, i)]
  BY <1>6
<1> HIDE DEF g
<1> QED
  BY <1>7 DEF WalkFrom, N

\* The walk is at one node at a time, or has ended.
LEMMA WalkShape ==
    ASSUME NEW nodes, IsRing(nodes), NEW start,
           NEW i \in 0 .. Cardinality(DOMAIN nodes)
    PROVE  /\ \A m, m2 \in WalkFrom(nodes, start)[i] : m = m2
           /\ i > 0 => WalkFrom(nodes, start)[i] \subseteq NodesOf(nodes)
<1> DEFINE N == Cardinality(DOMAIN nodes)
           walk == WalkFrom(nodes, start)
           T == { k \in Nat : k <= N => \A m, m2 \in walk[k] : m = m2 }
<1>1. N \in Nat
  BY FS_CardinalityType DEF IsRing
<1>2. \A k \in 0 .. N : walk[k] = WalkStep(nodes, start, walk, k)
  <2>1. walk = [k \in 0 .. N |-> WalkStep(nodes, start, walk, k)]
    BY WalkIsDefined
  <2> HIDE DEF walk, N
  <2> QED
    BY <2>1
<1> HIDE DEF walk, N
<1>3. 0 \in T
  <2>1. 0 \in 0 .. N
    BY <1>1
  <2>2. WalkStep(nodes, start, walk, 0) = {start}
    BY DEF WalkStep
  <2>3. walk[0] = {start}
    BY <1>2, <2>1, <2>2
  <2> QED
    BY <2>3
<1>4. ASSUME NEW k \in Nat, k \in T PROVE k + 1 \in T
  <2> SUFFICES ASSUME k + 1 <= N, NEW m \in walk[k + 1], NEW m2 \in walk[k + 1]
               PROVE  m = m2
    OBVIOUS
  <2>1. k + 1 \in 0 .. N /\ k <= N /\ (k + 1) - 1 = k /\ k + 1 # 0
    BY <1>1
  <2>2. walk[k + 1] = UNION { NextNodes(nodes, n) : n \in walk[k] }
    BY <1>2, <2>1 DEF WalkStep
  <2>3. \A n, n2 \in walk[k] : n = n2
    BY <1>4, <2>1
  <2> QED
    BY <2>2, <2>3, NextNodesShape
<1> HIDE DEF T
<1>5. \A k \in Nat : k \in T
  BY <1>3, <1>4, AllNumbers
<1>6. \A m, m2 \in walk[i] : m = m2
  <2>1. i \in Nat /\ i <= N
    BY <1>1 DEF N
  <2> QED
    BY <1>5, <2>1 DEF T
<1>7. ASSUME i > 0 PROVE walk[i] \subseteq NodesOf(nodes)
  <2>1. i # 0
    BY <1>1, <1>7 DEF N
  <2>2. walk[i] = UNION { NextNodes(nodes, n) : n \in walk[i - 1] }
    BY <1>2, <2>1 DEF WalkStep, N
  <2> QED
    BY <2>2, NextNodesShape
<1> QED
  BY <1>6, <1>7 DEF walk

\* At most one peer stands in for a replica, a node of the ring that is available
\* (get_next_available_node).
THEOREM OneFallback ==
    ASSUME NEW nodes, IsRing(nodes), NEW available, NEW start
    PROVE  LET found == NextAvailable(nodes, available, start)
           IN  /\ found \subseteq available \cap NodesOf(nodes)
               /\ \A m, m2 \in found : m = m2
<1> DEFINE walk == WalkFrom(nodes, start)
           hits == { i \in DOMAIN walk : i > 0 /\ walk[i] \cap available # {} }
           ends == { j \in hits :
                        /\ \A k \in hits : j <= k
                        /\ start \notin UNION { walk[k] : k \in 1 .. j - 1 } }
<1>1. NextAvailable(nodes, available, start) = UNION { walk[i] : i \in ends }
  BY DEF NextAvailable, WalkFrom, WalkStep
<1>2. DOMAIN walk = 0 .. Cardinality(DOMAIN nodes) /\ Cardinality(DOMAIN nodes) \in Nat
  BY WalkIsDefined, FS_CardinalityType DEF IsRing
<1>3. \A i \in DOMAIN walk : /\ \A m, m2 \in walk[i] : m = m2
                             /\ i > 0 => walk[i] \subseteq NodesOf(nodes)
  BY <1>2, WalkShape
<1> HIDE DEF walk
<1>4. ASSUME NEW i \in ends, NEW j \in ends PROVE i = j
  <2>1. i \in hits /\ j \in hits /\ i <= j /\ j <= i
    OBVIOUS
  <2>2. i \in Nat /\ j \in Nat
    BY <1>2
  <2> QED
    BY <2>1, <2>2
<1>5. \A i \in ends : i \in DOMAIN walk /\ i > 0 /\ walk[i] \cap available # {}
  OBVIOUS
<1> HIDE DEF ends, hits
<1>6. \A i \in ends : walk[i] \subseteq available \cap NodesOf(nodes)
  BY <1>3, <1>5
<1> QED
  BY <1>1, <1>3, <1>4, <1>5, <1>6
-----------------------------------------------------------------------------
(* The coordinator of RingWalk, which looks for a fallback while its ring  *)
(* changes.                                                                *)
CONSTANT MaxGossips

VARIABLES member, gossips, walk

Walk == INSTANCE RingWalk

\* The invariant of RingWalk: its ring has the positions of its members.
WalkRing == /\ place \in Arrangements /\ list \in ListHashes
            /\ IsRing(ring)
            /\ DOMAIN ring = UNION { place[n] : n \in Members }
            /\ \A n \in Members : \A h \in place[n] : ring[h] = n

WalkInv == WalkRing /\ Walk!TypeOK

LEMMA WalkMembers == Walk!Members = Members /\ Walk!Members' = Members'
  BY DEF Members, Walk!Members

\* RingWalk has the operators of HashRing.
LEMMA WalkOperators ==
    /\ \A nodes, hash, replicas :
          Walk!PreferenceList(nodes, hash, replicas) = PreferenceList(nodes, hash, replicas)
    /\ \A nodes, n : Walk!NextNodes(nodes, n) = NextNodes(nodes, n)
<1>1. \A S : Walk!Ascending(S) = Ascending(S)
  BY DEF Walk!Ascending, Ascending, Walk!Cardinality, Cardinality
<1>2. \A nodes, hash : Walk!From(nodes, hash) = From(nodes, hash)
  BY <1>1 DEF Walk!From, From
<1>3. \A nodes, way, replicas :
         Walk!FirstMet(nodes, way, replicas) = FirstMet(nodes, way, replicas)
  BY DEF Walk!FirstMet, FirstMet, Walk!Ascending, Ascending, Walk!Cardinality, Cardinality
<1>4. \A nodes, n : Walk!NextNodes(nodes, n) = NextNodes(nodes, n)
  BY DEF Walk!NextNodes, NextNodes, Walk!Vnodes, Vnodes, Walk!Min, Min
<1> QED
  BY <1>2, <1>3, <1>4 DEF Walk!PreferenceList, PreferenceList

LEMMA WalkPositions ==
    ASSUME place \in Arrangements
    PROVE  /\ \A n \in Node : /\ place[n] \in SUBSET Nat /\ IsFiniteSet(place[n])
                              /\ place[n] # {}
           /\ \A n \in Node, m \in Node : n # m => place[n] \cap place[m] = {}
  BY ArrangementsAssumption

LEMMA WalkInit ==
    ASSUME Self \in Node, Walk!Init
    PROVE  WalkInv
<1>1. /\ place \in Arrangements /\ list \in ListHashes
      /\ ring = [h \in DOMAIN <<>> \cup place[Self] |->
                    IF h \in place[Self] THEN Self ELSE <<>>[h]]
      /\ member = {Self} /\ gossips = {} /\ walk = Walk!Resting
  BY DEF Walk!Init, Walk!AddNode
<1>2. DOMAIN ring = place[Self] /\ \A h \in place[Self] : ring[h] = Self
  BY <1>1
<1>3. place[Self] \in SUBSET Nat /\ IsFiniteSet(place[Self]) /\ place[Self] # {}
  BY <1>1, WalkPositions
<1>4. Members = {Self}
  BY <1>2, <1>3 DEF Members
<1>5. WalkRing
  BY <1>1, <1>2, <1>3, <1>4 DEF WalkRing, IsRing
<1>6. Walk!TypeOK
  BY <1>1, <1>4, WalkMembers DEF Walk!TypeOK
<1> QED
  BY <1>5, <1>6 DEF WalkInv

\* A gossip adds the positions of whole nodes, also of some that the ring has.
LEMMA WalkAddNodes ==
    ASSUME IsFiniteSet(Node), WalkInv, NEW S \in SUBSET Node, Walk!AddNodes(S)
    PROVE  WalkInv'
<1> DEFINE new == UNION { place[n] : n \in S }
<1>1. /\ place' = place /\ list' = list /\ member' = member /\ walk' = walk
      /\ gossips' = gossips \cup {S}
      /\ ring' = [h \in DOMAIN ring \cup new |-> CHOOSE n \in S \cup Members : h \in place[n]]
  BY WalkMembers DEF Walk!AddNodes
<1>2. /\ DOMAIN ring' = DOMAIN ring \cup new
      /\ \A h \in DOMAIN ring' : ring'[h] = CHOOSE n \in S \cup Members : h \in place[n]
  <2> HIDE DEF new
  <2> QED
    BY <1>1
<1>3. /\ \A n \in Node : /\ place[n] \in SUBSET Nat /\ IsFiniteSet(place[n])
                         /\ place[n] # {}
      /\ \A n \in Node, m \in Node : n # m => place[n] \cap place[m] = {}
      /\ Members \subseteq Node
  BY WalkPositions, WalkMembers DEF WalkInv, WalkRing, Walk!TypeOK
<1>4. DOMAIN ring' = UNION { place[n] : n \in S \cup Members }
  BY <1>2 DEF WalkInv, WalkRing
<1>5. ASSUME NEW n \in S \cup Members, NEW h \in place[n]
      PROVE  h \in DOMAIN ring' /\ ring'[h] = n
  <2>1. h \in DOMAIN ring'
    BY <1>4
  <2>2. \A m \in S \cup Members : h \in place[m] => m = n
    BY <1>3
  <2> QED
    BY <1>2, <2>1, <2>2
<1>6. Members' = S \cup Members
  <2>1. ASSUME NEW h \in DOMAIN ring' PROVE ring'[h] \in S \cup Members
    BY <1>4, <1>5
  <2>2. ASSUME NEW n \in S \cup Members PROVE \E h \in DOMAIN ring' : ring'[h] = n
    <3>1. PICK h \in place[n] : TRUE
      BY <1>3
    <3> QED
      BY <1>5, <3>1
  <2> QED
    BY <2>1, <2>2 DEF Members
<1>7. IsRing(ring')
  <2> DEFINE places == { place[n] : n \in S }
  <2>1. IsFiniteSet(S)
    BY FS_Subset
  <2> DEFINE f == [n \in S |-> place[n]]
  <2>2. IsFiniteSet(places)
    <3>1. f \in Surjection(S, places)
      BY DEF Surjection
    <3> HIDE DEF f, places
    <3> QED
      BY <2>1, <3>1, FS_Surjection
  <2>3. \A P \in places : IsFiniteSet(P)
    BY <1>3
  <2>4. IsFiniteSet(new)
    BY <2>2, <2>3, FS_UNION
  <2>5. IsFiniteSet(DOMAIN ring \cup new)
    BY <2>4, FS_Union DEF WalkInv, WalkRing, IsRing
  <2>6. new \in SUBSET Nat
    BY <1>3
  <2> QED
    BY <1>2, <2>5, <2>6 DEF WalkInv, WalkRing, IsRing
<1>8. WalkRing'
  <2>1. DOMAIN ring' = UNION { place'[n] : n \in Members' }
    BY <1>1, <1>4, <1>6
  <2>2. \A n \in Members' : \A h \in place'[n] : ring'[h] = n
    BY <1>1, <1>5, <1>6
  <2> QED
    BY <1>1, <1>7, <2>1, <2>2 DEF WalkInv, WalkRing
<1>9. Walk!TypeOK'
  BY <1>1, <1>3, <1>6, WalkMembers DEF WalkInv, Walk!TypeOK
<1> QED
  BY <1>8, <1>9 DEF WalkInv

LEMMA WalkNext ==
    ASSUME IsFiniteSet(Node), WalkInv, [Walk!Next]_Walk!vars
    PROVE  WalkInv'
<1> USE WalkMembers
<1>1. CASE \E S \in SUBSET Node : Walk!AddNodes(S)
  BY <1>1, WalkAddNodes
<1>2. ASSUME UNCHANGED <<place, list, ring>>
      PROVE  WalkRing' /\ Members' = Members
  BY <1>2 DEF WalkInv, WalkRing, Members
<1>3. CASE Walk!InsertEntries
  <2>1. PICK S \in gossips : member' = member \cup S /\ gossips' = gossips \ {S}
    BY <1>3 DEF Walk!InsertEntries
  <2>2. UNCHANGED <<place, list, ring, walk>>
    BY <1>3 DEF Walk!InsertEntries
  <2>3. Walk!TypeOK'
    BY <1>2, <2>1, <2>2 DEF WalkInv, Walk!TypeOK
  <2> QED
    BY <1>2, <2>2, <2>3 DEF WalkInv
<1>4. CASE Walk!StartWalk
  <2>1. /\ walk' = Walk!Walking(Walk!Last(Walk!Prefs), Walk!Last(Walk!Prefs))
        /\ UNCHANGED <<place, list, ring, member, gossips>>
    BY <1>4 DEF Walk!StartWalk
  <2>2. Walk!Last(Walk!Prefs) \in Members
    <3> DEFINE p == PreferenceList(ring, list, Replicas)
    <3>1. DOMAIN ring # {} /\ IsRing(ring) /\ list \in Nat
      BY ListHashesAssumption DEF WalkInv, WalkRing, Walk!TypeOK, Members
    <3>2. p \in Seq(NodesOf(ring)) /\ Len(p) >= 1
      BY <3>1, PreferenceListOfNodes
    <3> HIDE DEF p
    <3>3. Len(p) \in 1 .. Len(p)
      BY <3>2, LenProperties
    <3>4. p[Len(p)] \in NodesOf(ring)
      BY <3>2, <3>3, ElementOfSeq
    <3> QED
      BY <3>4, WalkOperators DEF p, Walk!Prefs, Walk!Last, NodesOf, Members
  <2>3. Walk!TypeOK'
    BY <1>2, <2>1, <2>2 DEF WalkInv, Walk!TypeOK
  <2> QED
    BY <1>2, <2>1, <2>3 DEF WalkInv
<1>5. CASE Walk!Step
  <2>1. PICK next \in NextNodes(ring, walk.at) :
           walk' = IF next \in member \/ next = walk.start
                   THEN Walk!Ended({next} \cap member)
                   ELSE Walk!Walking(walk.start, next)
    BY <1>5, WalkOperators DEF Walk!Step
  <2>2. walk.state = "walking" /\ UNCHANGED <<place, list, ring, member, gossips>>
    BY <1>5 DEF Walk!Step
  <2>3. next \in Members
    BY NextNodesShape DEF WalkInv, WalkRing, NodesOf, Members
  <2>4. walk.start \in Members
    BY <2>2 DEF WalkInv, Walk!TypeOK, Walk!Resting, Walk!Walking, Walk!Ended
  <2>5. \/ walk' \in { Walk!Walking(s, n) : s, n \in Members }
        \/ walk' \in { Walk!Ended(S) : S \in SUBSET member }
    BY <2>1, <2>3, <2>4
  <2>6. Walk!TypeOK'
    BY <1>2, <2>2, <2>5 DEF WalkInv, Walk!TypeOK
  <2> QED
    BY <1>2, <2>2, <2>6 DEF WalkInv
<1>6. CASE UNCHANGED Walk!vars
  <2>1. UNCHANGED <<place, list, ring, member, gossips, walk>>
    BY <1>6 DEF Walk!vars
  <2>2. Walk!TypeOK'
    BY <1>2, <2>1 DEF WalkInv, Walk!TypeOK
  <2> QED
    BY <1>2, <2>1, <2>2 DEF WalkInv
<1> QED
  BY <1>1, <1>3, <1>4, <1>5, <1>6 DEF Walk!Next

\* While gossips add nodes to a coordinator's ring and, later, to its table, the table has
\* only nodes of the ring, the walk is at nodes of the ring, and what it ends with has an
\* address (get_next_available_node, handle_gossip).
THEOREM WalkTypeCorrect ==
    ASSUME IsFiniteSet(Node)
    PROVE  Walk!Spec => []Walk!TypeOK
<1>1. Walk!Init => WalkInv
  BY SelfAssumption, WalkInit
<1>2. WalkInv /\ [Walk!Next]_Walk!vars => WalkInv'
  BY WalkNext
<1>3. WalkInv => Walk!TypeOK
  BY DEF WalkInv
<1> QED
  BY <1>1, <1>2, <1>3, PTL DEF Walk!Spec
=============================================================================

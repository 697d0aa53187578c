-------------------------- MODULE LocalStoreProofs --------------------------
(***************************************************************************)
(* What the databases and the copies of a list keep for any number of      *)
(* clients, names and edits: they are well formed, no copy is ahead of a   *)
(* client's own database in what is that client's own, register writes are *)
(* unique, no step takes anything back from a database, every copy is the  *)
(* merge of its clients' versions, and clients implement CausalList.       *)
(***************************************************************************)
EXTENDS LocalStoreHistory, CRDTProofs, SequenceTheorems

\* The inductive invariant: the last two conjuncts need each other.  A new
\* write is unique because nobody holds a newer one of the same client, and
\* the merges that spread it are upper bounds because writes are unique.
IInv == TypeOK /\ OwnEntriesDominate /\ WritesAreUnique

\* What list l holds, some copy holds: the counter entries and the register
\* of each item, each possibly from another copy.
Held(l, n, x) == n \in DOMAIN x.list /\ n \in DOMAIN l

Derived(l) ==
    /\ IsAWORMap(l, Name)
    /\ \A n \in DOMAIN l :
          /\ \E x \in Copies : Held(l, n, x) /\ l[n].acquired = x.list[n].acquired
          /\ \A a \in Actor :
                /\ \E x \in Copies : Held(l, n, x) /\ l[n].p[a] = x.list[n].p[a]
                /\ \E x \in Copies : Held(l, n, x) /\ l[n].n[a] = x.list[n].n[a]

\* What an edit of client c makes of the item under name.
EditOf(item, c, name) ==
    /\ item \in Item
    /\ name \in DOMAIN db[c] =>
          /\ ItemLeq(db[c][name], item)
          /\ \A a \in Actor \ {c} : /\ item.p[a] = db[c][name].p[a]
                                    /\ item.n[a] = db[c][name].n[a]
          /\ \/ item.acquired = db[c][name].acquired
             \/ /\ item.acquired.actor = c
                /\ item.acquired.clock = db[c][name].acquired.clock + 1
    /\ name \notin DOMAIN db[c] =>
          /\ \A a \in Actor \ {c} : item.p[a] = 0 /\ item.n[a] = 0
          /\ item.acquired.actor = c

-----------------------------------------------------------------------------
(* Lemmas about the data. *)

\* The order on register writes is transitive.
LEMMA RegLeqTransitive ==
    ASSUME NEW r \in LWWReg, NEW s \in LWWReg, NEW t \in LWWReg,
           RegLeq(r, s), RegLeq(s, t)
    PROVE  RegLeq(r, t)
<1>1. /\ r.clock \in Nat /\ s.clock \in Nat /\ t.clock \in Nat
      /\ r.actor \in Nat /\ s.actor \in Nat /\ t.actor \in Nat
  BY ActorAssumption DEF LWWReg
<1> QED
  BY <1>1 DEF RegLeq

\* A merged item is put together from entries and registers of its two sides.
LEMMA ItemMergeParts ==
    ASSUME NEW x \in Item, NEW y \in Item
    PROVE  /\ ItemMerge(x, y) \in Item
           /\ ItemMerge(x, y).acquired \in {x.acquired, y.acquired}
           /\ \A a \in Actor : /\ ItemMerge(x, y).p[a] \in {x.p[a], y.p[a]}
                               /\ ItemMerge(x, y).n[a] \in {x.n[a], y.n[a]}
<1>1. /\ x.p \in GCounter /\ x.n \in GCounter /\ x.acquired \in LWWReg
      /\ y.p \in GCounter /\ y.n \in GCounter /\ y.acquired \in LWWReg
  BY DEF Item
<1>2. /\ GMerge(x.p, y.p) \in GCounter
      /\ GMerge(x.n, y.n) \in GCounter
  BY <1>1, GMergeType
<1>3. RegMerge(x.acquired, y.acquired) \in {x.acquired, y.acquired}
  BY DEF RegMerge
<1>4. ItemMerge(x, y) \in Item
  BY <1>1, <1>2, <1>3 DEF ItemMerge, Item
<1>5. \A a \in Actor : /\ GMerge(x.p, y.p)[a] \in {x.p[a], y.p[a]}
                       /\ GMerge(x.n, y.n)[a] \in {x.n[a], y.n[a]}
  BY DEF GMerge
<1> QED
  BY <1>3, <1>4, <1>5 DEF ItemMerge

-----------------------------------------------------------------------------
(* Lemmas about derived lists. *)

\* Every copy is derived.
LEMMA CopiesAreDerived ==
    ASSUME TypeOK, NEW x \in Copies
    PROVE  Derived(x.list)
<1>1. IsAWORMap(x.list, Name)
  BY DEF TypeOK, Copies, Copy
<1> QED
  BY <1>1 DEF Derived, Held

\* A merge of derived lists is derived: nothing comes out of a merge that did
\* not go in.
LEMMA MergeIsDerived ==
    ASSUME NEW l, NEW m, Derived(l), Derived(m)
    PROVE  Derived(MapMerge(l, m))
<1> DEFINE j == MapMerge(l, m)
<1>1. /\ DOMAIN l \subseteq Name /\ DOMAIN m \subseteq Name
      /\ \A n \in DOMAIN l : l[n] \in Item
      /\ \A n \in DOMAIN m : m[n] \in Item
  BY DEF Derived, IsAWORMap
<1>2. DOMAIN j = DOMAIN l \cup DOMAIN m
  BY DEF MapMerge
<1>3. ASSUME NEW n \in DOMAIN j
      PROVE  /\ j[n] \in Item
             /\ \/ n \in DOMAIN l /\ j[n].acquired = l[n].acquired
                \/ n \in DOMAIN m /\ j[n].acquired = m[n].acquired
             /\ \A a \in Actor :
                   /\ \/ n \in DOMAIN l /\ j[n].p[a] = l[n].p[a]
                      \/ n \in DOMAIN m /\ j[n].p[a] = m[n].p[a]
                   /\ \/ n \in DOMAIN l /\ j[n].n[a] = l[n].n[a]
                      \/ n \in DOMAIN m /\ j[n].n[a] = m[n].n[a]
  <2>1. CASE n \in DOMAIN l /\ n \in DOMAIN m
    <3>1. j[n] = ItemMerge(l[n], m[n])
      BY <2>1 DEF MapMerge
    <3> QED
      BY <1>1, <2>1, <3>1, ItemMergeParts
  <2>2. CASE n \in DOMAIN l /\ n \notin DOMAIN m
    <3>1. j[n] = l[n]
      BY <2>2 DEF MapMerge
    <3> QED
      BY <1>1, <2>2, <3>1
  <2>3. CASE n \notin DOMAIN l /\ n \in DOMAIN m
    <3>1. j[n] = m[n]
      BY <2>3 DEF MapMerge
    <3> QED
      BY <1>1, <2>3, <3>1
  <2> QED
    BY <1>2, <2>1, <2>2, <2>3
<1>4. j = [n \in DOMAIN j |-> j[n]]
  BY DEF MapMerge
<1> HIDE DEF j
<1>5. IsAWORMap(j, Name)
  BY <1>1, <1>2, <1>3, <1>4 DEF IsAWORMap
<1>6. ASSUME NEW n \in DOMAIN j
      PROVE  \E x \in Copies : Held(j, n, x) /\ j[n].acquired = x.list[n].acquired
  BY <1>3 DEF Derived, Held
<1>7. ASSUME NEW n \in DOMAIN j, NEW a \in Actor
      PROVE  /\ \E x \in Copies : Held(j, n, x) /\ j[n].p[a] = x.list[n].p[a]
             /\ \E x \in Copies : Held(j, n, x) /\ j[n].n[a] = x.list[n].n[a]
  BY <1>3 DEF Derived, Held
<1>8. Derived(j)
  BY <1>5, <1>6, <1>7 DEF Derived
<1> QED
  BY <1>8 DEF j

\* Derived lists agree about register writes as the copies do.
LEMMA DerivedAgree ==
    ASSUME WritesAreUnique, NEW l, NEW m, Derived(l), Derived(m)
    PROVE  MapAgree(l, m)
<1> SUFFICES ASSUME NEW n \in DOMAIN l \cap DOMAIN m
             PROVE  RegAgree(l[n].acquired, m[n].acquired)
  BY DEF MapAgree
<1>1. PICK x \in Copies : Held(l, n, x) /\ l[n].acquired = x.list[n].acquired
  BY DEF Derived
<1>2. PICK y \in Copies : Held(m, n, y) /\ m[n].acquired = y.list[n].acquired
  BY DEF Derived
<1>3. MapAgree(x.list, y.list)
  BY DEF WritesAreUnique
<1> QED
  BY <1>1, <1>2, <1>3 DEF MapAgree, Held

\* No derived list is ahead of a client's database in what is its own.
LEMMA DerivedDominated ==
    ASSUME OwnEntriesDominate, NEW z, Derived(z.list)
    PROVE  OwnDominates(z)
<1> SUFFICES ASSUME NEW n \in DOMAIN z.list, NEW c \in Actor
             PROVE  /\ n \notin DOMAIN db[c] =>
                          /\ z.list[n].p[c] = 0
                          /\ z.list[n].n[c] = 0
                          /\ z.list[n].acquired.actor # c
                    /\ n \in DOMAIN db[c] =>
                          /\ z.list[n].p[c] <= db[c][n].p[c]
                          /\ z.list[n].n[c] <= db[c][n].n[c]
                          /\ z.list[n].acquired.actor = c =>
                                RegLeq(z.list[n].acquired, db[c][n].acquired)
  BY Zenon DEF OwnDominates
<1>1. PICK x \in Copies : /\ Held(z.list, n, x)
                          /\ z.list[n].acquired = x.list[n].acquired
  BY DEF Derived
<1>2. PICK y \in Copies : Held(z.list, n, y) /\ z.list[n].p[c] = y.list[n].p[c]
  BY DEF Derived
<1>3. PICK w \in Copies : Held(z.list, n, w) /\ z.list[n].n[c] = w.list[n].n[c]
  BY DEF Derived
<1>4. OwnDominates(x) /\ OwnDominates(y) /\ OwnDominates(w)
  BY DEF OwnEntriesDominate
<1> QED
  BY <1>1, <1>2, <1>3, <1>4 DEF OwnDominates, Held

-----------------------------------------------------------------------------
(* Numbers of 64 bits: arithmetic modulo 2 * Half.                         *)

Congruent(x, y) == \E k \in Int : x = y + (2 * Half) * k

\* Division with remainder.
LEMMA Division ==
    ASSUME NEW t \in Int, NEW m \in Nat \ {0}
    PROVE  t % m \in 0 .. m - 1 /\ t \div m \in Int /\ t = m * (t \div m) + (t % m)
<1>1. t % m \in 0 .. m - 1
  OBVIOUS
<1>2. t = m * (t \div m) + (t % m)
  OBVIOUS
<1> QED
  BY <1>1, <1>2

\* What wraps around is an i64, and congruent to what it was.
LEMMA Wraps ==
    ASSUME NEW x \in Int
    PROVE  Wrapped(x) \in I64 /\ Wrapped(x) \in Int /\ Congruent(Wrapped(x), x)
<1> DEFINE m == 2 * Half
           q == x \div m
           r == x % m
<1>1. m \in Nat \ {0} /\ Half \in Nat \ {0}
  BY BoundAssumption
<1>2. r \in 0 .. m - 1 /\ q \in Int /\ x = m * q + r
  BY <1>1, Division
<1>3. Wrapped(x) = AsI64(r)
  BY DEF Wrapped
<1> HIDE DEF q, r
<1>4. AsI64(r) \in I64 /\ AsI64(r) \in Int
  BY <1>1, <1>2 DEF AsI64, I64
<1>5. \E k \in {- q, - q - 1} : AsI64(r) = x + m * k
  BY <1>1, <1>2 DEF AsI64
<1> QED
  BY <1>2, <1>3, <1>4, <1>5 DEF Congruent

\* Congruent i64 are equal.
LEMMA CongruentI64 ==
    ASSUME NEW x \in I64, NEW y \in I64, Congruent(x, y)
    PROVE  x = y
<1>1. Half \in Nat \ {0} /\ x \in Int /\ y \in Int
  BY BoundAssumption DEF I64
<1>2. PICK k \in Int : x = y + (2 * Half) * k
  BY DEF Congruent
<1>3. k = 0
  BY <1>1, <1>2 DEF I64
<1> QED
  BY <1>1, <1>2, <1>3

\* Congruence is an equivalence that sums and differences keep.
LEMMA Congruence ==
    ASSUME NEW w \in Int, NEW x \in Int, NEW y \in Int, NEW z \in Int
    PROVE  /\ Congruent(x, x)
           /\ Congruent(x, y) => Congruent(y, x)
           /\ Congruent(x, y) /\ Congruent(y, z) => Congruent(x, z)
           /\ Congruent(w, x) /\ Congruent(y, z) =>
                 Congruent(w + y, x + z) /\ Congruent(w - y, x - z)
<1> DEFINE m == 2 * Half
<1>1. m \in Int
  BY BoundAssumption
<1>2. \A u, v : Congruent(u, v) <=> \E k \in Int : u = v + m * k
  BY DEF Congruent
<1> HIDE DEF m
<1>3. Congruent(x, x)
  <2>1. 0 \in Int /\ x = x + m * 0
    BY <1>1
  <2> QED
    BY <1>2, <2>1
<1>4. ASSUME Congruent(x, y) PROVE Congruent(y, x)
  <2>1. PICK k \in Int : x = y + m * k
    BY <1>2, <1>4
  <2>2. - k \in Int /\ y = x + m * (- k)
    BY <1>1, <2>1
  <2> QED
    BY <1>2, <2>2
<1>5. ASSUME Congruent(x, y), Congruent(y, z) PROVE Congruent(x, z)
  <2>1. PICK k \in Int, l \in Int : x = y + m * k /\ y = z + m * l
    BY <1>2, <1>5
  <2>2. k + l \in Int /\ x = z + m * (k + l)
    BY <1>1, <2>1
  <2> QED
    BY <1>2, <2>2
<1>6. ASSUME Congruent(w, x), Congruent(y, z)
      PROVE  Congruent(w + y, x + z) /\ Congruent(w - y, x - z)
  <2>1. PICK k \in Int, l \in Int : w = x + m * k /\ y = z + m * l
    BY <1>2, <1>6
  <2>2. /\ k + l \in Int /\ w + y = (x + z) + m * (k + l)
        /\ k - l \in Int /\ w - y = (x - z) + m * (k - l)
    BY <1>1, <2>1
  <2> QED
    BY <1>2, <2>2
<1> QED
  BY <1>3, <1>4, <1>5, <1>6

\* The casts between u64 and i64.
LEMMA Casts ==
    /\ \A quantity \in 0 .. 2 * Half - 1 :
          /\ AsI64(quantity) \in I64 /\ AsI64(quantity) \in Int
          /\ AsU64(AsI64(quantity)) = quantity
          /\ Congruent(AsI64(quantity), quantity)
    /\ \A total \in I64 : /\ AsU64(total) \in 0 .. 2 * Half - 1
                          /\ AsI64(AsU64(total)) = total
<1> DEFINE m == 2 * Half
<1>0. m \in Nat \ {0} /\ Half \in Nat \ {0}
  BY BoundAssumption
<1>1. ASSUME NEW quantity \in 0 .. m - 1
      PROVE  /\ AsI64(quantity) \in I64 /\ AsI64(quantity) \in Int
             /\ AsU64(AsI64(quantity)) = quantity
             /\ Congruent(AsI64(quantity), quantity)
  <2>1. quantity % m = quantity
    BY <1>0
  <2>2. AsI64(quantity) = Wrapped(quantity)
    BY <2>1 DEF Wrapped
  <2>3. CASE quantity >= Half
    <3>1. /\ AsI64(quantity) = quantity - m
          /\ AsI64(quantity) \in -m .. -1 /\ AsI64(quantity) \in Int
      BY <1>0, <2>3 DEF AsI64
    <3>2. AsI64(quantity) % m = AsI64(quantity) + m
      BY <1>0, <3>1
    <3> QED
      <4>1. AsU64(AsI64(quantity)) = quantity
        BY <1>0, <3>1, <3>2 DEF AsU64
      <4>2. quantity \in Int
        BY <1>0
      <4> QED
        BY <2>2, <3>1, <4>1, <4>2, Wraps
  <2>4. CASE ~ (quantity >= Half)
    <3>1. AsI64(quantity) = quantity /\ quantity \in Int
      BY <1>0, <2>4 DEF AsI64
    <3> QED
      BY <2>1, <2>2, <3>1, Wraps DEF AsU64
  <2> QED
    BY <2>3, <2>4
<1>2. ASSUME NEW total \in I64
      PROVE  /\ AsU64(total) \in 0 .. m - 1
             /\ AsI64(AsU64(total)) = total
  <2>1. total \in Int
    BY <1>0 DEF I64
  <2>2. AsU64(total) \in 0 .. m - 1
    BY <1>0, <2>1, Division DEF AsU64
  <2>3. AsI64(AsU64(total)) = Wrapped(total)
    BY DEF AsU64, Wrapped
  <2> QED
    BY <2>1, <2>2, <2>3, Wraps, CongruentI64
<1> QED
  BY <1>1, <1>2

\* The total is an i64, congruent to what was counted up less what was counted down.
LEMMA AmountShape ==
    ASSUME NEW item \in Item, NEW c \in Actor
    PROVE  /\ ValueTotal(item.p) \in Nat /\ ValueTotal(item.n) \in Nat
           /\ Amount(item) \in I64 /\ Amount(item) \in Int
           /\ Congruent(Amount(item), ValueTotal(item.p) - ValueTotal(item.n))
<1> DEFINE p == ValueTotal(item.p)
           n == ValueTotal(item.n)
           d == Wrapped(p) - Wrapped(n)
<1>0. item.p \in GCounter /\ item.n \in GCounter
  BY DEF Item
<1>1. p \in Int /\ n \in Int /\ p \in Nat /\ n \in Nat
  <2>1. 0 \in Nat
    OBVIOUS
  <2> QED
    BY <1>0, <2>1, ValueTotalCounts
<1>2. Amount(item) = Wrapped(d)
  BY DEF Amount
<1> HIDE DEF p, n
<1>3. /\ Wrapped(p) \in Int /\ Wrapped(n) \in Int
      /\ Congruent(Wrapped(p), p) /\ Congruent(Wrapped(n), n)
  BY <1>1, Wraps
<1>4. d \in Int /\ Congruent(d, p - n)
  <2>1. Congruent(Wrapped(p) - Wrapped(n), p - n)
    BY <1>1, <1>3, Congruence
  <2> QED
    BY <1>3, <2>1
<1> HIDE DEF d
<1>5. Wrapped(d) \in I64 /\ Wrapped(d) \in Int /\ Congruent(Wrapped(d), d)
  BY <1>4, Wraps
<1>6. p - n \in Int
  BY <1>1
<1>7. Congruent(Wrapped(d), p - n)
  BY <1>4, <1>5, <1>6, Congruence
<1> QED
  BY <1>1, <1>2, <1>5, <1>7 DEF p, n

-----------------------------------------------------------------------------
(* Lemmas about the steps. *)

\* An edit touches one item and, in it, only what is the client's own: its
\* two counter entries and a register write of its own with the next clock.
LEMMA EditShape ==
    ASSUME TypeOK, NEW c \in Actor, NEW name \in Name, NEW quantity,
           NEW acquired \in {0, 1},
           quantity \in Nat,
           HandleItemStorageRequest(c, name, quantity, acquired)
    PROVE  \E item : /\ EditOf(item, c, name)
                     /\ StoreItem(c, name, item)
                     /\ listed' \subseteq Actor
<1>0. listed' \subseteq Actor
  BY DEF HandleItemStorageRequest, TypeOK
<1>1. CASE name \notin DOMAIN db[c]
  <2>1. StoreItem(c, name, NewItem(quantity, acquired, c))
    BY <1>1 DEF HandleItemStorageRequest
  <2>3. /\ NewItem(quantity, acquired, c).p \in GCounter
        /\ NewItem(quantity, acquired, c).n \in GCounter
        /\ \A a \in Actor \ {c} : /\ NewItem(quantity, acquired, c).p[a] = 0
                                  /\ NewItem(quantity, acquired, c).n[a] = 0
    BY DEF NewItem, WithCount, GCounter
  <2>4. /\ NewItem(quantity, acquired, c).acquired \in LWWReg
        /\ NewItem(quantity, acquired, c).acquired.actor = c
    BY DEF NewItem, LWWReg
  <2>5. NewItem(quantity, acquired, c) \in Item
    BY <2>3, <2>4 DEF NewItem, Item
  <2> QED
    BY <1>0, <1>1, <2>1, <2>3, <2>4, <2>5 DEF EditOf
<1>2. CASE name \in DOMAIN db[c]
  <2> DEFINE stored == db[c][name]
  <2>1. PICK delta : /\ delta = Wrapped(AsI64(quantity) - Amount(stored))
                     /\ StoreItem(c, name,
                            ItemMerge(stored, UpdatedItem(stored, delta, acquired, c)))
    BY <1>2 DEF HandleItemStorageRequest
  <2> DEFINE updated == UpdatedItem(stored, delta, acquired, c)
             item == ItemMerge(stored, updated)
  <2>3. stored \in Item
    BY <1>2 DEF TypeOK, IsAWORMap
  <2>2. delta \in Int
    <3>1. Amount(stored) \in Int
      BY <2>3, AmountShape
    <3>2. AsI64(quantity) \in Int
      BY BoundAssumption DEF AsI64
    <3> QED
      BY <2>1, <3>1, <3>2, Wraps DEF I64
  <2> HIDE DEF stored
  <2>4. stored.p \in GCounter /\ stored.n \in GCounter /\ stored.acquired \in LWWReg
    BY <2>3 DEF Item
  <2>5. /\ updated.p \in GCounter /\ GLeq(stored.p, updated.p)
        /\ \A a \in Actor \ {c} : updated.p[a] = stored.p[a]
    BY <2>2, <2>4 DEF UpdatedItem, IncBy, GCounter, GLeq
  <2>6. /\ updated.n \in GCounter /\ GLeq(stored.n, updated.n)
        /\ \A a \in Actor \ {c} : updated.n[a] = stored.n[a]
    BY <2>2, <2>4 DEF UpdatedItem, IncBy, GCounter, GLeq
  <2>7. /\ updated.acquired \in LWWReg
        /\ \/ updated.acquired = stored.acquired
           \/ /\ updated.acquired.actor = c
              /\ updated.acquired.clock = stored.acquired.clock + 1
    BY <2>4 DEF UpdatedItem, LWWReg
  <2>8. updated \in Item
    BY <2>5, <2>6, <2>7 DEF UpdatedItem, Item
  <2> HIDE DEF updated
  <2>9. RegAgree(stored.acquired, updated.acquired)
    BY <2>4, <2>7 DEF RegAgree, LWWReg
  <2>10. item \in Item /\ ItemLeq(stored, item)
    BY <2>3, <2>8, <2>9, ItemMergeUpper
  <2>11. \A a \in Actor \ {c} : item.p[a] = stored.p[a] /\ item.n[a] = stored.n[a]
    BY <2>3, <2>5, <2>6, <2>8, ItemMergeParts
  <2>12. item.acquired \in {stored.acquired, updated.acquired}
    BY <2>3, <2>8, ItemMergeParts
  <2>13. EditOf(item, c, name)
    BY <1>2, <2>7, <2>10, <2>11, <2>12 DEF EditOf, stored
  <2> QED
    BY <1>0, <2>1, <2>13 DEF updated, stored
<1> QED
  BY <1>1, <1>2

\* A list that was not ahead of anybody's database is not ahead after one of
\* them has grown.
LEMMA DominatedByGrown ==
    ASSUME TypeOK, NEW c \in Actor, NEW l, IsAWORMap(l, Name), MapLeq(db[c], l),
           db' = [db EXCEPT ![c] = l],
           NEW x, IsAWORMap(x.list, Name), OwnDominates(x)
    PROVE  OwnDominates(x)'
<1> SUFFICES ASSUME NEW n \in DOMAIN x.list, NEW d \in Actor
             PROVE  /\ n \notin DOMAIN db'[d] =>
                          /\ x.list[n].p[d] = 0
                          /\ x.list[n].n[d] = 0
                          /\ x.list[n].acquired.actor # d
                    /\ n \in DOMAIN db'[d] =>
                          /\ x.list[n].p[d] <= db'[d][n].p[d]
                          /\ x.list[n].n[d] <= db'[d][n].n[d]
                          /\ x.list[n].acquired.actor = d =>
                                RegLeq(x.list[n].acquired, db'[d][n].acquired)
  BY Zenon DEF OwnDominates
<1>0. DOMAIN db = Actor /\ x.list[n] \in Item
  BY DEF TypeOK, IsAWORMap
<1>1. CASE d # c
  <2>1. db'[d] = db[d]
    BY <1>0, <1>1
  <2> QED
    BY <2>1 DEF OwnDominates
<1>2. CASE d = c
  <2>1. db'[d] = l
    BY <1>0, <1>2
  <2>2. CASE n \notin DOMAIN db[d]
    <3>1. /\ x.list[n].p[d] = 0 /\ x.list[n].n[d] = 0
          /\ x.list[n].acquired.actor # d
      BY <2>2 DEF OwnDominates
    <3>2. ASSUME n \in DOMAIN l
          PROVE  l[n].p[d] \in Nat /\ l[n].n[d] \in Nat
      BY <3>2 DEF IsAWORMap, Item, GCounter
    <3> QED
      BY <2>1, <3>1, <3>2
  <2>3. CASE n \in DOMAIN db[d]
    <3>1. n \in DOMAIN l /\ ItemLeq(db[d][n], l[n])
      BY <1>2, <2>3 DEF MapLeq
    <3>2. l[n] \in Item /\ db[d][n] \in Item
      BY <2>3, <3>1 DEF IsAWORMap, TypeOK
    <3>3. /\ x.list[n].p[d] <= db[d][n].p[d]
          /\ x.list[n].n[d] <= db[d][n].n[d]
          /\ x.list[n].acquired.actor = d =>
                 RegLeq(x.list[n].acquired, db[d][n].acquired)
      BY <2>3 DEF OwnDominates
    <3>4. /\ db[d][n].p[d] <= l[n].p[d] /\ db[d][n].n[d] <= l[n].n[d]
          /\ RegLeq(db[d][n].acquired, l[n].acquired)
      BY <3>1 DEF ItemLeq, GLeq
    <3>5. /\ x.list[n].p[d] \in Nat /\ db[d][n].p[d] \in Nat /\ l[n].p[d] \in Nat
          /\ x.list[n].n[d] \in Nat /\ db[d][n].n[d] \in Nat /\ l[n].n[d] \in Nat
      BY <1>0, <3>2 DEF Item, GCounter
    <3>6. ASSUME x.list[n].acquired.actor = d
          PROVE  RegLeq(x.list[n].acquired, l[n].acquired)
      BY <1>0, <3>2, <3>3, <3>4, <3>6, RegLeqTransitive DEF Item
    <3> QED
      BY <2>1, <3>1, <3>3, <3>4, <3>5, <3>6
  <2> QED
    BY <2>2, <2>3
<1> QED
  BY <1>1, <1>2

\* A step after which everything that is held is derived from what was held
\* before keeps the invariant.
LEMMA DerivedStep ==
    ASSUME IInv, NEW c \in Actor, NEW l, Derived(l), MapLeq(db[c], l),
           db' = [db EXCEPT ![c] = l],
           \A z \in Copies' : Derived(z.list)
    PROVE  OwnEntriesDominate' /\ WritesAreUnique'
<1>1. ASSUME NEW z \in Copies'
      PROVE  OwnDominates(z)'
  <2>1. Derived(z.list)
    BY <1>1
  <2>2. OwnDominates(z)
    BY <2>1, DerivedDominated DEF IInv
  <2>3. IsAWORMap(z.list, Name) /\ IsAWORMap(l, Name) /\ TypeOK
    BY <2>1 DEF Derived, IInv
  <2> QED
    BY <2>2, <2>3, DominatedByGrown
<1>2. ASSUME NEW y \in Copies', NEW z \in Copies'
      PROVE  MapAgree(y.list, z.list)
  BY <1>2, DerivedAgree DEF IInv
<1> QED
  BY <1>1, <1>2 DEF OwnEntriesDominate, WritesAreUnique

\* The list an edit leaves behind: well formed, an upper bound of the list
\* before the edit, not ahead of anybody, and in agreement with every copy.
LEMMA EditedList ==
    ASSUME IInv, NEW c \in Actor, NEW name \in Name, NEW item,
           EditOf(item, c, name), StoreItem(c, name, item)
    PROVE  LET e == db'[c] IN
           /\ db' = [db EXCEPT ![c] = e]
           /\ IsAWORMap(e, Name)
           /\ MapLeq(db[c], e)
           /\ \A z : z.list = e => OwnDominates(z)'
           /\ \A m : Derived(m) => MapAgree(e, m) /\ MapAgree(m, e)
<1> DEFINE e == db'[c]
<1>0. /\ TypeOK /\ OwnEntriesDominate /\ WritesAreUnique
      /\ DOMAIN db = Actor
      /\ DOMAIN db[c] \subseteq Name
      /\ \A n \in DOMAIN db[c] : db[c][n] \in Item
      /\ item \in Item
  BY DEF IInv, TypeOK, IsAWORMap, EditOf
<1>1. /\ e = [n \in DOMAIN db[c] \cup {name} |-> IF n = name THEN item ELSE db[c][n]]
      /\ db' = [db EXCEPT ![c] = e]
  BY <1>0 DEF StoreItem
<1>2. /\ DOMAIN e = DOMAIN db[c] \cup {name}
      /\ e[name] = item
      /\ \A n \in DOMAIN db[c] \ {name} : e[n] = db[c][n]
  BY <1>1
<1>3. ASSUME NEW d \in Actor, d # c
      PROVE  db'[d] = db[d]
  BY <1>0, <1>1, <1>3
<1>4. OwnDominates(Copy(c)) /\ Derived(db[c])
  <2>1. Copy(c) \in Copies /\ Copy(c).list = db[c]
    BY DEF Copies, Copy
  <2> QED
    BY <1>0, <2>1, CopiesAreDerived DEF OwnEntriesDominate
<1>5. IsAWORMap(e, Name)
  BY <1>0, <1>1, <1>2 DEF IsAWORMap
<1> HIDE DEF e
<1>6. \A n \in DOMAIN e : /\ e[n] \in Item
                         /\ \A d \in Actor : e[n].p[d] \in Nat /\ e[n].n[d] \in Nat
  BY <1>5 DEF IsAWORMap, Item, GCounter
<1>7. MapLeq(db[c], e)
  <2> SUFFICES ASSUME NEW n \in DOMAIN db[c]
               PROVE  ItemLeq(db[c][n], e[n])
    BY <1>2 DEF MapLeq
  <2>1. CASE n = name
    BY <1>2, <2>1 DEF EditOf
  <2>2. CASE n # name
    <3>1. e[n] = db[c][n] /\ e[n] \in Item
      BY <1>2, <1>6, <2>2
    <3> QED
      BY <3>1, SMT DEF ItemLeq, GLeq, RegLeq, Item, GCounter
  <2> QED
    BY <2>1, <2>2
<1>8. ASSUME NEW z, z.list = e
      PROVE  OwnDominates(z)'
  <2> SUFFICES ASSUME NEW n \in DOMAIN e, NEW d \in Actor
               PROVE  /\ n \notin DOMAIN db'[d] =>
                            /\ e[n].p[d] = 0
                            /\ e[n].n[d] = 0
                            /\ e[n].acquired.actor # d
                      /\ n \in DOMAIN db'[d] =>
                            /\ e[n].p[d] <= db'[d][n].p[d]
                            /\ e[n].n[d] <= db'[d][n].n[d]
                            /\ e[n].acquired.actor = d =>
                                  RegLeq(e[n].acquired, db'[d][n].acquired)
    BY <1>8, Zenon DEF OwnDominates
  <2>1. CASE d = c
    <3>1. db'[d] = e
      BY <2>1 DEF e
    <3>2. /\ e[n].p[d] <= e[n].p[d] /\ e[n].n[d] <= e[n].n[d]
          /\ RegLeq(e[n].acquired, e[n].acquired)
      BY <1>6 DEF RegLeq
    <3> QED
      BY <3>1, <3>2
  <2>2. CASE d # c /\ n \in DOMAIN db[c]
    <3>1. /\ e[n].p[d] = db[c][n].p[d] /\ e[n].n[d] = db[c][n].n[d]
          /\ e[n].acquired = db[c][n].acquired \/ e[n].acquired.actor = c
      BY <1>2, <2>2 DEF EditOf
    <3>2. /\ n \notin DOMAIN db[d] =>
                /\ db[c][n].p[d] = 0
                /\ db[c][n].n[d] = 0
                /\ db[c][n].acquired.actor # d
          /\ n \in DOMAIN db[d] =>
                /\ db[c][n].p[d] <= db[d][n].p[d]
                /\ db[c][n].n[d] <= db[d][n].n[d]
                /\ db[c][n].acquired.actor = d =>
                      RegLeq(db[c][n].acquired, db[d][n].acquired)
      BY <1>4, <2>2 DEF OwnDominates, Copy
    <3> QED
      BY <1>3, <2>2, <3>1, <3>2
  <2>3. CASE d # c /\ n \notin DOMAIN db[c]
    <3>1. /\ e[n].p[d] = 0 /\ e[n].n[d] = 0
          /\ e[n].acquired.actor # d
      BY <1>2, <2>3 DEF EditOf
    <3>2. ASSUME n \in DOMAIN db[d]
          PROVE  db[d][n].p[d] \in Nat /\ db[d][n].n[d] \in Nat
      BY <1>0, <3>2 DEF TypeOK, IsAWORMap, Item, GCounter
    <3> QED
      BY <1>3, <2>3, <3>1, <3>2
  <2> QED
    BY <2>1, <2>2, <2>3
<1>9. ASSUME NEW m, Derived(m)
      PROVE  MapAgree(e, m) /\ MapAgree(m, e)
  <2>0. MapAgree(db[c], m)
    BY <1>0, <1>4, <1>9, DerivedAgree
  <2> SUFFICES ASSUME NEW n \in DOMAIN e \cap DOMAIN m
               PROVE  /\ RegAgree(e[n].acquired, m[n].acquired)
                      /\ RegAgree(m[n].acquired, e[n].acquired)
    BY DEF MapAgree
  <2>1. CASE n \in DOMAIN db[c] /\ e[n].acquired = db[c][n].acquired
    BY <2>0, <2>1 DEF MapAgree, RegAgree
  <2>2. CASE e[n].acquired.actor = c /\ m[n].acquired.actor # c
    BY <2>2 DEF RegAgree
  <2>3. CASE /\ n \in DOMAIN db[c] /\ m[n].acquired.actor = c
             /\ e[n].acquired.clock = db[c][n].acquired.clock + 1
    <3>1. RegLeq(m[n].acquired, db[c][n].acquired)
      <4>1. OwnDominates([list |-> m])
        BY <1>0, <1>9, DerivedDominated
      <4> QED
        BY <2>3, <4>1 DEF OwnDominates
    <3>2. /\ m[n].acquired.clock \in Nat /\ db[c][n].acquired.clock \in Nat
      BY <1>0, <1>9, <2>3 DEF Derived, IsAWORMap, Item, LWWReg
    <3>3. m[n].acquired.clock <= db[c][n].acquired.clock
      BY <3>1, <3>2 DEF RegLeq
    <3>4. m[n].acquired.clock # e[n].acquired.clock
      BY <2>3, <3>2, <3>3
    <3> QED
      BY <3>4 DEF RegAgree
  <2>4. CASE n \notin DOMAIN db[c]
    <3>1. e[n].acquired.actor = c
      BY <1>2, <2>4 DEF EditOf
    <3>2. m[n].acquired.actor # c
      <4>1. OwnDominates([list |-> m])
        BY <1>0, <1>9, DerivedDominated
      <4> QED
        BY <2>4, <4>1 DEF OwnDominates
    <3> QED
      BY <3>1, <3>2, <2>2
  <2>5. n \in DOMAIN db[c] =>
           \/ e[n].acquired = db[c][n].acquired
           \/ /\ e[n].acquired.actor = c
              /\ e[n].acquired.clock = db[c][n].acquired.clock + 1
    BY <1>2 DEF EditOf
  <2> QED
    BY <2>1, <2>2, <2>3, <2>4, <2>5
<1> QED
  BY <1>1, <1>5, <1>7, <1>8, <1>9 DEF e

-----------------------------------------------------------------------------
(* The actions. *)

\* Client::send_item_storage_request keeps the invariant and the order.
LEMMA EditAction ==
    ASSUME IInv, NEW c \in Actor, NEW name \in Name, NEW quantity,
           NEW acquired \in {0, 1},
           quantity \in Nat,
           SendItemStorageRequest(c, name, quantity, acquired)
    PROVE  IInv' /\ MapLeq(db[c], db'[c]) /\ \A d \in Actor \ {c} : db'[d] = db[d]
<1>0. TypeOK /\ OwnEntriesDominate /\ WritesAreUnique
  BY DEF IInv
<1>1. HandleItemStorageRequest(c, name, quantity, acquired)
  BY DEF SendItemStorageRequest
<1>2. PICK item : /\ EditOf(item, c, name) /\ StoreItem(c, name, item)
                  /\ listed' \subseteq Actor
  BY <1>0, <1>1, EditShape
<1> DEFINE e == db'[c]
<1>3. /\ db' = [db EXCEPT ![c] = e]
      /\ IsAWORMap(e, Name)
      /\ MapLeq(db[c], e)
      /\ \A z : z.list = e => OwnDominates(z)'
      /\ \A m : Derived(m) => MapAgree(e, m) /\ MapAgree(m, e)
  BY <1>2, EditedList
<1> HIDE DEF e
<1>4. DOMAIN db = Actor
  BY <1>0 DEF TypeOK
<1>5. db'[c] = e /\ \A d \in Actor \ {c} : db'[d] = db[d]
  BY <1>3, <1>4
<1>6. cloud' = cloud \/ cloud' = cloud \cup {[list |-> e, seen |-> seen'[c]]}
  BY <1>5 DEF SendItemStorageRequest
<1>7. seen' \in [Actor -> [Actor -> Nat]]
  BY <1>0 DEF SendItemStorageRequest, TypeOK
<1>8. TypeOK'
  <2>1. \A d \in Actor : IsAWORMap(db'[d], Name)
    BY <1>0, <1>3, <1>5 DEF TypeOK
  <2>2. DOMAIN db' = Actor
    BY <1>3, <1>4
  <2>3. ASSUME NEW x \in cloud'
        PROVE  IsAWORMap(x.list, Name) /\ x.seen \in [Actor -> Nat]
    <3>1. seen'[c] \in [Actor -> Nat]
      BY <1>7
    <3>2. x \in cloud \/ x = [list |-> e, seen |-> seen'[c]]
      BY <1>6
    <3> QED
      BY <1>0, <1>3, <3>1, <3>2 DEF TypeOK
  <2> QED
    BY <1>2, <1>7, <2>1, <2>2, <2>3 DEF TypeOK
<1>9. ASSUME NEW z \in Copies'
      PROVE  z.list = e \/ (Derived(z.list) /\ OwnDominates(z))
  <2>1. CASE z \in cloud
    <3>1. z \in Copies
      BY <2>1 DEF Copies
    <3> QED
      BY <1>0, <3>1, CopiesAreDerived DEF OwnEntriesDominate
  <2>2. CASE \E d \in Actor : z.list = db'[d]
    <3>1. PICK d \in Actor : z.list = db'[d]
      BY <2>2
    <3>2. CASE d = c
      BY <1>5, <3>1, <3>2
    <3>3. CASE d # c
      <4>1. Copy(d) \in Copies /\ Copy(d).list = z.list
        BY <1>5, <3>1, <3>3 DEF Copies, Copy
      <4>2. Derived(z.list)
        BY <1>0, <4>1, CopiesAreDerived
      <4> QED
        BY <1>0, <4>2, DerivedDominated
    <3> QED
      BY <3>2, <3>3
  <2> QED
    BY <1>6, <2>1, <2>2 DEF Copies, Copy
<1>10. OwnEntriesDominate'
  <2>1. ASSUME NEW z \in Copies'
        PROVE  OwnDominates(z)'
    <3>1. CASE z.list = e
      BY <1>3, <3>1
    <3>2. CASE Derived(z.list) /\ OwnDominates(z)
      <4>1. IsAWORMap(z.list, Name)
        BY <3>2 DEF Derived
      <4> QED
        BY <1>0, <1>3, <3>2, <4>1, DominatedByGrown
    <3> QED
      BY <1>9, <3>1, <3>2
  <2> QED
    BY <2>1 DEF OwnEntriesDominate
<1>11. WritesAreUnique'
  <2>1. MapAgree(e, e)
    BY DEF MapAgree, RegAgree
  <2>2. ASSUME NEW y \in Copies', NEW z \in Copies'
        PROVE  MapAgree(y.list, z.list)
    <3>1. y.list = e \/ Derived(y.list)
      BY <1>9
    <3>2. z.list = e \/ Derived(z.list)
      BY <1>9
    <3> QED
      BY <1>0, <1>3, <2>1, <3>1, <3>2, DerivedAgree
  <2> QED
    BY <2>2 DEF WritesAreUnique
<1> QED
  BY <1>3, <1>5, <1>8, <1>10, <1>11 DEF IInv

\* Client::retrieve_list keeps the invariant and the order.
LEMMA RetrieveAction ==
    ASSUME IInv, NEW c \in Actor, RetrieveList(c)
    PROVE  IInv' /\ MapLeq(db[c], db'[c]) /\ \A d \in Actor \ {c} : db'[d] = db[d]
<1>0. TypeOK /\ OwnEntriesDominate /\ WritesAreUnique
  BY DEF IInv
<1>1. PICK s \in cloud \cup {Copy(c)} :
          LET reply == MapMerge(s.list, db[c])
              remote == MapMerge(db[c], reply)
          IN  /\ db' = [db EXCEPT ![c] = MapMerge(db[c], remote)]
              /\ seen' = [seen EXCEPT ![c] = SeenMax(@, s.seen)]
              /\ cloud' = cloud \cup
                     {Copy(c), [list |-> reply, seen |-> SeenMax(s.seen, seen[c])]}
              /\ UNCHANGED listed
  BY DEF RetrieveList
<1> DEFINE reply == MapMerge(s.list, db[c])
           remote == MapMerge(db[c], reply)
           l == MapMerge(db[c], remote)
<1>2. s \in Copies /\ Copy(c) \in Copies /\ Copy(c).list = db[c]
  BY DEF Copies, Copy
<1>3. Derived(db[c]) /\ Derived(s.list)
  BY <1>0, <1>2, CopiesAreDerived
<1>4. Derived(reply)
  BY <1>3, MergeIsDerived
<1>5. Derived(remote)
  BY <1>3, <1>4, MergeIsDerived
<1>6. Derived(l)
  BY <1>3, <1>5, MergeIsDerived
<1>7. MapLeq(db[c], l)
  <2>1. MapAgree(db[c], remote)
    BY <1>0, <1>3, <1>5, DerivedAgree
  <2>2. IsAWORMap(db[c], Name) /\ IsAWORMap(remote, Name)
    BY <1>3, <1>5 DEF Derived
  <2> QED
    BY <2>1, <2>2, MapMergeUpper
<1> HIDE DEF l, remote
<1>8. /\ db' = [db EXCEPT ![c] = l]
      /\ seen' = [seen EXCEPT ![c] = SeenMax(@, s.seen)]
      /\ cloud' = cloud \cup
             {Copy(c), [list |-> reply, seen |-> SeenMax(s.seen, seen[c])]}
      /\ UNCHANGED listed
  BY <1>1 DEF l, remote
<1> HIDE DEF reply
<1>9. DOMAIN db = Actor
  BY <1>0 DEF TypeOK
<1>10. db'[c] = l /\ \A d \in Actor \ {c} : db'[d] = db[d]
  BY <1>8, <1>9
<1>11. ASSUME NEW z \in Copies'
       PROVE  Derived(z.list)
  <2>1. CASE z \in cloud
    <3>1. z \in Copies
      BY <2>1 DEF Copies
    <3> QED
      BY <1>0, <3>1, CopiesAreDerived
  <2>2. CASE z.list \in {reply, db[c]}
    BY <1>3, <1>4, <2>2
  <2>3. CASE \E d \in Actor : z.list = db'[d]
    <3>1. PICK d \in Actor : z.list = db'[d]
      BY <2>3
    <3>2. CASE d = c
      BY <1>6, <1>10, <3>1, <3>2
    <3>3. CASE d # c
      <4>1. Copy(d) \in Copies /\ Copy(d).list = z.list
        BY <1>10, <3>1, <3>3 DEF Copies, Copy
      <4> QED
        BY <1>0, <4>1, CopiesAreDerived
    <3> QED
      BY <3>2, <3>3
  <2> QED
    BY <1>8, <2>1, <2>2, <2>3 DEF Copies, Copy
<1>12. OwnEntriesDominate' /\ WritesAreUnique'
  BY <1>6, <1>7, <1>8, <1>11, DerivedStep
<1>13. TypeOK'
  <2>1. s.seen \in [Actor -> Nat] /\ seen[c] \in [Actor -> Nat]
    BY <1>0 DEF TypeOK, Copy
  <2>2. /\ SeenMax(s.seen, seen[c]) \in [Actor -> Nat]
        /\ SeenMax(seen[c], s.seen) \in [Actor -> Nat]
    BY <2>1 DEF SeenMax
  <2>3. seen' \in [Actor -> [Actor -> Nat]]
    BY <1>0, <1>8, <2>2 DEF TypeOK
  <2>4. DOMAIN db' = Actor /\ \A d \in Actor : IsAWORMap(db'[d], Name)
    BY <1>0, <1>6, <1>8, <1>9, <1>10 DEF TypeOK, Derived
  <2>5. \A x \in cloud' : IsAWORMap(x.list, Name) /\ x.seen \in [Actor -> Nat]
    BY <1>0, <1>3, <1>4, <1>8, <2>1, <2>2 DEF TypeOK, Derived, Copy
  <2>6. listed' \subseteq Actor
    BY <1>0, <1>8 DEF TypeOK
  <2> QED
    BY <2>3, <2>4, <2>5, <2>6 DEF TypeOK
<1> QED
  BY <1>7, <1>10, <1>12, <1>13 DEF IInv

\* A fetch whose answer is late only adds a copy of the database to the cloud.
LEMMA RetrieveTimeoutAction ==
    ASSUME IInv, NEW c \in Actor, RetrieveListTimeout(c)
    PROVE  IInv' /\ db' = db
<1>1. /\ cloud' = cloud \cup {Copy(c)}
      /\ db' = db /\ listed' = listed /\ seen' = seen
  BY DEF RetrieveListTimeout
<1>2. Copies' = Copies
  BY <1>1 DEF Copies, Copy
<1>3. TypeOK'
  BY <1>1 DEF IInv, TypeOK, Copy
<1>4. OwnEntriesDominate' /\ WritesAreUnique'
  BY <1>1, <1>2 DEF IInv, OwnEntriesDominate, OwnDominates, WritesAreUnique
<1> QED
  BY <1>1, <1>3, <1>4 DEF IInv

\* A panic enters the list in local_lists at most, and an unreadable list is left alone.
LEMMA ErrorAction ==
    ASSUME IInv, NEW c \in Actor, EditPanics(c) \/ RetrieveListError(c)
    PROVE  /\ IInv' /\ Copies' = Copies
           /\ db' = db /\ cloud' = cloud /\ seen' = seen
<1>1. /\ listed' \subseteq listed \cup {c}
      /\ db' = db /\ cloud' = cloud /\ seen' = seen
  BY DEF EditPanics, RetrieveListError, vars
<1>2. Copies' = Copies
  BY <1>1 DEF Copies, Copy
<1>3. TypeOK'
  BY <1>1 DEF IInv, TypeOK
<1>4. OwnEntriesDominate' /\ WritesAreUnique'
  BY <1>1, <1>2 DEF IInv, OwnEntriesDominate, OwnDominates, WritesAreUnique
<1> QED
  BY <1>1, <1>2, <1>3, <1>4 DEF IInv

\* One step of any client.
LEMMA ClientStep ==
    ASSUME IInv, Next
    PROVE  IInv' /\ \A d \in Actor : MapLeq(db[d], db'[d])
<1>0. TypeOK
  BY DEF IInv
<1>1. PICK c \in Actor : \/ AddItem(c)
                         \/ ChangeAmount(c)
                         \/ ToggleAcquired(c)
                         \/ EditPanics(c)
                         \/ RetrieveList(c)
                         \/ RetrieveListTimeout(c)
                         \/ RetrieveListError(c)
  BY DEF Next
<1>2. ASSUME NEW name \in DOMAIN db[c]
      PROVE  /\ name \in Name
             /\ db[c][name].acquired.val \in {0, 1}
             /\ 1 - db[c][name].acquired.val \in {0, 1}
             /\ AsU64(Amount(db[c][name])) \in Nat
  <2>1. db[c][name] \in Item /\ name \in Name
    BY <1>0 DEF TypeOK, IsAWORMap
  <2>2. AsU64(Amount(db[c][name])) \in Nat
    BY <2>1, AmountShape, Casts, BoundAssumption
  <2> QED
    BY <2>1, <2>2 DEF Item, LWWReg
<1>3. ASSUME NEW d \in Actor
      PROVE  MapLeq(db[d], db[d])
  <2>1. \A n \in DOMAIN db[d] : db[d][n] \in Item
    BY <1>0 DEF TypeOK, IsAWORMap
  <2>2. \A x \in Item : ItemLeq(x, x)
    BY SMT DEF ItemLeq, GLeq, RegLeq, Item, GCounter
  <2> QED
    BY <2>1, <2>2 DEF MapLeq
<1>4. CASE AddItem(c)
  <2>1. PICK name \in Name, quantity \in Quantity \cap 1 .. Limit :
            SendItemStorageRequest(c, name, quantity, 0)
    BY <1>4 DEF AddItem
  <2>2. quantity \in Nat /\ 0 \in {0, 1}
    BY QuantityAssumption, BoundAssumption
  <2> QED
    BY <1>3, <2>1, <2>2, EditAction
<1>5. CASE ChangeAmount(c)
  <2>1. PICK name \in DOMAIN db[c], quantity \in Quantity :
            SendItemStorageRequest(c, name, quantity, db[c][name].acquired.val)
    BY <1>5 DEF ChangeAmount
  <2>2. quantity \in Nat
    BY QuantityAssumption, BoundAssumption
  <2> QED
    BY <1>2, <1>3, <2>1, <2>2, EditAction
<1>6. CASE ToggleAcquired(c)
  <2>1. PICK name \in DOMAIN db[c] :
            SendItemStorageRequest(c, name, AsU64(Amount(db[c][name])),
                                   1 - db[c][name].acquired.val)
    BY <1>6 DEF ToggleAcquired
  <2> QED
    BY <1>2, <1>3, <2>1, EditAction
<1>7. CASE RetrieveList(c)
  BY <1>3, <1>7, RetrieveAction
<1>8. CASE RetrieveListTimeout(c)
  BY <1>3, <1>8, RetrieveTimeoutAction
<1>9. CASE EditPanics(c) \/ RetrieveListError(c)
  BY <1>3, <1>9, ErrorAction
<1> QED
  BY <1>1, <1>4, <1>5, <1>6, <1>7, <1>8, <1>9

\* The invariant holds of the empty databases.
LEMMA Initial == Init => IInv
<1> SUFFICES ASSUME Init
             PROVE  IInv
  OBVIOUS
<1>1. \A c \in Actor : db[c] = EmptyMap /\ DOMAIN db[c] = {}
  BY DEF Init, EmptyMap
<1>2. \A x \in Copies : x.list = EmptyMap /\ DOMAIN x.list = {}
  BY <1>1 DEF Init, Copies, Copy
<1>3. \A c \in Actor : IsAWORMap(db[c], Name)
  BY <1>1 DEF IsAWORMap, EmptyMap
<1>4. TypeOK
  BY <1>3 DEF Init, TypeOK
<1>5. OwnEntriesDominate /\ WritesAreUnique
  BY <1>2 DEF OwnEntriesDominate, OwnDominates, WritesAreUnique, MapAgree
<1> QED
  BY <1>4, <1>5 DEF IInv

\* No step breaks the invariant.
LEMMA Inductive == Spec => []IInv
<1>1. IInv /\ [Next]_vars => IInv'
  <2> SUFFICES ASSUME IInv, [Next]_vars
               PROVE  IInv'
    OBVIOUS
  <2>1. CASE Next
    BY <2>1, ClientStep
  <2>2. CASE UNCHANGED vars
    BY <2>2 DEF vars, IInv, TypeOK, OwnEntriesDominate, OwnDominates,
                WritesAreUnique, Copies, Copy
  <2> QED
    BY <2>1, <2>2
<1> QED
  BY <1>1, Initial, PTL DEF Spec

-----------------------------------------------------------------------------
(* The theorems. *)

\* What ClientStorage stores and Client sends and receives is always a
\* well-formed list.
THEOREM LocalStoreTypeOK == Spec => []TypeOK
<1>1. IInv => TypeOK
  BY DEF IInv
<1> QED
  BY <1>1, Inductive, PTL

\* No copy is ahead of a client's own database in what is that client's own:
\* reading the local entry before IncBy and clock + 1 is enough, for any number
\* of clients, names and edits, and however old the copies fetched are.
THEOREM LocalStoreOwnEntriesDominate == Spec => []OwnEntriesDominate
<1>1. IInv => OwnEntriesDominate
  BY DEF IInv
<1> QED
  BY <1>1, Inductive, PTL

\* A clock and an actor name at most one register write: with MapMergeCommutes
\* and MapMergeAssociates, the order in which copies are merged is irrelevant.
THEOREM LocalStoreWritesAreUnique == Spec => []WritesAreUnique
<1>1. IInv => WritesAreUnique
  BY DEF IInv
<1> QED
  BY <1>1, Inductive, PTL

\* No edit and no fetch takes anything back from a client's database.
THEOREM LocalStoreDatabasesGrow == Spec => DatabasesGrow
<1>1. IInv /\ [Next]_vars => [\A c \in Actor : MapLeq(db[c], db'[c])]_vars
  BY ClientStep
<1> QED
  BY <1>1, Inductive, PTL DEF Spec, DatabasesGrow

-----------------------------------------------------------------------------
(* What edits mean.                                                        *)

\* An edit of a stored item changes its total by the difference, but for wrapping
\* around, and sets the flag.
LEMMA EditedAmount ==
    ASSUME NEW stored \in Item, NEW delta \in Int, NEW acquired \in {0, 1}, NEW c \in Actor,
           NEW item, item = ItemMerge(stored, UpdatedItem(stored, delta, acquired, c))
    PROVE  /\ Amount(item) \in I64
           /\ Congruent(Amount(item), Amount(stored) + delta)
           /\ item.acquired.val = acquired
<1> DEFINE updated == UpdatedItem(stored, delta, acquired, c)
<1>1. stored.p \in GCounter /\ stored.n \in GCounter /\ stored.acquired \in LWWReg
  BY DEF Item
<1>2. /\ GMerge(stored.p, updated.p) = updated.p
      /\ GMerge(stored.n, updated.n) = updated.n
  BY <1>1 DEF UpdatedItem, IncBy, GCounter, GMerge
<1>3. item.acquired.val = acquired /\ item.acquired \in LWWReg
  BY <1>1 DEF ItemMerge, RegMerge, ShouldUpdate, UpdatedItem, LWWReg
<1>4. /\ ValueTotal(stored.p) \in Nat /\ ValueTotal(stored.n) \in Nat
      /\ delta > 0 => ValueTotal(IncBy(stored.p, c, delta)) = ValueTotal(stored.p) + delta
      /\ delta < 0 => ValueTotal(IncBy(stored.n, c, -delta)) = ValueTotal(stored.n) - delta
  BY <1>1, ValueTotalCounts
<1>5. /\ updated.p = IF delta > 0 THEN IncBy(stored.p, c, delta) ELSE stored.p
      /\ updated.n = IF delta < 0 THEN IncBy(stored.n, c, -delta) ELSE stored.n
  BY DEF UpdatedItem
<1>6. updated.p \in GCounter /\ updated.n \in GCounter
  BY <1>1, <1>5 DEF IncBy, GCounter
<1>7. item.p = updated.p /\ item.n = updated.n
  BY <1>2 DEF ItemMerge
<1>8. item \in Item
  BY <1>3, <1>6, <1>7 DEF ItemMerge, Item
<1> DEFINE counted == ValueTotal(stored.p) - ValueTotal(stored.n)
<1> HIDE DEF updated
<1>9. /\ ValueTotal(item.p) - ValueTotal(item.n) = counted + delta
      /\ counted \in Int
  BY <1>4, <1>5, <1>7
<1>10. /\ Amount(item) \in I64 /\ Amount(item) \in Int
       /\ Congruent(Amount(item), counted + delta)
  BY <1>8, <1>9, AmountShape
<1>11. Amount(stored) \in Int /\ Congruent(Amount(stored), counted)
  BY AmountShape
<1> HIDE DEF counted
<1>12. Congruent(Amount(stored) + delta, counted + delta)
  BY <1>9, <1>11, Congruence
<1>13. Amount(stored) + delta \in Int /\ counted + delta \in Int
  BY <1>9, <1>11
<1>14. Congruent(Amount(item), Amount(stored) + delta)
  BY <1>10, <1>12, <1>13, Congruence
<1> QED
  BY <1>3, <1>10, <1>14

\* A new item's total is its quantity, cast.
LEMMA NewAmount ==
    ASSUME NEW quantity \in 0 .. 2 * Half - 1, NEW acquired \in {0, 1}, NEW c \in Actor
    PROVE  Amount(NewItem(quantity, acquired, c)) = AsI64(quantity)
<1> DEFINE zero == WithCount(c, 0)
           all == WithCount(c, quantity)
           item == NewItem(quantity, acquired, c)
<1>0. quantity \in Nat
  BY BoundAssumption
<1>1. zero \in GCounter /\ all \in GCounter
  BY <1>0 DEF WithCount, GCounter
<1>2. all = IncBy(zero, c, quantity)
  BY <1>0 DEF WithCount, IncBy
<1>3. ValueTotal(zero) \in Nat /\ ValueTotal(all) = ValueTotal(zero) + quantity
  BY <1>0, <1>1, <1>2, ValueTotalCounts
<1>4. item \in Item /\ item.p = all /\ item.n = zero
  BY <1>1 DEF NewItem, Item, LWWReg
<1> HIDE DEF zero, all, item
<1>5. ValueTotal(item.p) - ValueTotal(item.n) = quantity
  BY <1>0, <1>3, <1>4
<1>6. /\ Amount(item) \in I64 /\ Amount(item) \in Int
      /\ Congruent(Amount(item), quantity)
  BY <1>4, <1>5, AmountShape
<1>7. /\ AsI64(quantity) \in I64 /\ AsI64(quantity) \in Int
      /\ Congruent(AsI64(quantity), quantity)
  BY Casts
<1>8. Congruent(Amount(item), AsI64(quantity))
  BY <1>0, <1>6, <1>7, Congruence
<1> QED
  BY <1>6, <1>7, <1>8, CongruentI64 DEF item

\* handle_item_storage_request leaves the total of which it is given the u64.
LEMMA EditMeans ==
    ASSUME TypeOK, NEW c \in Actor, NEW n \in Name,
           NEW quantity \in 0 .. 2 * Half - 1, NEW acquired \in {0, 1},
           SendItemStorageRequest(c, n, quantity, acquired)
    PROVE  /\ AsU64(Amount(db'[c][n])) = quantity
           /\ db'[c][n].acquired.val = acquired
           /\ n \in DOMAIN db[c] /\ quantity = AsU64(Amount(db[c][n])) =>
                 Amount(db'[c][n]) = Amount(db[c][n])
<1>1. HandleItemStorageRequest(c, n, quantity, acquired) /\ DOMAIN db = Actor
  BY DEF SendItemStorageRequest, TypeOK
<1>2. \A item : StoreItem(c, n, item) => db'[c][n] = item
  BY <1>1 DEF StoreItem
<1>3. CASE n \notin DOMAIN db[c]
  <2>1. db'[c][n] = NewItem(quantity, acquired, c)
    BY <1>1, <1>2, <1>3 DEF HandleItemStorageRequest
  <2>2. NewItem(quantity, acquired, c).acquired.val = acquired
    BY DEF NewItem
  <2> QED
    BY <1>3, <2>1, <2>2, NewAmount, Casts
<1>4. CASE n \in DOMAIN db[c]
  <2> DEFINE stored == db[c][n]
             total == Amount(stored)
             item == db'[c][n]
  <2>1. stored \in Item
    BY <1>4 DEF TypeOK, IsAWORMap
  <2>2. total \in I64 /\ total \in Int
    BY <2>1, AmountShape
  <2>3. PICK delta :
           /\ delta = Wrapped(AsI64(quantity) - total)
           /\ StoreItem(c, n, ItemMerge(stored, UpdatedItem(stored, delta, acquired, c)))
    BY <1>1, <1>4 DEF HandleItemStorageRequest
  <2>4. item = ItemMerge(stored, UpdatedItem(stored, delta, acquired, c))
    BY <1>2, <2>3
  <2>5. /\ AsI64(quantity) \in I64 /\ AsI64(quantity) \in Int
        /\ AsU64(AsI64(quantity)) = quantity
    BY Casts
  <2> HIDE DEF stored, total, item
  <2>6. /\ delta \in Int /\ AsI64(quantity) - total \in Int
        /\ Congruent(delta, AsI64(quantity) - total)
    BY <2>2, <2>3, <2>5, Wraps
  <2>7. /\ Amount(item) \in I64 /\ Amount(item) \in Int
        /\ Congruent(Amount(item), total + delta)
        /\ item.acquired.val = acquired
    BY <2>1, <2>4, <2>6, EditedAmount, BoundAssumption DEF total, I64
  <2>8. Congruent(total + delta, AsI64(quantity))
    <3>1. Congruent(total, total)
      BY <2>2, Congruence
    <3>2. Congruent(total + delta, total + (AsI64(quantity) - total))
      BY <2>2, <2>6, <3>1, Congruence
    <3>3. total + (AsI64(quantity) - total) = AsI64(quantity)
      BY <2>2, <2>5
    <3> QED
      BY <3>2, <3>3
  <2>9. Amount(item) = AsI64(quantity)
    <3>1. total + delta \in Int
      BY <2>2, <2>6
    <3>2. Congruent(Amount(item), AsI64(quantity))
      BY <2>5, <2>7, <2>8, <3>1, Congruence
    <3> QED
      BY <2>5, <2>7, <3>2, CongruentI64
  <2>10. ASSUME quantity = AsU64(total) PROVE AsI64(quantity) = total
    BY <2>2, <2>10, Casts
  <2> QED
    BY <2>5, <2>7, <2>9, <2>10 DEF item, total, stored
<1> QED
  BY <1>3, <1>4

\* Whatever 64-bit quantity is typed, and whatever the stored total, below zero and wrapped
\* around included, the screen shows after an edit what was sent along with it, if the
\* list can still be read, and toggling the flag leaves the total alone.
THEOREM LocalStoreEditsMeanWhatTheySay == Spec => EditsMeanWhatTheySay
<1> DEFINE Means(c, n) ==
        /\ \A quantity \in Quantity, acquired \in {0, 1} :
              SendItemStorageRequest(c, n, quantity, acquired) =>
                  /\ AsU64(Amount(db'[c][n])) = quantity
                  /\ db'[c][n].acquired.val = acquired
        /\ \A acquired \in {0, 1} :
              n \in DOMAIN db[c]
              /\ SendItemStorageRequest(c, n, AsU64(Amount(db[c][n])), acquired) =>
                  /\ Amount(db'[c][n]) = Amount(db[c][n])
                  /\ db'[c][n].acquired.val = acquired
<1>1. ASSUME TypeOK, NEW c \in Actor, NEW n \in Name PROVE Means(c, n)
  <2>1. ASSUME n \in DOMAIN db[c] PROVE AsU64(Amount(db[c][n])) \in 0 .. 2 * Half - 1
    <3>1. db[c][n] \in Item
      BY <1>1, <2>1 DEF TypeOK, IsAWORMap
    <3> QED
      BY <3>1, AmountShape, Casts
  <2>2. \A quantity \in Quantity : quantity \in 0 .. 2 * Half - 1
    BY QuantityAssumption, BoundAssumption
  <2> QED
    BY <1>1, <2>1, <2>2, EditMeans
<1>2. TypeOK /\ [Next]_vars =>
         [\A c \in Actor, n \in Name : Readable(db'[c]) => Means(c, n)]_vars
  BY <1>1
<1> QED
  BY <1>2, LocalStoreTypeOK, PTL DEF Spec, EditsMeanWhatTheySay

-----------------------------------------------------------------------------
(* The versions of LocalStoreHistory: a copy is determined by the edits it *)
(* contains.                                                               *)

ListType == UNION { [D -> Item] : D \in SUBSET Name }

Versions == [list : ListType, seen : [Actor -> Nat]]

MadeType == made \in [Actor -> Seq(Versions)]

\* A client's versions, in the order of its edits: each contains the one
\* before it, and the database contains them all.
VersionsGrow ==
    \A c \in Actor :
        /\ Len(made[c]) = seen[c][c]
        /\ \A k \in 1 .. Len(made[c]) : MapLeq(made[c][k].list, db[c])
        /\ \A j, k \in 1 .. Len(made[c]) :
              j <= k => MapLeq(made[c][j].list, made[c][k].list)

\* The inductive invariant.  That the databases contain every version makes the
\* next one the largest, that versions grow lets a merge take the later of two,
\* and IInv makes the merge of two registers the larger one.
HInv == /\ IInv
        /\ MadeType
        /\ VersionsGrow
        /\ CopiesAreExplained

\* What a merge needs to know of a copy.
Sound(x) == /\ Derived(x.list)
            /\ x.seen \in [Actor -> Nat]
            /\ Causal!Past(x.seen)
            /\ Explained(x)

Merged(x, y) == [list |-> MapMerge(x.list, y.list), seen |-> SeenMax(x.seen, y.seen)]

-----------------------------------------------------------------------------
(* Lemmas about the data. *)

\* Two register writes of which neither is newer are the same write.
LEMMA RegLeqAntisymmetric ==
    ASSUME NEW r \in LWWReg, NEW s \in LWWReg, RegLeq(r, s), RegLeq(s, r)
    PROVE  r = s
<1>1. r.clock \in Nat /\ s.clock \in Nat /\ r.actor \in Nat /\ s.actor \in Nat
  BY ActorAssumption DEF LWWReg
<1> QED
  BY <1>1 DEF RegLeq

\* The order on items is transitive.
LEMMA ItemLeqTransitive ==
    ASSUME NEW x \in Item, NEW y \in Item, NEW z \in Item, ItemLeq(x, y), ItemLeq(y, z)
    PROVE  ItemLeq(x, z)
<1>1. \A i \in {x, y, z} : /\ i.acquired \in LWWReg
                           /\ \A a \in Actor : i.p[a] \in Nat /\ i.n[a] \in Nat
  BY DEF Item, GCounter
<1>2. RegLeq(x.acquired, z.acquired)
  BY <1>1, RegLeqTransitive DEF ItemLeq
<1>3. \A a \in Actor : x.p[a] <= z.p[a] /\ x.n[a] <= z.n[a]
  BY <1>1 DEF ItemLeq, GLeq
<1> QED
  BY <1>2, <1>3 DEF ItemLeq, GLeq

\* The order on lists is reflexive and transitive.
LEMMA MapLeqReflexive ==
    ASSUME NEW l, IsAWORMap(l, Name)
    PROVE  MapLeq(l, l)
<1>1. \A n \in DOMAIN l : l[n] \in Item
  BY MapShape
<1>2. \A x \in Item : ItemLeq(x, x)
  BY SMT DEF ItemLeq, GLeq, RegLeq, Item, GCounter
<1> QED
  BY <1>1, <1>2 DEF MapLeq

LEMMA MapLeqTransitive ==
    ASSUME NEW l, IsAWORMap(l, Name), NEW m, IsAWORMap(m, Name),
           NEW k, IsAWORMap(k, Name), MapLeq(l, m), MapLeq(m, k)
    PROVE  MapLeq(l, k)
<1>1. /\ \A n \in DOMAIN l : l[n] \in Item
      /\ \A n \in DOMAIN m : m[n] \in Item
      /\ \A n \in DOMAIN k : k[n] \in Item
  BY MapShape
<1> QED
  BY <1>1, ItemLeqTransitive DEF MapLeq

\* A list is in ListType if it is an AWORMap.
LEMMA ListTypeIsAWORMap ==
    ASSUME NEW l
    PROVE  l \in ListType <=> IsAWORMap(l, Name)
<1>1. ASSUME l \in ListType PROVE IsAWORMap(l, Name)
  <2>1. \E D \in SUBSET Name : l \in [D -> Item]
    BY <1>1 DEF ListType
  <2> QED
    BY <2>1 DEF IsAWORMap
<1>2. ASSUME IsAWORMap(l, Name) PROVE l \in ListType
  BY <1>2 DEF IsAWORMap, ListType
<1> QED
  BY <1>1, <1>2

\* The elements of a list of versions.
LEMMA VersionType ==
    ASSUME MadeType, NEW c \in Actor, NEW k \in 1 .. Len(made[c])
    PROVE  /\ IsAWORMap(made[c][k].list, Name)
           /\ made[c][k].seen \in [Actor -> Nat]
<1>1. made[c][k] \in Versions
  BY ElementOfSeq DEF MadeType
<1> QED
  BY <1>1, ListTypeIsAWORMap DEF Versions

\* CausalList's history is that of the versions.
LEMMA CausalMade ==
    ASSUME MadeType, NEW c \in Actor
    PROVE  LET f == [k \in DOMAIN made[c] |-> made[c][k].seen] IN
           /\ f \in Seq([Actor -> Nat])
           /\ Len(f) = Len(made[c])
           /\ \A k \in 1 .. Len(made[c]) : f[k] = made[c][k].seen
<1>1. made[c] \in Seq(Versions) /\ Len(made[c]) \in Nat
      /\ DOMAIN made[c] = 1 .. Len(made[c])
  BY LenProperties DEF MadeType
<1>2. \A k \in 1 .. Len(made[c]) : made[c][k].seen \in [Actor -> Nat]
  BY VersionType
<1> DEFINE f == [k \in DOMAIN made[c] |-> made[c][k].seen]
<1>3. f \in [1 .. Len(made[c]) -> [Actor -> Nat]]
  BY <1>1, <1>2
<1>4. f \in Seq([Actor -> Nat])
  BY <1>1, <1>3, SeqDef
<1>5. DOMAIN f = 1 .. Len(f) /\ Len(f) \in Nat
  BY <1>4, LenProperties
<1>6. Len(f) = Len(made[c])
  BY <1>1, <1>5
<1> QED
  BY <1>1, <1>4, <1>6

\* What it is to be a past, in terms of the versions.
PastOfVersions(v) ==
    \A d \in Actor :
        /\ v[d] <= Len(made[d])
        /\ v[d] > 0 => \A e \in Actor : made[d][v[d]].seen[e] <= v[e]

LEMMA PastShape ==
    MadeType => \A v \in [Actor -> Nat] : Causal!Past(v) <=> PastOfVersions(v)
<1> SUFFICES ASSUME MadeType, NEW v \in [Actor -> Nat]
             PROVE  Causal!Past(v) <=> PastOfVersions(v)
  OBVIOUS
<1>1. ASSUME NEW d \in Actor
      PROVE  LET f == [k \in DOMAIN made[d] |-> made[d][k].seen] IN
             /\ Len(f) = Len(made[d])
             /\ \A k \in 1 .. Len(made[d]) : f[k] = made[d][k].seen
  BY CausalMade
<1>2. \A d \in Actor : v[d] <= Len(made[d]) /\ v[d] > 0 => v[d] \in 1 .. Len(made[d])
  <2>1. \A d \in Actor : Len(made[d]) \in Nat /\ v[d] \in Nat
    BY LenProperties DEF MadeType
  <2> QED
    BY <2>1
<1> QED
  BY <1>1, <1>2 DEF Causal!Past, PastOfVersions

LEMMA PastShapeNext ==
    (MadeType => \A v \in [Actor -> Nat] : Causal!Past(v) <=> PastOfVersions(v))'
  BY PastShape, PTL

-----------------------------------------------------------------------------
(* Lemmas about explained copies. *)

\* Copy x contains an edit of client c after which c's list had item n.
Holds(x, c, n) == x.seen[c] > 0 /\ n \in DOMAIN Version(x, c)

\* What client c's last edit in copy x says of item n.
From(x, c, n) == Version(x, c)[n]

\* Explained, item by item.
ItemExplained(x, n) ==
    /\ \A c \in Actor :
          /\ Holds(x, c, n) =>
                /\ x.list[n].p[c] = From(x, c, n).p[c]
                /\ x.list[n].n[c] = From(x, c, n).n[c]
                /\ RegLeq(From(x, c, n).acquired, x.list[n].acquired)
          /\ ~Holds(x, c, n) => x.list[n].p[c] = 0 /\ x.list[n].n[c] = 0
    /\ \E c \in Actor : /\ Holds(x, c, n)
                        /\ x.list[n].acquired = From(x, c, n).acquired

\* Explained, for all items at once.
Itemwise(x) ==
    /\ \A n : n \in DOMAIN x.list <=> \E c \in Actor : Holds(x, c, n)
    /\ \A n \in DOMAIN x.list : ItemExplained(x, n)

LEMMA ExplainedShape == \A x : Explained(x) <=> Itemwise(x)
<1> TAKE x
<1> DEFINE Names == UNION { DOMAIN Version(x, c) : c \in Authors(x) }
           Holders(n) == { c \in Authors(x) : n \in DOMAIN Version(x, c) }
<1>1. \A n : n \in Names <=> \E c \in Actor : Holds(x, c, n)
  BY DEF Authors, Holds
<1>2. DOMAIN x.list = Names <=> \A n : n \in DOMAIN x.list <=> n \in Names
  OBVIOUS
<1>3. \A n, c : c \in Holders(n) <=> c \in Actor /\ Holds(x, c, n)
  BY DEF Authors, Holds
<1>4. Explained(x) <=>
        /\ DOMAIN x.list = Names
        /\ \A n \in DOMAIN x.list :
              /\ \A c \in Actor :
                    IF c \in Holders(n)
                    THEN /\ x.list[n].p[c] = From(x, c, n).p[c]
                         /\ x.list[n].n[c] = From(x, c, n).n[c]
                    ELSE x.list[n].p[c] = 0 /\ x.list[n].n[c] = 0
              /\ \E c \in Holders(n) : x.list[n].acquired = From(x, c, n).acquired
              /\ \A c \in Holders(n) :
                    RegLeq(From(x, c, n).acquired, x.list[n].acquired)
  BY Zenon DEF Explained, From
<1> HIDE DEF Names, Holders
<1>5. ASSUME NEW n \in DOMAIN x.list
      PROVE  ItemExplained(x, n) <=>
                /\ \A c \in Actor :
                      IF c \in Holders(n)
                      THEN /\ x.list[n].p[c] = From(x, c, n).p[c]
                           /\ x.list[n].n[c] = From(x, c, n).n[c]
                      ELSE x.list[n].p[c] = 0 /\ x.list[n].n[c] = 0
                /\ \E c \in Holders(n) : x.list[n].acquired = From(x, c, n).acquired
                /\ \A c \in Holders(n) :
                      RegLeq(From(x, c, n).acquired, x.list[n].acquired)
  BY <1>3 DEF ItemExplained
<1> QED
  BY <1>1, <1>2, <1>4, <1>5 DEF Itemwise

LEMMA ExplainedShapeNext == (\A x : Explained(x) <=> Itemwise(x))'
  BY ExplainedShape, PTL

\* The later of two copies' versions of a client holds what the earlier holds,
\* and is above it.
LEMMA LaterVersion ==
    ASSUME HInv, NEW x, NEW z, x.seen \in [Actor -> Nat], z.seen \in [Actor -> Nat],
           NEW c \in Actor, x.seen[c] <= z.seen[c], z.seen[c] <= Len(made[c]),
           NEW n, Holds(x, c, n)
    PROVE  /\ Holds(z, c, n)
           /\ From(x, c, n) \in Item /\ From(z, c, n) \in Item
           /\ ItemLeq(From(x, c, n), From(z, c, n))
<1>1. /\ x.seen[c] \in 1 .. Len(made[c])
      /\ z.seen[c] \in 1 .. Len(made[c])
  <2>1. /\ x.seen[c] \in Nat /\ z.seen[c] \in Nat /\ Len(made[c]) \in Nat
        /\ x.seen[c] > 0
    BY LenProperties DEF MadeType, HInv, Holds
  <2> QED
    BY <2>1
<1>2. MapLeq(Version(x, c), Version(z, c))
  BY <1>1 DEF HInv, VersionsGrow, Version
<1>3. IsAWORMap(Version(x, c), Name) /\ IsAWORMap(Version(z, c), Name)
  BY <1>1, VersionType DEF Version, HInv
<1>4. n \in DOMAIN Version(x, c) /\ n \in DOMAIN Version(z, c)
  BY <1>2 DEF Holds, MapLeq
<1> QED
  BY <1>1, <1>2, <1>3, <1>4, MapShape DEF Holds, From, MapLeq

\* A merge of two pasts is a past.
LEMMA MergedSeen ==
    ASSUME HInv, NEW s, NEW t, s \in [Actor -> Nat], t \in [Actor -> Nat],
           Causal!Past(s), Causal!Past(t)
    PROVE  /\ SeenMax(s, t) \in [Actor -> Nat]
           /\ Causal!Past(SeenMax(s, t))
           /\ \A c \in Actor : /\ SeenMax(s, t)[c] \in {s[c], t[c]}
                               /\ s[c] <= SeenMax(s, t)[c] /\ t[c] <= SeenMax(s, t)[c]
                               /\ SeenMax(s, t)[c] <= Len(made[c])
<1> DEFINE v == SeenMax(s, t)
<1>1. v \in [Actor -> Nat]
  BY DEF SeenMax
<1>2. \A c \in Actor : /\ v[c] \in {s[c], t[c]}
                       /\ s[c] <= v[c] /\ t[c] <= v[c]
  BY DEF SeenMax
<1>3. \A u \in {s, t} : \A d \in Actor :
          /\ u[d] <= Len(made[d])
          /\ u[d] > 0 => \A e \in Actor : made[d][u[d]].seen[e] <= u[e]
  BY PastShape DEF HInv, PastOfVersions
<1> HIDE DEF v
<1>4. ASSUME NEW d \in Actor, v[d] > 0, NEW e \in Actor
      PROVE  made[d][v[d]].seen[e] <= v[e]
  <2>1. PICK u \in {s, t} : v[d] = u[d]
    BY <1>2
  <2>2. made[d][v[d]].seen[e] <= u[e]
    BY <1>3, <1>4, <2>1
  <2>3. u[e] <= v[e]
    BY <1>2
  <2>4. v[d] \in 1 .. Len(made[d])
    <3>1. v[d] \in Nat /\ v[d] <= Len(made[d]) /\ Len(made[d]) \in Nat
      BY <1>1, <1>3, <2>1, LenProperties DEF HInv, MadeType
    <3> QED
      BY <1>4, <3>1
  <2>5. made[d][v[d]].seen[e] \in Nat
    BY <2>4, VersionType DEF HInv
  <2>6. u[e] \in Nat /\ v[e] \in Nat
    BY <1>1
  <2> QED
    BY <2>2, <2>3, <2>5, <2>6
<1>5. \A d \in Actor : v[d] <= Len(made[d])
  BY <1>2, <1>3
<1>6. Causal!Past(v)
  BY <1>1, <1>4, <1>5, PastShape DEF HInv, PastOfVersions
<1> QED
  BY <1>1, <1>2, <1>5, <1>6 DEF v

\* Item n of a merge, where both sides or one of them have it.
LEMMA MergedItem ==
    ASSUME HInv, NEW x, NEW y, Sound(x), Sound(y),
           NEW n \in DOMAIN MapMerge(x.list, y.list)
    PROVE  LET i == MapMerge(x.list, y.list)[n] IN
           /\ i \in Item
           /\ \A z \in {x, y} : n \in DOMAIN z.list =>
                 z.list[n] \in Item /\ ItemLeq(z.list[n], i)
           /\ \E z \in {x, y} : n \in DOMAIN z.list /\ i.acquired = z.list[n].acquired
           /\ \A c \in Actor :
                 /\ \E z \in {x, y} : n \in DOMAIN z.list /\ i.p[c] = z.list[n].p[c]
                 /\ \E z \in {x, y} : n \in DOMAIN z.list /\ i.n[c] = z.list[n].n[c]
<1>1. /\ IsAWORMap(x.list, Name) /\ IsAWORMap(y.list, Name)
      /\ MapAgree(x.list, y.list)
  BY DerivedAgree DEF Sound, Derived, HInv, IInv
<1> DEFINE j == MapMerge(x.list, y.list)
<1>2. IsAWORMap(j, Name) /\ MapLeq(x.list, j) /\ MapLeq(y.list, j)
  BY <1>1, MapMergeUpper
<1>3. /\ j[n] \in Item
      /\ \A z \in {x, y} : n \in DOMAIN z.list =>
            z.list[n] \in Item /\ ItemLeq(z.list[n], j[n])
  <2> HIDE DEF j
  <2>1. n \in DOMAIN j
    BY DEF j
  <2> QED
    BY <1>1, <1>2, <2>1, MapShape DEF MapLeq
<1>4. CASE n \in DOMAIN x.list /\ n \in DOMAIN y.list
  <2>1. j[n] = ItemMerge(x.list[n], y.list[n])
    BY <1>4 DEF MapMerge
  <2>2. x.list[n] \in Item /\ y.list[n] \in Item
    BY <1>3, <1>4
  <2> HIDE DEF j
  <2>3. /\ j[n].acquired \in {x.list[n].acquired, y.list[n].acquired}
        /\ \A c \in Actor : /\ j[n].p[c] \in {x.list[n].p[c], y.list[n].p[c]}
                            /\ j[n].n[c] \in {x.list[n].n[c], y.list[n].n[c]}
    BY <2>1, <2>2, ItemMergeParts
  <2> QED
    BY <1>3, <1>4, <2>3 DEF j
<1>5. CASE n \in DOMAIN x.list /\ n \notin DOMAIN y.list
  <2>1. j[n] = x.list[n]
    BY <1>5 DEF MapMerge
  <2> QED
    BY <1>3, <1>5, <2>1
<1>6. CASE n \notin DOMAIN x.list /\ n \in DOMAIN y.list
  <2>1. j[n] = y.list[n]
    BY <1>6 DEF MapMerge
  <2> QED
    BY <1>3, <1>6, <2>1
<1>7. n \in DOMAIN x.list \/ n \in DOMAIN y.list
  BY DEF MapMerge
<1> QED
  BY <1>4, <1>5, <1>6, <1>7

\* AWORMap::merge of two copies that are explained by the edits they contain
\* is explained by the edits that either contains.
LEMMA MergeSound ==
    ASSUME HInv, NEW x, NEW y, Sound(x), Sound(y)
    PROVE  Sound(Merged(x, y))
<1> DEFINE w == Merged(x, y)
<1>1. w.list = MapMerge(x.list, y.list) /\ w.seen = SeenMax(x.seen, y.seen)
  BY DEF Merged
<1>2. Derived(w.list)
  BY <1>1, MergeIsDerived DEF Sound
<1>3. /\ w.seen \in [Actor -> Nat]
      /\ Causal!Past(w.seen)
      /\ \A c \in Actor : /\ w.seen[c] \in {x.seen[c], y.seen[c]}
                          /\ x.seen[c] <= w.seen[c] /\ y.seen[c] <= w.seen[c]
                          /\ w.seen[c] <= Len(made[c])
  BY <1>1, MergedSeen DEF Sound
<1> HIDE DEF w
<1>4. ASSUME NEW z \in {x, y}
      PROVE  /\ \A n : n \in DOMAIN z.list <=> \E c \in Actor : Holds(z, c, n)
             /\ \A n \in DOMAIN z.list : ItemExplained(z, n)
  BY ExplainedShape DEF Sound, Itemwise
<1>5. ASSUME NEW z \in {x, y}, NEW c \in Actor, NEW n, Holds(z, c, n)
      PROVE  /\ Holds(w, c, n)
             /\ From(z, c, n) \in Item /\ From(w, c, n) \in Item
             /\ ItemLeq(From(z, c, n), From(w, c, n))
  BY <1>3, <1>5, LaterVersion DEF Sound
<1>6. ASSUME NEW c \in Actor
      PROVE  \E z \in {x, y} :
                \A n : /\ Holds(z, c, n) <=> Holds(w, c, n)
                       /\ From(z, c, n) = From(w, c, n)
  <2>1. PICK z \in {x, y} : z.seen[c] = w.seen[c]
    BY <1>3
  <2> QED
    BY <2>1 DEF Holds, From, Version
<1>7. DOMAIN w.list = DOMAIN x.list \cup DOMAIN y.list
  BY <1>1 DEF MapMerge
<1>8. \A n : n \in DOMAIN w.list <=> \E c \in Actor : Holds(w, c, n)
  BY <1>4, <1>5, <1>6, <1>7
<1>9. ASSUME NEW n \in DOMAIN w.list
      PROVE  ItemExplained(w, n)
  <2> DEFINE i == w.list[n]
  <2>1. /\ i \in Item
        /\ \A z \in {x, y} : n \in DOMAIN z.list =>
              z.list[n] \in Item /\ ItemLeq(z.list[n], i)
        /\ \E z \in {x, y} : n \in DOMAIN z.list /\ i.acquired = z.list[n].acquired
        /\ \A c \in Actor :
              /\ \E z \in {x, y} : n \in DOMAIN z.list /\ i.p[c] = z.list[n].p[c]
              /\ \E z \in {x, y} : n \in DOMAIN z.list /\ i.n[c] = z.list[n].n[c]
    BY <1>1, MergedItem
  <2>2. i.acquired \in LWWReg /\ \A c \in Actor : i.p[c] \in Nat /\ i.n[c] \in Nat
    BY <2>1 DEF Item, GCounter
  <2> HIDE DEF i
  <2>3. ASSUME NEW c \in Actor, ~Holds(w, c, n)
        PROVE  i.p[c] = 0 /\ i.n[c] = 0
    <3>1. \A z \in {x, y} : n \in DOMAIN z.list =>
             z.list[n].p[c] = 0 /\ z.list[n].n[c] = 0
      BY <1>4, <1>5, <2>3 DEF ItemExplained
    <3> QED
      BY <2>1, <3>1
  <2>4. ASSUME NEW c \in Actor, Holds(w, c, n)
        PROVE  /\ i.p[c] = From(w, c, n).p[c]
               /\ i.n[c] = From(w, c, n).n[c]
               /\ RegLeq(From(w, c, n).acquired, i.acquired)
    <3>1. PICK z \in {x, y} : Holds(z, c, n) /\ From(z, c, n) = From(w, c, n)
      BY <1>6, <2>4
    <3> DEFINE f == From(w, c, n)
    <3>2. n \in DOMAIN z.list /\ ItemExplained(z, n)
      BY <1>4, <3>1
    <3>3. /\ z.list[n].p[c] = f.p[c] /\ z.list[n].n[c] = f.n[c]
          /\ RegLeq(f.acquired, z.list[n].acquired)
      BY <3>1, <3>2 DEF ItemExplained
    <3>4. z.list[n] \in Item /\ ItemLeq(z.list[n], i) /\ f \in Item
      BY <1>5, <2>1, <3>1, <3>2
    <3> HIDE DEF f
    <3>5. /\ z.list[n].p[c] \in Nat /\ z.list[n].n[c] \in Nat
          /\ z.list[n].acquired \in LWWReg /\ f.acquired \in LWWReg
          /\ f.p[c] <= i.p[c] /\ f.n[c] <= i.n[c]
          /\ f.p[c] \in Nat /\ f.n[c] \in Nat
      BY <3>3, <3>4 DEF Item, GCounter, ItemLeq, GLeq
    <3>6. RegLeq(f.acquired, i.acquired)
      BY <2>2, <3>3, <3>4, <3>5, RegLeqTransitive DEF ItemLeq
    <3>7. ASSUME NEW u \in {x, y}, n \in DOMAIN u.list
          PROVE  u.list[n].p[c] <= f.p[c] /\ u.list[n].n[c] <= f.n[c]
      <4>1. ItemExplained(u, n)
        BY <1>4, <3>7
      <4>2. CASE Holds(u, c, n)
        <5>1. ItemLeq(From(u, c, n), f)
          BY <1>5, <4>2 DEF f
        <5> QED
          BY <4>1, <4>2, <5>1 DEF ItemExplained, ItemLeq, GLeq
      <4>3. CASE ~Holds(u, c, n)
        BY <3>5, <4>1, <4>3 DEF ItemExplained
      <4> QED
        BY <4>2, <4>3
    <3>8. i.p[c] <= f.p[c] /\ i.n[c] <= f.n[c]
      BY <2>1, <3>7
    <3>9. i.p[c] = f.p[c] /\ i.n[c] = f.n[c]
      BY <2>2, <3>5, <3>8
    <3> QED
      BY <3>6, <3>9 DEF f
  <2>5. \E c \in Actor : Holds(w, c, n) /\ i.acquired = From(w, c, n).acquired
    <3>1. PICK z \in {x, y} : n \in DOMAIN z.list /\ i.acquired = z.list[n].acquired
      BY <2>1
    <3>2. PICK c \in Actor : Holds(z, c, n) /\ z.list[n].acquired = From(z, c, n).acquired
      BY <1>4, <3>1 DEF ItemExplained
    <3>3. /\ Holds(w, c, n)
          /\ From(w, c, n) \in Item
          /\ RegLeq(i.acquired, From(w, c, n).acquired)
      BY <1>5, <3>1, <3>2 DEF ItemLeq
    <3>4. RegLeq(From(w, c, n).acquired, i.acquired)
      BY <2>4, <3>3
    <3>5. From(w, c, n).acquired \in LWWReg
      BY <3>3 DEF Item
    <3>6. i.acquired = From(w, c, n).acquired
      BY <2>2, <3>3, <3>4, <3>5, RegLeqAntisymmetric
    <3> QED
      BY <3>3, <3>6
  <2> QED
    BY <2>3, <2>4, <2>5 DEF ItemExplained, i
<1>10. Explained(w)
  BY <1>8, <1>9, ExplainedShape DEF Itemwise
<1> QED
  BY <1>2, <1>3, <1>10 DEF Sound, w

-----------------------------------------------------------------------------
(* Lemmas about the steps. *)

\* Every copy of a reachable state is sound.
LEMMA CopiesAreSound ==
    ASSUME HInv, NEW x \in Copies
    PROVE  Sound(x)
<1>1. x.seen \in [Actor -> Nat]
  BY DEF HInv, IInv, TypeOK, Copies, Copy
<1> QED
  BY <1>1, CopiesAreDerived DEF HInv, IInv, Sound, CopiesAreExplained

\* Versions are only added.
MadeGrows ==
    \A c \in Actor : /\ Len(made[c]) <= Len(made'[c])
                     /\ \A k \in 1 .. Len(made[c]) : made'[c][k] = made[c][k]

\* What explained a copy goes on explaining it.
LEMMA SoundStays ==
    ASSUME HInv, MadeType', MadeGrows, NEW x, Sound(x)
    PROVE  Causal!Past(x.seen)' /\ Explained(x)'
<1>1. x.seen \in [Actor -> Nat] /\ PastOfVersions(x.seen) /\ Itemwise(x)
  BY PastShape, ExplainedShape DEF Sound, HInv
<1>2. \A d \in Actor : Len(made[d]) \in Nat /\ Len(made'[d]) \in Nat
  BY LenProperties DEF HInv, MadeType
<1>3. \A d \in Actor : x.seen[d] > 0 => x.seen[d] \in 1 .. Len(made[d])
  BY <1>1, <1>2 DEF PastOfVersions
<1>4. \A d \in Actor : x.seen[d] > 0 => made'[d][x.seen[d]] = made[d][x.seen[d]]
  BY <1>3 DEF MadeGrows
<1>5. PastOfVersions(x.seen)'
  <2>1. \A d \in Actor : x.seen[d] <= Len(made'[d])
    BY <1>1, <1>2 DEF PastOfVersions, MadeGrows
  <2> QED
    BY <1>1, <1>4, <2>1 DEF PastOfVersions
<1>6. \A d \in Actor : x.seen[d] > 0 => Version(x, d)' = Version(x, d)
  BY <1>4 DEF Version
<1>7. \A n : \A d \in Actor : /\ Holds(x, d, n)' <=> Holds(x, d, n)
                              /\ Holds(x, d, n) => From(x, d, n)' = From(x, d, n)
  BY <1>6 DEF Holds, From
<1>8. Itemwise(x)'
  BY <1>1, <1>7 DEF Itemwise, ItemExplained
<1> QED
  BY <1>1, <1>5, <1>8, PastShapeNext, ExplainedShapeNext

\* The copy an edit leaves behind: it is the newest version of its author, and
\* holds of the others what the copy before it held.
LEMMA EditSound ==
    ASSUME HInv, NEW c \in Actor, NEW name \in Name, NEW item,
           EditOf(item, c, name), StoreItem(c, name, item),
           MadeType', MadeGrows,
           seen' = [seen EXCEPT ![c][c] = @ + 1],
           Len(made'[c]) = seen[c][c] + 1,
           NEW x, x = [list |-> db'[c], seen |-> seen'[c]],
           made'[c][seen[c][c] + 1] = x
    PROVE  Causal!Past(x.seen)' /\ Explained(x)'
<1>1. PICK y : y = Copy(c)
  OBVIOUS
<1>2. Sound(y) /\ Causal!Past(y.seen)' /\ Explained(y)'
  BY <1>1, CopiesAreSound, SoundStays DEF Copies
<1>3. /\ y.seen \in [Actor -> Nat] /\ PastOfVersions(y.seen)' /\ Itemwise(y)'
  BY <1>2, PastShapeNext, ExplainedShapeNext DEF Sound
<1>4. /\ y.list = db[c] /\ y.seen = seen[c] /\ seen \in [Actor -> [Actor -> Nat]]
      /\ DOMAIN db = Actor
      /\ IsAWORMap(db[c], Name)
  BY <1>1 DEF Copy, HInv, IInv, TypeOK
<1>5. /\ x.seen \in [Actor -> Nat]
      /\ x.seen[c] = y.seen[c] + 1
      /\ \A d \in Actor \ {c} : x.seen[d] = y.seen[d]
  BY <1>4
<1>6. /\ DOMAIN x.list = DOMAIN y.list \cup {name}
      /\ x.list[name] = item
      /\ \A n \in DOMAIN y.list \ {name} : x.list[n] = y.list[n]
  BY <1>4 DEF StoreItem
<1>7. IsAWORMap(x.list, Name) /\ MapLeq(y.list, x.list)
  BY <1>4, EditedList DEF HInv
<1>8. \A n \in DOMAIN y.list : \A d \in Actor \ {c} :
         x.list[n].p[d] = y.list[n].p[d] /\ x.list[n].n[d] = y.list[n].n[d]
  BY <1>4, <1>6 DEF EditOf
<1>9. \A n \in DOMAIN x.list \ DOMAIN y.list : \A d \in Actor \ {c} :
         x.list[n].p[d] = 0 /\ x.list[n].n[d] = 0
  BY <1>4, <1>6 DEF EditOf
<1>10. PastOfVersions(x.seen)'
  <2> SUFFICES ASSUME NEW d \in Actor
               PROVE  /\ x.seen[d] <= Len(made'[d])
                      /\ x.seen[d] > 0 =>
                            \A e \in Actor : made'[d][x.seen[d]].seen[e] <= x.seen[e]
    BY DEF PastOfVersions
  <2>1. CASE d = c
    <3>1. \A e \in Actor : x.seen[e] <= x.seen[e]
      BY <1>5
    <3> QED
      BY <1>4, <1>5, <2>1, <3>1
  <2>2. CASE d # c
    <3>1. /\ y.seen[d] <= Len(made'[d])
          /\ y.seen[d] > 0 => \A e \in Actor : made'[d][y.seen[d]].seen[e] <= y.seen[e]
      BY <1>3 DEF PastOfVersions
    <3>2. ASSUME y.seen[d] > 0, NEW e \in Actor
          PROVE  made'[d][y.seen[d]].seen[e] <= x.seen[e]
      <4>1. y.seen[d] \in 1 .. Len(made'[d])
        BY <1>3, <3>1, <3>2, LenProperties DEF MadeType
      <4>2. made'[d][y.seen[d]] \in Versions
        BY <4>1, ElementOfSeq DEF MadeType
      <4>3. made'[d][y.seen[d]].seen[e] \in Nat
        BY <4>2 DEF Versions
      <4>4. y.seen[e] \in Nat /\ x.seen[e] \in Nat /\ y.seen[e] <= x.seen[e]
        BY <1>3, <1>5
      <4> QED
        BY <3>1, <3>2, <4>3, <4>4
    <3> QED
      BY <1>5, <2>2, <3>1, <3>2
  <2> QED
    BY <2>1, <2>2
<1>11. ASSUME NEW n
       PROVE  /\ Holds(x, c, n)' <=> n \in DOMAIN x.list
              /\ From(x, c, n)' = x.list[n]
  BY <1>4, <1>5 DEF Holds, From, Version
<1>12. ASSUME NEW n, NEW d \in Actor \ {c}
       PROVE  /\ Holds(x, d, n)' <=> Holds(y, d, n)'
              /\ From(x, d, n)' = From(y, d, n)'
  BY <1>5 DEF Holds, From, Version
<1>13. ASSUME NEW n, NEW d \in Actor, Holds(x, d, n)'
       PROVE  n \in DOMAIN x.list
  BY <1>3, <1>6, <1>11, <1>12, <1>13 DEF Itemwise
<1>14. ASSUME NEW n \in DOMAIN x.list
       PROVE  ItemExplained(x, n)'
  <2>1. x.list[n] \in Item /\ RegLeq(x.list[n].acquired, x.list[n].acquired)
    BY <1>7, MapShape DEF RegLeq
  <2>2. ASSUME NEW d \in Actor \ {c}, Holds(x, d, n)'
        PROVE  /\ x.list[n].p[d] = From(x, d, n).p[d]'
               /\ x.list[n].n[d] = From(x, d, n).n[d]'
               /\ RegLeq(From(x, d, n).acquired, x.list[n].acquired)'
    <3>1. n \in DOMAIN y.list /\ ItemExplained(y, n)' /\ Holds(y, d, n)'
      BY <1>3, <1>12, <2>2 DEF Itemwise
    <3>2. PICK f : f = From(y, d, n)'
      OBVIOUS
    <3>3. /\ y.list[n].p[d] = f.p[d] /\ y.list[n].n[d] = f.n[d]
          /\ RegLeq(f.acquired, y.list[n].acquired)
      BY <3>1, <3>2 DEF ItemExplained
    <3>4. y.list[n] \in Item /\ ItemLeq(y.list[n], x.list[n])
      BY <1>4, <1>7, <3>1, MapShape DEF MapLeq
    <3>5. f \in Item
      <4>1. y.seen[d] \in 1 .. Len(made'[d])
        BY <1>3, <3>1, LenProperties DEF MadeType, PastOfVersions, Holds
      <4>2. made'[d][y.seen[d]] \in Versions
        BY <4>1, ElementOfSeq DEF MadeType
      <4>3. IsAWORMap(made'[d][y.seen[d]].list, Name)
        BY <4>2, ListTypeIsAWORMap DEF Versions
      <4> QED
        BY <3>1, <3>2, <4>3, MapShape DEF From, Version, Holds
    <3>6. RegLeq(f.acquired, x.list[n].acquired)
      BY <2>1, <3>3, <3>4, <3>5, RegLeqTransitive DEF Item, ItemLeq
    <3> QED
      BY <1>8, <1>12, <3>1, <3>2, <3>3, <3>6
  <2>3. ASSUME NEW d \in Actor \ {c}, ~Holds(x, d, n)'
        PROVE  x.list[n].p[d] = 0 /\ x.list[n].n[d] = 0
    <3>1. CASE n \in DOMAIN y.list
      <4>1. ItemExplained(y, n)' /\ ~Holds(y, d, n)'
        BY <1>3, <1>12, <2>3, <3>1 DEF Itemwise
      <4>2. y.list[n].p[d] = 0 /\ y.list[n].n[d] = 0
        BY <4>1 DEF ItemExplained
      <4> QED
        BY <1>8, <3>1, <4>2
    <3>2. CASE n \notin DOMAIN y.list
      BY <1>9, <3>2
    <3> QED
      BY <3>1, <3>2
  <2> QED
    BY <1>11, <2>1, <2>2, <2>3 DEF ItemExplained
<1>15. Itemwise(x)'
  BY <1>11, <1>13, <1>14 DEF Itemwise
<1> QED
  BY <1>5, <1>10, <1>15, PastShapeNext, ExplainedShapeNext

-----------------------------------------------------------------------------
(* The actions. *)

\* An edit, as CausalList sees it.
Edited(c) ==
    /\ seen' = [seen EXCEPT ![c][c] = @ + 1]
    /\ made' = [made EXCEPT ![c] = Append(@, [list |-> db'[c], seen |-> seen'[c]])]

\* A fetch, as CausalList sees it.
Learned(c) ==
    /\ made' = made
    /\ \E v \in [Actor -> Nat] : /\ Causal!Past(v)
                                 /\ \A d \in Actor : seen[c][d] <= v[d]
                                 /\ seen' = [seen EXCEPT ![c] = v]

\* Client::send_item_storage_request adds a version.
LEMMA EditStep ==
    ASSUME HInv, Record, NEW c \in Actor, NEW name \in Name, NEW quantity,
           NEW acquired \in {0, 1},
           quantity \in Nat,
           SendItemStorageRequest(c, name, quantity, acquired)
    PROVE  HInv' /\ Edited(c)
<1>1. /\ IInv' /\ MapLeq(db[c], db'[c]) /\ \A d \in Actor \ {c} : db'[d] = db[d]
  BY EditAction DEF HInv
<1>2. PICK item : EditOf(item, c, name) /\ StoreItem(c, name, item)
  BY EditShape DEF HInv, IInv, SendItemStorageRequest
<1>3. /\ seen' = [seen EXCEPT ![c][c] = @ + 1]
      /\ \/ cloud' = cloud \cup {[list |-> db'[c], seen |-> seen'[c]]}
         \/ cloud' = cloud
  BY DEF SendItemStorageRequest
<1>4. /\ seen \in [Actor -> [Actor -> Nat]] /\ seen' \in [Actor -> [Actor -> Nat]]
      /\ \A d \in Actor : IsAWORMap(db[d], Name) /\ IsAWORMap(db'[d], Name)
      /\ made \in [Actor -> Seq(Versions)]
  BY <1>1 DEF HInv, IInv, TypeOK, MadeType
<1>5. /\ seen'[c][c] = seen[c][c] + 1
      /\ \A d \in Actor \ {c} : seen'[d] = seen[d]
  BY <1>3, <1>4
<1>6. PICK x : x = [list |-> db'[c], seen |-> seen'[c]]
  OBVIOUS
<1>7. made' = [made EXCEPT ![c] = Append(@, x)]
  <2>1. \A d \in Actor : seen[d][d] \in Nat
    BY <1>4
  <2>2. \A d \in Actor \ {c} : ~(seen'[d][d] > seen[d][d])
    BY <1>5, <2>1
  <2>3. seen'[c][c] > seen[c][c]
    BY <1>5, <2>1
  <2>4. made' = [d \in Actor |-> IF d = c THEN Append(made[d], x) ELSE made[d]]
    BY <1>6, <2>2, <2>3 DEF Record, Copy
  <2> QED
    BY <1>4, <2>4
<1>8. x \in Versions
  BY <1>4, <1>6, ListTypeIsAWORMap DEF Versions
<1>9. \A d \in Actor : /\ Len(made[d]) = seen[d][d]
                       /\ Len(made[d]) \in Nat
  BY <1>4, LenProperties DEF HInv, VersionsGrow
<1>10. /\ made'[c] = Append(made[c], x)
       /\ \A d \in Actor \ {c} : made'[d] = made[d]
  BY <1>4, <1>7
<1>11. /\ made'[c] \in Seq(Versions)
       /\ Len(made'[c]) = seen[c][c] + 1
       /\ made'[c][seen[c][c] + 1] = x
       /\ \A k \in 1 .. Len(made[c]) : made'[c][k] = made[c][k]
  BY <1>4, <1>8, <1>9, <1>10, AppendProperties
<1>12. MadeType'
  BY <1>4, <1>7, <1>10, <1>11 DEF MadeType
<1>13. MadeGrows
  <2>1. \A d \in Actor : Len(made[d]) <= Len(made'[d])
    BY <1>9, <1>10, <1>11
  <2> QED
    BY <1>10, <1>11, <2>1 DEF MadeGrows
<1>14. VersionsGrow'
  <2>1. \A d \in Actor : Len(made'[d]) = seen'[d][d]
    BY <1>5, <1>9, <1>10, <1>11
  <2>2. ASSUME NEW k \in 1 .. Len(made[c])
        PROVE  MapLeq(made[c][k].list, db'[c])
    <3>1. MapLeq(made[c][k].list, db[c]) /\ IsAWORMap(made[c][k].list, Name)
      BY VersionType DEF HInv, VersionsGrow
    <3> QED
      BY <1>1, <1>4, <3>1, MapLeqTransitive
  <2>3. MapLeq(x.list, x.list) /\ x.list = db'[c]
    BY <1>4, <1>6, MapLeqReflexive
  <2>4. \A k \in 1 .. Len(made'[c]) : k \in 1 .. Len(made[c]) \/ k = seen[c][c] + 1
    BY <1>9, <1>11
  <2>5. \A k \in 1 .. Len(made'[c]) : MapLeq(made'[c][k].list, db'[c])
    BY <1>11, <2>2, <2>3, <2>4
  <2>6. ASSUME NEW j \in 1 .. Len(made'[c]), NEW k \in 1 .. Len(made'[c]), j <= k
        PROVE  MapLeq(made'[c][j].list, made'[c][k].list)
    <3>1. CASE k = seen[c][c] + 1
      BY <1>11, <2>3, <2>5, <3>1
    <3>2. CASE k \in 1 .. Len(made[c])
      <4>1. j \in 1 .. Len(made[c])
        BY <1>9, <2>6, <3>2
      <4> QED
        BY <1>11, <2>6, <3>2, <4>1 DEF HInv, VersionsGrow
    <3> QED
      BY <2>4, <3>1, <3>2
  <2>7. ASSUME NEW d \in Actor, d # c
        PROVE  /\ \A k \in 1 .. Len(made'[d]) : MapLeq(made'[d][k].list, db'[d])
               /\ \A j, k \in 1 .. Len(made'[d]) :
                     j <= k => MapLeq(made'[d][j].list, made'[d][k].list)
    BY <1>1, <1>10, <2>7 DEF HInv, VersionsGrow
  <2> QED
    BY <2>1, <2>5, <2>6, <2>7 DEF VersionsGrow
<1>15. CopiesAreExplained'
  <2>1. ASSUME NEW z \in Copies'
        PROVE  z = x \/ z \in Copies
    <3>1. CASE z \in cloud
      BY <3>1 DEF Copies
    <3>2. CASE \E d \in Actor : z = [list |-> db'[d], seen |-> seen'[d]]
      <4>1. PICK d \in Actor : z = [list |-> db'[d], seen |-> seen'[d]]
        BY <3>2
      <4> QED
        BY <1>1, <1>5, <1>6, <4>1 DEF Copies, Copy
    <3> QED
      BY <1>3, <1>6, <2>1, <3>1, <3>2 DEF Copies, Copy
  <2>2. ASSUME NEW z \in Copies'
        PROVE  Causal!Past(z.seen)' /\ Explained(z)'
    <3>1. CASE z = x
      BY <1>2, <1>3, <1>6, <1>11, <1>12, <1>13, <3>1, EditSound
    <3>2. CASE z \in Copies
      BY <1>12, <1>13, <3>2, CopiesAreSound, SoundStays
    <3> QED
      BY <2>1, <3>1, <3>2
  <2> QED
    BY <2>2 DEF CopiesAreExplained
<1> QED
  BY <1>1, <1>3, <1>6, <1>7, <1>12, <1>14, <1>15 DEF HInv, Edited

\* A step that makes no version and takes nothing from a database.
LEMMA VersionsStay ==
    ASSUME HInv, IInv', made' = made,
           \A c \in Actor : seen'[c][c] = seen[c][c] /\ MapLeq(db[c], db'[c])
    PROVE  MadeType' /\ VersionsGrow'
<1>1. MadeType'
  BY DEF HInv, MadeType
<1>2. ASSUME NEW c \in Actor, NEW k \in 1 .. Len(made[c])
      PROVE  MapLeq(made[c][k].list, db'[c])
  <2>1. MapLeq(made[c][k].list, db[c]) /\ MadeType
    BY DEF HInv, VersionsGrow
  <2>2. IsAWORMap(made[c][k].list, Name)
    BY <2>1, VersionType
  <2>3. IsAWORMap(db[c], Name) /\ IsAWORMap(db'[c], Name)
    BY DEF HInv, IInv, TypeOK
  <2> QED
    BY <2>1, <2>2, <2>3, MapLeqTransitive
<1> QED
  BY <1>1, <1>2 DEF HInv, VersionsGrow

\* Client::retrieve_list learns a past and makes no version.
LEMMA FetchStep ==
    ASSUME HInv, Record, NEW c \in Actor, RetrieveList(c)
    PROVE  HInv' /\ Learned(c)
<1>1. /\ IInv' /\ MapLeq(db[c], db'[c]) /\ \A d \in Actor \ {c} : db'[d] = db[d]
  BY RetrieveAction DEF HInv
<1>2. PICK s \in cloud \cup {Copy(c)} :
          LET reply == MapMerge(s.list, db[c])
              remote == MapMerge(db[c], reply)
          IN  /\ db' = [db EXCEPT ![c] = MapMerge(db[c], remote)]
              /\ seen' = [seen EXCEPT ![c] = SeenMax(@, s.seen)]
              /\ cloud' = cloud \cup
                     {Copy(c), [list |-> reply, seen |-> SeenMax(s.seen, seen[c])]}
              /\ UNCHANGED listed
  BY DEF RetrieveList
<1>3. PICK y : y = Copy(c)
  OBVIOUS
<1>4. y.list = db[c] /\ y.seen = seen[c] /\ s \in Copies /\ y \in Copies
  BY <1>3 DEF Copy, Copies
<1>5. Sound(s) /\ Sound(y)
  BY <1>4, CopiesAreSound
<1>6. /\ seen \in [Actor -> [Actor -> Nat]] /\ DOMAIN db = Actor
      /\ made \in [Actor -> Seq(Versions)] /\ MadeType
      /\ \A d \in Actor : IsAWORMap(db[d], Name) /\ IsAWORMap(db'[d], Name)
  BY <1>1 DEF HInv, IInv, TypeOK, MadeType
<1>7. PICK reply : reply = Merged(s, y)
  OBVIOUS
<1>8. PICK remote : remote = Merged(y, reply)
  OBVIOUS
<1>9. PICK x : x = Merged(y, remote)
  OBVIOUS
<1>10. Sound(reply) /\ Sound(x)
  BY <1>5, <1>7, <1>8, <1>9, MergeSound
<1>11. /\ s.seen \in [Actor -> Nat] /\ y.seen \in [Actor -> Nat]
       /\ x.seen = SeenMax(y.seen, s.seen)
       /\ reply.seen = SeenMax(s.seen, y.seen)
  <2>1. s.seen \in [Actor -> Nat] /\ y.seen \in [Actor -> Nat]
    BY <1>5 DEF Sound
  <2>2. \A a \in Actor :
          SeenMax(y.seen, SeenMax(y.seen, SeenMax(s.seen, y.seen)))[a]
            = SeenMax(y.seen, s.seen)[a]
    BY <2>1 DEF SeenMax
  <2>3. SeenMax(y.seen, SeenMax(y.seen, SeenMax(s.seen, y.seen)))
          = SeenMax(y.seen, s.seen)
    BY <2>2, Zenon DEF SeenMax
  <2> QED
    BY <1>7, <1>8, <1>9, <2>1, <2>3 DEF Merged
<1>12. /\ db' = [db EXCEPT ![c] = x.list]
       /\ seen' = [seen EXCEPT ![c] = x.seen]
       /\ cloud' = cloud \cup {y, reply}
  <2>1. /\ x.list = MapMerge(db[c], MapMerge(db[c], MapMerge(s.list, db[c])))
        /\ reply = [list |-> MapMerge(s.list, db[c]), seen |-> SeenMax(s.seen, seen[c])]
    BY <1>4, <1>7, <1>8, <1>9 DEF Merged
  <2> QED
    BY <1>2, <1>3, <1>4, <1>11, <2>1
<1>13. /\ db'[c] = x.list /\ seen'[c] = x.seen
       /\ \A d \in Actor \ {c} : seen'[d] = seen[d]
  BY <1>6, <1>12
<1>14. /\ x.seen \in [Actor -> Nat] /\ Causal!Past(x.seen)
       /\ \A d \in Actor : seen[c][d] <= x.seen[d]
  <2>1. x.seen \in [Actor -> Nat] /\ Causal!Past(x.seen)
    BY <1>10 DEF Sound
  <2>2. \A d \in Actor : seen[c][d] <= x.seen[d]
    BY <1>4, <1>11 DEF SeenMax
  <2> QED
    BY <2>1, <2>2
<1>15. \A d \in Actor : seen'[d][d] = seen[d][d]
  <2>1. x.seen[c] <= Len(made[c])
    BY <1>6, <1>14, PastShape DEF PastOfVersions
  <2>2. Len(made[c]) = seen[c][c]
    BY DEF HInv, VersionsGrow
  <2>3. seen[c][c] \in Nat /\ x.seen[c] \in Nat /\ seen[c][c] <= x.seen[c]
    BY <1>6, <1>14
  <2>4. x.seen[c] = seen[c][c]
    BY <2>1, <2>2, <2>3
  <2> QED
    BY <1>13, <2>4
<1>16. made' = made
  <2>1. \A d \in Actor : ~(seen'[d][d] > seen[d][d])
    BY <1>6, <1>15
  <2>2. made' = [d \in Actor |-> made[d]]
    BY <2>1 DEF Record
  <2> QED
    BY <1>6, <2>2
<1>17. MadeType' /\ VersionsGrow'
  <2>1. \A d \in Actor : MapLeq(db[d], db'[d])
    BY <1>1, <1>6, MapLeqReflexive
  <2> QED
    BY <1>1, <1>15, <1>16, <2>1, VersionsStay
<1>18. MadeGrows
  <2>1. \A d \in Actor : Len(made[d]) \in Nat
    BY <1>6, LenProperties
  <2> QED
    BY <1>16, <2>1 DEF MadeGrows
<1>19. ASSUME NEW z \in Copies'
       PROVE  Sound(z)
  <2>1. CASE z \in cloud
    <3>1. z \in Copies
      BY <2>1 DEF Copies
    <3> QED
      BY <3>1, CopiesAreSound
  <2>2. CASE z \in {y, reply}
    BY <1>5, <1>10, <2>2
  <2>3. CASE \E d \in Actor : z = [list |-> db'[d], seen |-> seen'[d]]
    <3>1. PICK d \in Actor : z = [list |-> db'[d], seen |-> seen'[d]]
      BY <2>3
    <3>2. CASE d = c
      <4>1. z = x
        BY <1>9, <1>13, <3>1, <3>2 DEF Merged
      <4> QED
        BY <1>10, <4>1
    <3>3. CASE d # c
      <4>1. z \in Copies
        BY <1>1, <1>13, <3>1, <3>3 DEF Copies, Copy
      <4> QED
        BY <4>1, CopiesAreSound
    <3> QED
      BY <3>2, <3>3
  <2> QED
    BY <1>12, <1>19, <2>1, <2>2, <2>3 DEF Copies, Copy
<1>20. CopiesAreExplained'
  <2>1. ASSUME NEW z \in Copies'
        PROVE  Causal!Past(z.seen)' /\ Explained(z)'
    BY <1>17, <1>18, <1>19, SoundStays
  <2> QED
    BY <2>1 DEF CopiesAreExplained
<1> QED
  BY <1>1, <1>12, <1>14, <1>16, <1>17, <1>20 DEF HInv, Learned

\* A step that changes no database and no version.
LEMMA NothingLearned ==
    ASSUME HInv, IInv', db' = db, seen' = seen, made' = made, Copies' = Copies
    PROVE  HInv'
<1>1. /\ made \in [Actor -> Seq(Versions)]
      /\ \A c \in Actor : IsAWORMap(db[c], Name)
  BY DEF HInv, IInv, TypeOK, MadeType
<1>2. MadeType' /\ VersionsGrow'
  BY <1>1, MapLeqReflexive, VersionsStay
<1>3. MadeGrows
  <2>1. \A c \in Actor : Len(made[c]) \in Nat
    BY <1>1, LenProperties
  <2> QED
    BY <2>1 DEF MadeGrows
<1>4. CopiesAreExplained'
  <2>1. ASSUME NEW z \in Copies'
        PROVE  Causal!Past(z.seen)' /\ Explained(z)'
    BY <1>2, <1>3, CopiesAreSound, SoundStays
  <2> QED
    BY <2>1 DEF CopiesAreExplained
<1> QED
  BY <1>2, <1>4 DEF HInv

\* A step with the same databases and copies makes no version.
LEMMA StillStep ==
    ASSUME HInv, Record, IInv', db' = db, seen' = seen, Copies' = Copies
    PROVE  HInv' /\ seen' = seen /\ made' = made
<1>1. /\ seen \in [Actor -> [Actor -> Nat]]
      /\ made \in [Actor -> Seq(Versions)]
  BY DEF HInv, IInv, TypeOK, MadeType
<1>2. made' = made
  <2>1. \A d \in Actor : ~(seen'[d][d] > seen[d][d])
    BY <1>1
  <2>2. made' = [d \in Actor |-> made[d]]
    BY <2>1 DEF Record
  <2> QED
    BY <1>1, <2>2
<1> QED
  BY <1>2, NothingLearned

\* A fetch whose answer is late changes nothing that is known.
LEMMA TimeoutStep ==
    ASSUME HInv, Record, NEW c \in Actor, RetrieveListTimeout(c)
    PROVE  HInv' /\ seen' = seen /\ made' = made
<1>1. IInv' /\ db' = db /\ seen' = seen /\ cloud' = cloud \cup {Copy(c)}
  BY RetrieveTimeoutAction DEF RetrieveListTimeout, HInv
<1>2. Copies' = Copies
  BY <1>1 DEF Copies, Copy
<1> QED
  BY <1>1, <1>2, StillStep

\* One step of any client, with the history.
LEMMA HistoryStep ==
    ASSUME HInv, HistoryNext
    PROVE  /\ HInv'
           /\ \/ \E c \in Actor : Edited(c) \/ Learned(c)
              \/ seen' = seen /\ made' = made
<1>0. TypeOK /\ Record
  BY DEF HInv, IInv, HistoryNext
<1>1. PICK c \in Actor : \/ AddItem(c)
                         \/ ChangeAmount(c)
                         \/ ToggleAcquired(c)
                         \/ EditPanics(c)
                         \/ RetrieveList(c)
                         \/ RetrieveListTimeout(c)
                         \/ RetrieveListError(c)
  BY DEF HistoryNext, Next
<1>2. ASSUME NEW name \in DOMAIN db[c]
      PROVE  /\ name \in Name
             /\ db[c][name].acquired.val \in {0, 1}
             /\ 1 - db[c][name].acquired.val \in {0, 1}
             /\ AsU64(Amount(db[c][name])) \in Nat
  <2>1. db[c][name] \in Item /\ name \in Name
    BY <1>0 DEF TypeOK, IsAWORMap
  <2>2. AsU64(Amount(db[c][name])) \in Nat
    BY <2>1, AmountShape, Casts, BoundAssumption
  <2> QED
    BY <2>1, <2>2 DEF Item, LWWReg
<1>3. CASE AddItem(c)
  <2>1. PICK name \in Name, quantity \in Quantity \cap 1 .. Limit :
            SendItemStorageRequest(c, name, quantity, 0)
    BY <1>3 DEF AddItem
  <2>2. quantity \in Nat /\ 0 \in {0, 1}
    BY QuantityAssumption, BoundAssumption
  <2> QED
    BY <1>0, <2>1, <2>2, EditStep
<1>4. CASE ChangeAmount(c)
  <2>1. PICK name \in DOMAIN db[c], quantity \in Quantity :
            SendItemStorageRequest(c, name, quantity, db[c][name].acquired.val)
    BY <1>4 DEF ChangeAmount
  <2>2. quantity \in Nat
    BY QuantityAssumption, BoundAssumption
  <2> QED
    BY <1>0, <1>2, <2>1, <2>2, EditStep
<1>5. CASE ToggleAcquired(c)
  <2>1. PICK name \in DOMAIN db[c] :
            SendItemStorageRequest(c, name, AsU64(Amount(db[c][name])),
                                   1 - db[c][name].acquired.val)
    BY <1>5 DEF ToggleAcquired
  <2> QED
    BY <1>0, <1>2, <2>1, EditStep
<1>6. CASE RetrieveList(c)
  BY <1>0, <1>6, FetchStep
<1>7. CASE RetrieveListTimeout(c)
  BY <1>0, <1>7, TimeoutStep
<1>8. CASE EditPanics(c) \/ RetrieveListError(c)
  BY <1>0, <1>8, ErrorAction, StillStep DEF HInv
<1> QED
  BY <1>1, <1>3, <1>4, <1>5, <1>6, <1>7, <1>8

\* The invariant holds at the start and no step breaks it.
LEMMA HistoryInductive == HistorySpec => []HInv
<1>1. HistoryInit => HInv
  <2> SUFFICES ASSUME HistoryInit
               PROVE  HInv
    OBVIOUS
  <2>1. IInv
    BY Initial DEF HistoryInit
  <2>2. \A c \in Actor : made[c] = <<>> /\ Len(made[c]) = 0
    BY DEF HistoryInit
  <2>3. MadeType
    BY EmptySeq DEF HistoryInit, MadeType
  <2>4. VersionsGrow
    BY <2>2 DEF HistoryInit, Init, VersionsGrow
  <2>5. ASSUME NEW x \in Copies
        PROVE  Causal!Past(x.seen) /\ Explained(x)
    <3>1. /\ DOMAIN x.list = {}
          /\ x.seen \in [Actor -> Nat] /\ \A c \in Actor : x.seen[c] = 0
      BY DEF HistoryInit, Init, Copies, Copy, EmptyMap
    <3>2. PastOfVersions(x.seen)
      BY <2>2, <3>1 DEF PastOfVersions
    <3>3. Itemwise(x)
      BY <3>1 DEF Itemwise, Holds
    <3> QED
      BY <2>3, <3>1, <3>2, <3>3, PastShape, ExplainedShape
  <2> QED
    BY <2>1, <2>3, <2>4, <2>5 DEF HInv, CopiesAreExplained
<1>2. HInv /\ [HistoryNext]_historyVars => HInv'
  <2> SUFFICES ASSUME HInv, [HistoryNext]_historyVars
               PROVE  HInv'
    OBVIOUS
  <2>1. CASE HistoryNext
    BY <2>1, HistoryStep
  <2>2. CASE UNCHANGED historyVars
    <3>1. db' = db /\ listed' = listed /\ cloud' = cloud /\ seen' = seen /\ made' = made
      BY <2>2 DEF historyVars, vars
    <3>2. Copies' = Copies
      BY <3>1 DEF Copies, Copy
    <3>3. IInv'
      BY <3>1, <3>2 DEF HInv, IInv, TypeOK, OwnEntriesDominate, OwnDominates,
                        WritesAreUnique
    <3> QED
      BY <3>1, <3>2, <3>3, NothingLearned
  <2> QED
    BY <2>1, <2>2
<1> QED
  BY <1>1, <1>2, PTL DEF HistorySpec

-----------------------------------------------------------------------------
(* The theorems. *)

\* However often and in whatever order copies were merged (AWORMap::merge in
\* fetch_list, retrieve_list and the coordinator), each edit counts once in
\* every copy: it has of each client exactly what that client had at the last
\* of its edits in the copy, and of the acquired flag the newest write.
THEOREM LocalStoreCopiesAreExplained == HistorySpec => []CopiesAreExplained
<1>1. HInv => CopiesAreExplained
  BY DEF HInv
<1> QED
  BY <1>1, HistoryInductive, PTL

\* Strong convergence: replicas that received the same edits hold the same
\* list, whatever way the edits travelled.
THEOREM LocalStoreSameEditsSameList == HistorySpec => []SameEditsSameList
<1>1. HInv => SameEditsSameList
  <2> SUFFICES ASSUME HInv, NEW x \in Copies, NEW y \in Copies, x.seen = y.seen
               PROVE  x.list = y.list
    BY DEF SameEditsSameList
  <2>1. /\ IsAWORMap(x.list, Name) /\ IsAWORMap(y.list, Name)
        /\ Itemwise(x) /\ Itemwise(y)
    BY CopiesAreSound, ExplainedShape DEF Sound, Derived
  <2>2. \A n : \A c \in Actor : /\ Holds(x, c, n) <=> Holds(y, c, n)
                                /\ From(x, c, n) = From(y, c, n)
    BY DEF Holds, From, Version
  <2>3. DOMAIN x.list = DOMAIN y.list
    <3>1. \A n : n \in DOMAIN x.list <=> n \in DOMAIN y.list
      BY <2>1, <2>2 DEF Itemwise
    <3>2. DOMAIN x.list \subseteq Name /\ DOMAIN y.list \subseteq Name
      BY <2>1, MapShape
    <3> QED
      BY <3>1, <3>2
  <2>4. ASSUME NEW n \in DOMAIN x.list
        PROVE  x.list[n] = y.list[n]
    <3> DEFINE i == x.list[n]
               j == y.list[n]
    <3>1. /\ i \in Item /\ j \in Item
          /\ ItemExplained(x, n) /\ ItemExplained(y, n)
      BY <2>1, <2>3, MapShape DEF Itemwise
    <3>2. \A c \in Actor : i.p[c] = j.p[c] /\ i.n[c] = j.n[c]
      BY <2>2, <3>1 DEF ItemExplained
    <3>3. RegLeq(i.acquired, j.acquired) /\ RegLeq(j.acquired, i.acquired)
      BY <2>2, <3>1 DEF ItemExplained
    <3> HIDE DEF i, j
    <3>4. i.acquired = j.acquired
      BY <3>1, <3>3, RegLeqAntisymmetric DEF Item
    <3>5. i.p = j.p /\ i.n = j.n
      BY <3>1, <3>2 DEF Item, GCounter
    <3>6. i = j
      BY <3>1, <3>4, <3>5 DEF Item
    <3> QED
      BY <3>6 DEF i, j
  <2> QED
    BY <2>1, <2>3, <2>4, MapShape
<1> QED
  BY <1>1, HistoryInductive, PTL

\* Clients implement CausalList: an edit adds one to what its author knows, a
\* fetch, with an answer however old, learns a whole past and forgets nothing,
\* and a fetch that times out is a stutter.
THEOREM LocalStoreImplementsCausalList == HistorySpec => ImplementsCausalList
<1> DEFINE M == [c \in Actor |-> [k \in DOMAIN made[c] |-> made[c][k].seen]]
<1>1. HistoryInit => Causal!Init
  <2> SUFFICES ASSUME HistoryInit
               PROVE  M = [c \in Actor |-> <<>>]
    BY DEF HistoryInit, Init, Causal!Init
  <2>1. \A c \in Actor : made[c] = <<>>
    BY DEF HistoryInit
  <2>2. [k \in DOMAIN <<>> |-> <<>>[k].seen] = <<>>
    OBVIOUS
  <2> QED
    BY <2>1, <2>2
<1>2. HInv /\ HInv' /\ [HistoryNext]_historyVars => [Causal!Next]_Causal!vars
  <2> SUFFICES ASSUME HInv, HInv', [HistoryNext]_historyVars
               PROVE  Causal!Next \/ UNCHANGED Causal!vars
    OBVIOUS
  <2>0. /\ MadeType /\ MadeType' /\ made \in [Actor -> Seq(Versions)]
        /\ seen \in [Actor -> [Actor -> Nat]]
    BY DEF HInv, IInv, TypeOK, MadeType
  <2>1. CASE seen' = seen /\ made' = made
    BY <2>1 DEF Causal!vars
  <2>2. ASSUME NEW c \in Actor, Edited(c)
        PROVE  Causal!Edit(c)
    <3>1. PICK x : x = [list |-> db'[c], seen |-> seen'[c]]
      OBVIOUS
    <3>2. made'[c] = Append(made[c], x) /\ \A d \in Actor \ {c} : made'[d] = made[d]
      BY <2>0, <2>2, <3>1 DEF Edited
    <3>3. x \in Versions
      BY <3>1, ListTypeIsAWORMap DEF HInv, IInv, TypeOK, Versions
    <3>4. /\ M'[c] = Append(M[c], seen'[c])
          /\ \A d \in Actor \ {c} : M'[d] = M[d]
      <4>1. /\ made[c] \in Seq(Versions) /\ made'[c] \in Seq(Versions)
            /\ Len(made'[c]) = Len(made[c]) + 1
            /\ \A k \in 1 .. Len(made[c]) : made'[c][k] = made[c][k]
            /\ made'[c][Len(made[c]) + 1] = x
        BY <2>0, <3>2, <3>3, AppendProperties
      <4>2. /\ Len(made[c]) \in Nat
            /\ DOMAIN made[c] = 1 .. Len(made[c])
            /\ DOMAIN made'[c] = 1 .. Len(made[c]) + 1
        BY <4>1, LenProperties
      <4>3. M[c] \in Seq([Actor -> Nat]) /\ Len(M[c]) = Len(made[c])
        BY <2>0, CausalMade
      <4>4. seen'[c] \in [Actor -> Nat]
        BY DEF HInv, IInv, TypeOK
      <4>5. /\ Append(M[c], seen'[c]) \in Seq([Actor -> Nat])
            /\ Len(Append(M[c], seen'[c])) = Len(made[c]) + 1
            /\ \A k \in 1 .. Len(made[c]) :
                  Append(M[c], seen'[c])[k] = made[c][k].seen
            /\ Append(M[c], seen'[c])[Len(made[c]) + 1] = seen'[c]
        BY <4>2, <4>3, <4>4, AppendProperties
      <4>6. \A k \in 1 .. Len(made[c]) + 1 :
               M'[c][k] = Append(M[c], seen'[c])[k]
        BY <3>1, <4>1, <4>2, <4>5
      <4>7. /\ DOMAIN M'[c] = 1 .. Len(made[c]) + 1
            /\ M'[c] = [k \in 1 .. Len(made[c]) + 1 |-> M'[c][k]]
        BY <4>2
      <4>8. Append(M[c], seen'[c])
              = [k \in 1 .. Len(made[c]) + 1 |-> Append(M[c], seen'[c])[k]]
        BY <4>5, LenProperties
      <4> QED
        BY <3>2, <4>6, <4>7, <4>8
    <3> HIDE DEF M
    <3>5. M' = [M EXCEPT ![c] = Append(@, seen'[c])]
      BY <3>4 DEF M
    <3> QED
      BY <2>2, <3>5 DEF Edited, Causal!Edit, M
  <2>3. ASSUME NEW c \in Actor, Learned(c)
        PROVE  Causal!Learn(c)
    <3>1. PICK v \in [Actor -> Nat] : /\ Causal!Past(v)
                                      /\ \A d \in Actor : seen[c][d] <= v[d]
                                      /\ seen' = [seen EXCEPT ![c] = v]
      BY <2>3 DEF Learned
    <3>2. \A d \in Actor : v[d] \in 0 .. Len(M[d])
      <4>1. \A d \in Actor : v[d] <= Len(made[d])
        BY <2>0, <3>1, PastShape DEF PastOfVersions
      <4>2. \A d \in Actor : Len(M[d]) = Len(made[d]) /\ Len(M[d]) \in Nat
        BY <2>0, CausalMade, LenProperties
      <4> QED
        BY <4>1, <4>2
    <3>3. v \in [Actor -> Causal!Counts]
      BY <3>2 DEF Causal!Counts
    <3> QED
      BY <2>3, <3>1, <3>3 DEF Learned, Causal!Learn
  <2> QED
    <3>1. CASE HistoryNext
      BY <2>1, <2>2, <2>3, <3>1, HistoryStep DEF Causal!Next
    <3>2. CASE UNCHANGED historyVars
      BY <2>1, <3>2 DEF historyVars, vars
    <3> QED
      BY <3>1, <3>2
<1> QED
  BY <1>1, <1>2, HistoryInductive, PTL DEF HistorySpec, ImplementsCausalList, Causal!Spec
=============================================================================

--------------------------- MODULE SessionsProofs ---------------------------
(***************************************************************************)
(* One session of a user: no copy is ever ahead of its database in what is *)
(* the user's own, although it reads in several statements, waits for the  *)
(* cluster and overwrites what it finds.                                   *)
(***************************************************************************)
EXTENDS Sessions, CRDTProofs

\* Sessions opened under one name are not synchronised: with two of them
\* the property does not hold.
OneSession == \A s, t \in Session : s = t

Rows == UNION { [D -> Nat] : D \in SUBSET Actor }

Register == { r \in LWWReg : r.actor \in {Me, Other} }

StoredItem == [p : Rows, n : Rows, acquired : Register]

Items == StoredItem \cup {Absent}

Registers == Register \cup {Absent.acquired}

\* What a session has read so far may be of an item and of none.
HeldItem == [p : Rows, n : Rows, acquired : Registers]

Wanted == [quantity : Nat, less : BOOLEAN, acquired : {0, 1}]

Types ==
    /\ db \in Items
    /\ other \in Items
    /\ cloud \subseteq Items
    /\ held \in [Session -> HeldItem]
    /\ wanted \in [Session -> Wanted]
    /\ DOMAIN step = Session

\* Item y has all that x has.
Within(x, y) == /\ \A a \in Actor : /\ Entry(x.p, a) <= Entry(y.p, a)
                                    /\ Entry(x.n, a) <= Entry(y.n, a)
                /\ RegLeq(x.acquired, y.acquired)

\* Item x is not ahead of item y in what is the sessions' own.
Owned(x, y) == /\ Entry(x.p, Me) <= Entry(y.p, Me)
               /\ Entry(x.n, Me) <= Entry(y.n, Me)
               /\ x.acquired.actor = Me => RegLeq(x.acquired, y.acquired)

\* What a session has read is stored: it alone writes the database.
HeldIsStored(s) ==
    /\ step[s] \in {"read p", "read n", "overwrite"} =>
          db # Absent /\ held[s].acquired = db.acquired
    /\ step[s] \in {"read n", "overwrite"} => held[s].p = db.p
    /\ step[s] \in {"get", "overwrite"} => held[s] = db
    /\ step[s] = "write list" =>
          /\ held[s] \in Items
          /\ Within(db, held[s])

\* The inductive invariant.
SessionInv ==
    /\ Types
    /\ \A x \in cloud \cup {other} : Owned(x, db)
    /\ \A s \in Session : HeldIsStored(s)

-----------------------------------------------------------------------------
(* Lemmas about rows. *)

LEMMA RowsType ==
    ASSUME NEW g
    PROVE  /\ g \in Rows => /\ DOMAIN g \subseteq Actor
                            /\ \A a \in DOMAIN g : g[a] \in Nat
                            /\ \A a \in Actor : Entry(g, a) \in Nat
           /\ \A D \in SUBSET Actor : g \in [D -> Nat] => g \in Rows
<1>1. ASSUME g \in Rows
      PROVE  DOMAIN g \subseteq Actor /\ \A a \in DOMAIN g : g[a] \in Nat
  <2>1. \E D \in SUBSET Actor : g \in [D -> Nat]
    BY <1>1 DEF Rows
  <2> QED
    BY <2>1
<1>2. \A D \in SUBSET Actor : g \in [D -> Nat] => g \in Rows
  BY DEF Rows
<1> QED
  BY <1>1, <1>2 DEF Entry

\* The empty counter has no rows.
LEMMA NoRows == <<>> \in Rows /\ \A a \in Actor : Entry(<<>>, a) = 0
<1>1. DOMAIN <<>> = {} /\ <<>> \in [{} -> Nat]
  OBVIOUS
<1> QED
  BY <1>1, RowsType DEF Entry

\* GCounter::merge over the actors that either side has rows of.
LEMMA MergeRowsShape ==
    ASSUME NEW g \in Rows, NEW h \in Rows
    PROVE  /\ MergeRows(g, h) \in Rows
           /\ \A a \in Actor :
                 /\ Entry(MergeRows(g, h), a) \in {Entry(g, a), Entry(h, a)}
                 /\ Entry(g, a) <= Entry(MergeRows(g, h), a)
                 /\ Entry(h, a) <= Entry(MergeRows(g, h), a)
<1> DEFINE m == MergeRows(g, h)
<1>1. /\ DOMAIN g \subseteq Actor /\ DOMAIN h \subseteq Actor
      /\ \A a \in Actor : Entry(g, a) \in Nat /\ Entry(h, a) \in Nat
  BY RowsType
<1>2. ASSUME NEW i \in Nat, NEW j \in Nat
      PROVE  /\ Max({i, j}) \in {i, j} /\ i <= Max({i, j}) /\ j <= Max({i, j})
  <2>1. \E k \in {i, j} : \A l \in {i, j} : k >= l
    OBVIOUS
  <2> QED
    BY <2>1 DEF Max
<1>3. DOMAIN m = DOMAIN g \cup DOMAIN h
  BY DEF MergeRows
<1>4. ASSUME NEW a \in DOMAIN m
      PROVE  /\ m[a] \in Nat /\ m[a] \in {Entry(g, a), Entry(h, a)}
             /\ Entry(g, a) <= m[a] /\ Entry(h, a) <= m[a]
  <2>1. m[a] = Max({Entry(g, a), Entry(h, a)})
    BY <1>3 DEF MergeRows
  <2>2. a \in Actor
    BY <1>1, <1>3
  <2> QED
    BY <1>1, <1>2, <2>1, <2>2
<1>5. m \in [DOMAIN m -> Nat]
  <2>1. m = [a \in DOMAIN m |-> m[a]]
    BY DEF MergeRows
  <2> QED
    BY <1>4, <2>1
<1> HIDE DEF m
<1>6. m \in Rows
  BY <1>1, <1>3, <1>5, RowsType
<1>7. ASSUME NEW a \in Actor
      PROVE  /\ Entry(m, a) \in {Entry(g, a), Entry(h, a)}
             /\ Entry(g, a) <= Entry(m, a) /\ Entry(h, a) <= Entry(m, a)
  <2>1. CASE a \in DOMAIN m
    BY <1>4, <2>1 DEF Entry
  <2>2. CASE a \notin DOMAIN m
    BY <1>3, <2>2 DEF Entry
  <2> QED
    BY <2>1, <2>2
<1> QED
  BY <1>6, <1>7 DEF m

\* Writing back a counter that is not behind what is stored stores it.
LEMMA UpsertShape ==
    ASSUME NEW g \in Rows, NEW h \in Rows,
           \A a \in Actor : Entry(g, a) <= Entry(h, a)
    PROVE  /\ Upsert(g, h) \in Rows
           /\ \A a \in Actor : Entry(Upsert(g, h), a) = Entry(h, a)
<1> DEFINE u == Upsert(g, h)
<1>1. /\ DOMAIN g \subseteq Actor /\ DOMAIN h \subseteq Actor
      /\ \A a \in DOMAIN g : g[a] \in Nat
      /\ \A a \in DOMAIN h : h[a] \in Nat
      /\ \A a \in Actor : Entry(g, a) \in Nat /\ Entry(h, a) \in Nat
  BY RowsType
<1>2. /\ DOMAIN u = DOMAIN g \cup DOMAIN h
      /\ u \in [DOMAIN g \cup DOMAIN h -> Nat]
  BY <1>1 DEF Upsert
<1>3. u \in Rows
  BY <1>1, <1>2, RowsType
<1>4. ASSUME NEW a \in Actor
      PROVE  Entry(u, a) = Entry(h, a)
  <2>1. CASE a \in DOMAIN h
    BY <2>1 DEF Entry, Upsert
  <2>2. CASE a \in DOMAIN g /\ a \notin DOMAIN h
    <3>1. Entry(u, a) = Entry(g, a) /\ Entry(h, a) = 0
      BY <2>2 DEF Entry, Upsert
    <3> QED
      BY <1>1, <3>1
  <2>3. CASE a \notin DOMAIN g /\ a \notin DOMAIN h
    BY <1>2, <2>3 DEF Entry
  <2> QED
    BY <2>1, <2>2, <2>3
<1> QED
  BY <1>3, <1>4

\* PNCounter::inc_by and dec_by add to the client's own row.
LEMMA AddShape ==
    ASSUME NEW g \in Rows, NEW c \in Actor, NEW n \in Nat
    PROVE  /\ Add(g, c, n) \in Rows
           /\ \A a \in Actor : /\ Entry(g, a) <= Entry(Add(g, c, n), a)
                               /\ a # c => Entry(Add(g, c, n), a) = Entry(g, a)
<1>1. /\ DOMAIN g \subseteq Actor
      /\ \A a \in DOMAIN g : g[a] \in Nat
      /\ \A a \in Actor : Entry(g, a) \in Nat
  BY RowsType
<1>2. /\ DOMAIN Add(g, c, n) = DOMAIN g \cup {c}
      /\ \A a \in DOMAIN g \cup {c} :
            Add(g, c, n)[a] = IF a = c THEN Entry(g, a) + n ELSE g[a]
      /\ Add(g, c, n) \in [DOMAIN g \cup {c} -> Nat]
  BY <1>1 DEF Add
<1>3. Add(g, c, n) \in Rows
  BY <1>1, <1>2, RowsType
<1>4. ASSUME NEW a \in Actor
      PROVE  Entry(Add(g, c, n), a) = IF a = c THEN Entry(g, a) + n ELSE Entry(g, a)
  BY <1>2 DEF Entry
<1> QED
  BY <1>1, <1>3, <1>4

-----------------------------------------------------------------------------
(* Lemmas about items. *)

\* The order on register writes, of an absent item's register too.
LEMMA RegisterOrder ==
    ASSUME NEW r \in Registers, NEW s \in Registers, NEW t \in Registers
    PROVE  /\ RegLeq(r, r)
           /\ RegLeq(r, s) /\ RegLeq(s, t) => RegLeq(r, t)
           /\ RegLeq(Absent.acquired, r)
<1>1. \A u \in Registers : u.clock \in Nat /\ u.actor \in Nat
  <2>1. \A u \in LWWReg : u.clock \in Nat /\ u.actor \in Nat
    BY ActorAssumption DEF LWWReg
  <2>2. Absent.acquired.clock = 0 /\ Absent.acquired.actor = 0
    BY DEF Absent
  <2> QED
    BY <2>1, <2>2 DEF Registers, Register
<1>2. \A u \in Register : u.actor # 0
  BY MeAssumption DEF Register
<1>3. r = Absent.acquired \/ r.actor # 0
  BY <1>2 DEF Registers
<1>4. RegLeq(Absent.acquired, r)
  <2>1. Absent.acquired.clock = 0 /\ Absent.acquired.actor = 0
    BY DEF Absent
  <2> QED
    BY <1>1, <1>3, <2>1 DEF RegLeq
<1> QED
  BY <1>1, <1>4 DEF RegLeq

\* The parts of an item.
LEMMA ItemParts ==
    /\ \A x \in Items : /\ x \in HeldItem
                        /\ x.p \in Rows /\ x.n \in Rows /\ x.acquired \in Registers
    /\ \A x \in StoredItem : x # Absent /\ x.acquired \in Register
    /\ Absent.p = <<>> /\ Absent.n = <<>>
<1>1. Absent.p = <<>> /\ Absent.n = <<>> /\ Absent.acquired.actor = 0
  BY DEF Absent
<1>2. \A x \in StoredItem : x.p \in Rows /\ x.n \in Rows /\ x.acquired \in Register
  BY DEF StoredItem
<1>3. \A x \in StoredItem : x.acquired.actor # 0
  BY <1>2, MeAssumption DEF Register
<1>4. \A x \in StoredItem : x \in HeldItem
  BY DEF StoredItem, HeldItem, Registers
<1>5. Absent \in HeldItem
  BY NoRows DEF Absent, HeldItem, Registers
<1> QED
  BY <1>1, <1>2, <1>3, <1>4, <1>5 DEF Items, HeldItem

\* Every item has all of itself and of an absent one.
LEMMA WithinReflexive ==
    ASSUME NEW x \in Items
    PROVE  Within(x, x) /\ Within(Absent, x)
<1>1. \A a \in Actor : Entry(x.p, a) \in Nat /\ Entry(x.n, a) \in Nat
  BY ItemParts, RowsType
<1>2. RegLeq(x.acquired, x.acquired) /\ RegLeq(Absent.acquired, x.acquired)
  BY ItemParts, RegisterOrder
<1> QED
  BY <1>1, <1>2, ItemParts, NoRows DEF Within

\* Item::merge loses nothing of the item that is merged into, and adds nothing to the
\* two.  (Of the other it may lose a write with the clock and actor of this one's.)
LEMMA MergeShape ==
    ASSUME NEW x \in Items, NEW y \in Items, NEW m, m = Merge(x, y)
    PROVE  /\ m \in Items
           /\ x # Absent \/ y # Absent => m \in StoredItem
           /\ Within(x, m)
           /\ m.acquired \in {x.acquired, y.acquired}
           /\ \A a \in Actor : /\ Entry(m.p, a) \in {Entry(x.p, a), Entry(y.p, a)}
                               /\ Entry(m.n, a) \in {Entry(x.n, a), Entry(y.n, a)}
<1>1. CASE x = Absent
  <2>1. m = y
    BY <1>1 DEF Merge
  <2> QED
    BY <1>1, <2>1, WithinReflexive DEF Items
<1>2. CASE x # Absent /\ y = Absent
  <2>1. m = x
    BY <1>2 DEF Merge
  <2> QED
    BY <1>2, <2>1, WithinReflexive DEF Items
<1>3. CASE x # Absent /\ y # Absent
  <2>1. m = [p |-> MergeRows(x.p, y.p), n |-> MergeRows(x.n, y.n),
             acquired |-> RegMerge(x.acquired, y.acquired)]
    BY <1>3 DEF Merge
  <2>2. /\ x \in StoredItem /\ y \in StoredItem
        /\ x.p \in Rows /\ x.n \in Rows /\ x.acquired \in Register
        /\ y.p \in Rows /\ y.n \in Rows /\ y.acquired \in Register
    BY <1>3, ItemParts DEF Items
  <2>3. /\ RegMerge(x.acquired, y.acquired) \in {x.acquired, y.acquired}
        /\ RegLeq(x.acquired, RegMerge(x.acquired, y.acquired))
    <3>1. x.acquired \in LWWReg /\ y.acquired \in LWWReg
      BY <2>2 DEF Register
    <3>2. \A r \in LWWReg : r.clock \in Nat /\ r.actor \in Nat
      BY ActorAssumption DEF LWWReg
    <3> QED
      BY <3>1, <3>2 DEF RegMerge, RegLeq, ShouldUpdate
  <2>4. /\ MergeRows(x.p, y.p) \in Rows /\ MergeRows(x.n, y.n) \in Rows
        /\ \A a \in Actor :
              /\ Entry(MergeRows(x.p, y.p), a) \in {Entry(x.p, a), Entry(y.p, a)}
              /\ Entry(MergeRows(x.n, y.n), a) \in {Entry(x.n, a), Entry(y.n, a)}
              /\ Entry(x.p, a) <= Entry(MergeRows(x.p, y.p), a)
              /\ Entry(x.n, a) <= Entry(MergeRows(x.n, y.n), a)
    BY <2>2, MergeRowsShape
  <2>5. m \in StoredItem
    BY <2>1, <2>2, <2>3, <2>4 DEF StoredItem
  <2>6. Within(x, m)
    BY <2>1, <2>3, <2>4 DEF Within
  <2> QED
    BY <2>1, <2>3, <2>4, <2>5, <2>6 DEF Items
<1> QED
  BY <1>1, <1>2, <1>3

\* Writing back what is not behind the database replaces it.
LEMMA WriteBackShape ==
    ASSUME NEW x \in Items, NEW y \in StoredItem, Within(x, y)
    PROVE  /\ WriteBack(x, y) \in StoredItem
           /\ WriteBack(x, y).acquired = y.acquired
           /\ \A a \in Actor : /\ Entry(WriteBack(x, y).p, a) = Entry(y.p, a)
                               /\ Entry(WriteBack(x, y).n, a) = Entry(y.n, a)
<1>1. /\ x.p \in Rows /\ x.n \in Rows
      /\ y.p \in Rows /\ y.n \in Rows /\ y.acquired \in Register
  BY ItemParts DEF Items
<1>2. /\ Upsert(x.p, y.p) \in Rows /\ Upsert(x.n, y.n) \in Rows
      /\ \A a \in Actor : /\ Entry(Upsert(x.p, y.p), a) = Entry(y.p, a)
                          /\ Entry(Upsert(x.n, y.n), a) = Entry(y.n, a)
  BY <1>1, UpsertShape DEF Within
<1> QED
  BY <1>1, <1>2 DEF WriteBack, StoredItem

\* The item an edit makes of a stored one.
LEMMA UpdatedShape ==
    ASSUME NEW x \in StoredItem, NEW c \in {Me, Other},
           NEW w \in Wanted, NEW y, y = Updated(x, w, c)
    PROVE  /\ y \in StoredItem
           /\ y.acquired = x.acquired \/ y.acquired.actor = c
           /\ \A a \in Actor \ {c} : /\ Entry(y.p, a) = Entry(x.p, a)
                                     /\ Entry(y.n, a) = Entry(x.n, a)
<1>1. /\ x.p \in Rows /\ x.n \in Rows /\ x.acquired \in Register
      /\ c \in Actor /\ w.quantity \in Nat /\ w.acquired \in {0, 1}
  BY ItemParts, MeAssumption DEF Items, Wanted
<1>2. y = [p |-> IF w.less \/ w.quantity = 0 THEN x.p ELSE Add(x.p, c, w.quantity),
           n |-> IF w.less /\ w.quantity > 0 THEN Add(x.n, c, w.quantity) ELSE x.n,
           acquired |-> IF w.acquired = x.acquired.val THEN x.acquired
                        ELSE [val |-> w.acquired, clock |-> x.acquired.clock + 1,
                              actor |-> c]]
  BY DEF Updated
<1>3. y.p \in {x.p, Add(x.p, c, w.quantity)} /\ y.n \in {x.n, Add(x.n, c, w.quantity)}
  BY <1>2
<1>4. /\ y.p \in Rows /\ y.n \in Rows
      /\ \A a \in Actor \ {c} : /\ Entry(y.p, a) = Entry(x.p, a)
                                /\ Entry(y.n, a) = Entry(x.n, a)
  BY <1>1, <1>3, AddShape
<1>5. x.acquired.clock \in Nat
  BY <1>1 DEF Register, LWWReg
<1>6. /\ y.acquired \in Register
      /\ y.acquired = x.acquired \/ y.acquired.actor = c
  BY <1>1, <1>2, <1>5 DEF Register, LWWReg
<1>7. y \in StoredItem
  BY <1>2, <1>4, <1>6 DEF StoredItem
<1> QED
  BY <1>4, <1>6, <1>7

\* An item that a user enters under a new name.
LEMMA NewShape ==
    ASSUME NEW c \in {Me, Other}, NEW quantity \in Nat, NEW acquired \in {0, 1}
    PROVE  /\ New(quantity, acquired, c) \in StoredItem
           /\ New(quantity, acquired, c).acquired.actor = c
           /\ \A a \in Actor \ {c} : /\ Entry(New(quantity, acquired, c).p, a) = 0
                                     /\ Entry(New(quantity, acquired, c).n, a) = 0
<1> DEFINE x == New(quantity, acquired, c)
<1>1. c \in Actor
  BY MeAssumption
<1>2. /\ x.p \in [{c} -> Nat] /\ x.n \in [{c} -> Nat]
      /\ x.acquired = [val |-> acquired, clock |-> 0, actor |-> c]
      /\ x = [p |-> x.p, n |-> x.n, acquired |-> x.acquired]
  BY DEF New
<1> HIDE DEF x
<1>3. x.p \in Rows /\ x.n \in Rows
  BY <1>1, <1>2, RowsType
<1>4. x.acquired \in Register /\ x.acquired.actor = c
  BY <1>1, <1>2 DEF Register, LWWReg
<1>5. x \in StoredItem
  BY <1>2, <1>3, <1>4 DEF StoredItem
<1>6. \A a \in Actor \ {c} : Entry(x.p, a) = 0 /\ Entry(x.n, a) = 0
  BY <1>2 DEF Entry
<1> QED
  BY <1>4, <1>5, <1>6 DEF x

\* An edit of an item, merged into it: only its author's own is changed.
LEMMA EditedItem ==
    ASSUME NEW x \in StoredItem, NEW c \in {Me, Other},
           NEW w \in Wanted, NEW m, m = Merge(x, Updated(x, w, c))
    PROVE  /\ m \in StoredItem /\ Within(x, m)
           /\ m.acquired = x.acquired \/ m.acquired.actor = c
           /\ \A a \in Actor \ {c} : /\ Entry(m.p, a) = Entry(x.p, a)
                                     /\ Entry(m.n, a) = Entry(x.n, a)
<1> DEFINE y == Updated(x, w, c)
<1>1. /\ y \in StoredItem
      /\ y.acquired = x.acquired \/ y.acquired.actor = c
      /\ \A a \in Actor \ {c} : /\ Entry(y.p, a) = Entry(x.p, a)
                                /\ Entry(y.n, a) = Entry(x.n, a)
  BY UpdatedShape
<1> HIDE DEF y
<1>2. x \in Items /\ y \in Items /\ x # Absent
  BY <1>1, ItemParts DEF Items
<1>3. /\ m \in StoredItem /\ Within(x, m)
      /\ m.acquired \in {x.acquired, y.acquired}
      /\ \A a \in Actor : /\ Entry(m.p, a) \in {Entry(x.p, a), Entry(y.p, a)}
                          /\ Entry(m.n, a) \in {Entry(x.n, a), Entry(y.n, a)}
  BY <1>2, MergeShape DEF y
<1> QED
  BY <1>1, <1>3

\* What is not ahead of an item is not ahead of one that has more, and a merge of two
\* items is no further ahead than they are.
LEMMA OwnedShape ==
    ASSUME NEW x \in Items, NEW y \in Items, NEW z \in Items
    PROVE  /\ Owned(x, x)
           /\ Owned(x, y) /\ Within(y, z) => Owned(x, z)
           /\ Owned(x, z) /\ Owned(y, z) => Owned(Merge(x, y), z)
<1>1. /\ Me \in Actor
      /\ \A i \in {x, y, z} : /\ i.acquired \in Registers
                              /\ Entry(i.p, Me) \in Nat /\ Entry(i.n, Me) \in Nat
  BY ItemParts, RowsType, MeAssumption
<1>2. RegLeq(x.acquired, x.acquired)
  BY <1>1, RegisterOrder
<1>3. RegLeq(x.acquired, y.acquired) /\ RegLeq(y.acquired, z.acquired)
         => RegLeq(x.acquired, z.acquired)
  BY <1>1, RegisterOrder
<1>4. Owned(x, x)
  BY <1>1, <1>2 DEF Owned
<1>5. Owned(x, y) /\ Within(y, z) => Owned(x, z)
  BY <1>1, <1>3 DEF Owned, Within
<1> DEFINE m == Merge(x, y)
<1>6. /\ m.acquired \in {x.acquired, y.acquired}
      /\ Entry(m.p, Me) \in {Entry(x.p, Me), Entry(y.p, Me)}
      /\ Entry(m.n, Me) \in {Entry(x.n, Me), Entry(y.n, Me)}
  BY <1>1, MergeShape
<1> HIDE DEF m
<1>7. Owned(x, z) /\ Owned(y, z) => Owned(m, z)
  BY <1>6 DEF Owned
<1> QED
  BY <1>4, <1>5, <1>7 DEF m

-----------------------------------------------------------------------------
(* The actions. *)

\* A session's step that reads, or only begins something.
LEMMA ReadStep ==
    ASSUME OneSession, SessionInv, NEW s \in Session,
           Edit(s) \/ ReadItem(s) \/ ReadP(s) \/ ReadN(s) \/ ReadList(s)
    PROVE  SessionInv'
<1>1. /\ db' = db /\ other' = other /\ cloud' = cloud
      /\ DOMAIN step = Session /\ held \in [Session -> HeldItem]
      /\ wanted \in [Session -> Wanted]
      /\ db \in Items
      /\ HeldIsStored(s)
      /\ \A t \in Session : t = s
  BY DEF Edit, ReadItem, ReadP, ReadN, ReadList, SessionInv, Types, OneSession
<1>2. db \in HeldItem /\ db.p \in Rows /\ db.n \in Rows /\ db.acquired \in Registers
  BY <1>1, ItemParts
<1>3. SUFFICES /\ held' \in [Session -> HeldItem] /\ HeldIsStored(s)'
               /\ wanted' \in [Session -> Wanted] /\ DOMAIN step' = Session
  <2>1. \A x \in cloud' \cup {other'} : Owned(x, db')
    BY <1>1 DEF SessionInv
  <2> QED
    BY <1>1, <1>3, <2>1 DEF SessionInv, Types
<1>4. CASE Edit(s)
  <2>1. PICK w \in Wishes : wanted' = [wanted EXCEPT ![s] = w]
    BY <1>4 DEF Edit
  <2>2. step'[s] = "read item" /\ held' = held /\ DOMAIN step' = Session
    BY <1>1, <1>4 DEF Edit, Goto
  <2>3. w \in Wanted
    BY QuantityAssumption DEF Wishes, Wanted
  <2> QED
    BY <1>1, <2>1, <2>2, <2>3 DEF HeldIsStored
<1>5. CASE ReadItem(s)
  <2>1. /\ held' = [held EXCEPT ![s].acquired = db.acquired]
        /\ wanted' = wanted /\ DOMAIN step' = Session
        /\ \/ db = Absent /\ step[s] = "read item" /\ step'[s] = "insert"
           \/ db # Absent /\ step'[s] = "read p"
    BY <1>1, <1>5 DEF ReadItem, Goto
  <2>2. held' \in [Session -> HeldItem] /\ held'[s].acquired = db.acquired
    BY <1>1, <1>2, <2>1 DEF HeldItem
  <2> QED
    BY <1>1, <2>1, <2>2 DEF HeldIsStored
<1>6. CASE ReadP(s)
  <2>1. /\ held' = [held EXCEPT ![s].p = db.p]
        /\ wanted' = wanted /\ DOMAIN step' = Session
        /\ step[s] = "read p" /\ step'[s] = "read n"
    BY <1>1, <1>6 DEF ReadP, Goto
  <2>2. /\ held' \in [Session -> HeldItem]
        /\ held'[s].p = db.p /\ held'[s].acquired = held[s].acquired
    BY <1>1, <1>2, <2>1 DEF HeldItem
  <2> QED
    BY <1>1, <2>1, <2>2 DEF HeldIsStored
<1>7. CASE ReadN(s)
  <2>1. /\ held' = [held EXCEPT ![s].n = db.n]
        /\ wanted' = wanted /\ DOMAIN step' = Session
        /\ step[s] = "read n" /\ step'[s] = "overwrite"
    BY <1>1, <1>7 DEF ReadN, Goto
  <2>2. /\ held' \in [Session -> HeldItem]
        /\ held'[s].n = db.n /\ held'[s].p = held[s].p
        /\ held'[s].acquired = held[s].acquired
    BY <1>1, <1>2, <2>1 DEF HeldItem
  <2>3. db # Absent /\ held'[s].p = db.p /\ held'[s].acquired = db.acquired
    BY <1>1, <2>1, <2>2 DEF HeldIsStored
  <2>4. held'[s] = db
    BY <1>2, <2>2, <2>3 DEF HeldItem
  <2> QED
    BY <1>1, <2>1, <2>2, <2>3, <2>4 DEF HeldIsStored
<1>8. CASE ReadList(s)
  <2>1. /\ held' = [held EXCEPT ![s] = db]
        /\ wanted' = wanted /\ DOMAIN step' = Session
        /\ step'[s] = "get"
    BY <1>1, <1>8 DEF ReadList, Goto
  <2> QED
    BY <1>1, <1>2, <2>1 DEF HeldIsStored
<1> QED
  BY <1>4, <1>5, <1>6, <1>7, <1>8

\* A session's step that writes the database: it only gets more.
LEMMA WriteStep ==
    ASSUME OneSession, SessionInv, NEW s \in Session,
           OverwriteItem(s) \/ WriteItem(s) \/ WriteList(s)
    PROVE  SessionInv'
<1>1. /\ other' = other /\ cloud' = cloud /\ held' = held /\ wanted' = wanted
      /\ DOMAIN step = Session
      /\ db \in Items /\ other \in Items /\ cloud \subseteq Items
      /\ wanted[s] \in Wanted
      /\ HeldIsStored(s)
      /\ \A t \in Session : t = s
  BY DEF OverwriteItem, WriteItem, WriteList, SessionInv, Types, OneSession
<1>2. step'[s] \in {"send", "idle"} /\ DOMAIN step' = Session
  BY <1>1 DEF OverwriteItem, WriteItem, WriteList, Goto
<1>3. HeldIsStored(s)'
  BY <1>2 DEF HeldIsStored
<1>4. SUFFICES db' \in Items /\ Within(db, db')
  <2>1. \A x \in cloud' \cup {other'} : Owned(x, db')
    BY <1>1, <1>4, OwnedShape DEF SessionInv
  <2> QED
    BY <1>1, <1>2, <1>3, <1>4, <2>1 DEF SessionInv, Types
<1>5. ASSUME NEW m \in StoredItem, Within(db, m), db' = WriteBack(db, m)
      PROVE  db' \in Items /\ Within(db, db')
  <2>1. /\ db' \in StoredItem
        /\ db'.acquired = m.acquired
        /\ \A a \in Actor : Entry(db'.p, a) = Entry(m.p, a) /\ Entry(db'.n, a) = Entry(m.n, a)
    BY <1>1, <1>5, WriteBackShape
  <2> QED
    BY <1>5, <2>1 DEF Within, Items
<1>6. CASE OverwriteItem(s)
  <2>1. PICK m : m = Merge(held[s], Updated(held[s], wanted[s], Me))
    OBVIOUS
  <2>2. db' = WriteBack(db, m)
    BY <1>6, <2>1 DEF OverwriteItem
  <2>3. held[s] = db /\ db # Absent
    BY <1>1, <1>6 DEF OverwriteItem, Goto, HeldIsStored
  <2>4. db \in StoredItem
    BY <1>1, <2>3 DEF Items
  <2>5. m \in StoredItem /\ Within(db, m)
    BY <1>1, <2>1, <2>3, <2>4, EditedItem
  <2> QED
    BY <1>5, <2>2, <2>5
<1>7. CASE WriteItem(s)
  <2>1. CASE db # Absent
    BY <1>1, <1>7, <2>1, WithinReflexive DEF WriteItem
  <2>2. CASE db = Absent
    <3>1. db' = New(wanted[s].quantity, wanted[s].acquired, Me)
      BY <1>7, <2>2 DEF WriteItem
    <3>2. db' \in StoredItem
      BY <1>1, <3>1, NewShape DEF Wanted
    <3> QED
      BY <2>2, <3>2, WithinReflexive DEF Items
  <2> QED
    BY <2>1, <2>2
<1>8. CASE WriteList(s)
  <2>1. CASE db' = db
    BY <1>1, <2>1, WithinReflexive
  <2>2. CASE held[s] # Absent /\ db' = WriteBack(db, held[s])
    <3>1. held[s] \in Items /\ Within(db, held[s])
      BY <1>1, <1>8 DEF WriteList, Goto, HeldIsStored
    <3>2. held[s] \in StoredItem
      BY <2>2, <3>1 DEF Items
    <3> QED
      BY <1>5, <2>2, <3>1, <3>2
  <2> QED
    BY <1>8, <2>1, <2>2 DEF WriteList
<1> QED
  BY <1>6, <1>7, <1>8

\* The other user's edit adds nothing to what is the sessions' own.
LEMMA OtherStep ==
    ASSUME OneSession, SessionInv, OtherEdits
    PROVE  SessionInv'
<1>1. /\ db' = db /\ step' = step /\ held' = held /\ wanted' = wanted
      /\ cloud' \subseteq cloud \cup {other'}
      /\ db \in Items /\ other \in Items /\ cloud \subseteq Items
      /\ \A x \in cloud \cup {other} : Owned(x, db)
  BY DEF OtherEdits, SessionInv, Types
<1>2. PICK x \in cloud, w \in Wishes :
         other' = IF Merge(other, x) = Absent THEN New(w.quantity, w.acquired, Other)
                  ELSE Merge(Merge(other, x), Updated(Merge(other, x), w, Other))
  BY DEF OtherEdits
<1>3. w \in Wanted /\ Other \in Actor /\ Me \in Actor \ {Other}
  BY QuantityAssumption, MeAssumption DEF Wishes, Wanted
<1>4. PICK item : item = Merge(other, x)
  OBVIOUS
<1>5. item \in Items /\ Owned(item, db)
  BY <1>1, <1>4, MergeShape, OwnedShape
<1>6. other' \in Items /\ Owned(other', db)
  <2>1. CASE item = Absent
    <3>1. other' = New(w.quantity, w.acquired, Other)
      BY <1>2, <1>4, <2>1
    <3>2. /\ other' \in StoredItem /\ other'.acquired.actor = Other
          /\ Entry(other'.p, Me) = 0 /\ Entry(other'.n, Me) = 0
      BY <1>3, <3>1, NewShape DEF Wanted
    <3>3. Entry(db.p, Me) \in Nat /\ Entry(db.n, Me) \in Nat
      BY <1>1, <1>3, ItemParts, RowsType
    <3> QED
      BY <1>3, <3>2, <3>3 DEF Owned, Items
  <2>2. CASE item # Absent
    <3>1. other' = Merge(item, Updated(item, w, Other)) /\ item \in StoredItem
      BY <1>2, <1>4, <1>5, <2>2 DEF Items
    <3>2. /\ other' \in StoredItem
          /\ other'.acquired = item.acquired \/ other'.acquired.actor = Other
          /\ Entry(other'.p, Me) = Entry(item.p, Me)
          /\ Entry(other'.n, Me) = Entry(item.n, Me)
      BY <1>3, <3>1, EditedItem
    <3> QED
      BY <1>3, <1>5, <3>2 DEF Owned, Items
  <2> QED
    BY <2>1, <2>2
<1>7. \A s \in Session : HeldIsStored(s)'
  BY <1>1 DEF SessionInv, HeldIsStored
<1>8. Types'
  BY <1>1, <1>6 DEF SessionInv, Types
<1> QED
  BY <1>1, <1>6, <1>7, <1>8 DEF SessionInv

\* The cluster gets what the session has stored, and what it answers is a merge of that.
LEMMA ClusterStep ==
    ASSUME OneSession, SessionInv, NEW s \in Session, SendList(s) \/ FetchList(s)
    PROVE  SessionInv'
<1>1. /\ db' = db /\ other' = other /\ wanted' = wanted
      /\ DOMAIN step = Session
      /\ held \in [Session -> HeldItem]
      /\ db \in Items /\ other \in Items /\ cloud \subseteq Items
      /\ \A x \in cloud \cup {other} : Owned(x, db)
      /\ HeldIsStored(s)
      /\ \A t \in Session : t = s
  BY DEF SendList, FetchList, SessionInv, Types, OneSession
<1>2. Owned(db, db)
  BY <1>1, OwnedShape
<1>3. DOMAIN step' = Session
  BY <1>1 DEF SendList, FetchList, Goto
<1>4. SUFFICES /\ cloud' \subseteq Items /\ \A x \in cloud' : Owned(x, db)
               /\ held' \in [Session -> HeldItem] /\ HeldIsStored(s)'
  BY <1>1, <1>3, <1>4 DEF SessionInv, Types
<1>5. CASE SendList(s)
  <2>1. step'[s] = "idle" /\ held' = held /\ cloud' \subseteq cloud \cup {db}
    BY <1>1, <1>5 DEF SendList, Goto
  <2> QED
    BY <1>1, <1>2, <2>1 DEF HeldIsStored
<1>6. CASE FetchList(s)
  <2>1. held[s] = db
    BY <1>1, <1>6 DEF FetchList, Goto, HeldIsStored
  <2>2. CASE step'[s] = "idle" /\ held' = held /\ cloud' \subseteq cloud \cup {db}
    BY <1>1, <1>2, <2>2 DEF HeldIsStored
  <2>3. ASSUME step'[s] = "write list", NEW x \in cloud,
               held' = [held EXCEPT ![s] = Merge(db, Merge(x, db))],
               cloud' = cloud \cup {db, Merge(x, db)}
        PROVE  /\ cloud' \subseteq Items /\ \A y \in cloud' : Owned(y, db)
               /\ held' \in [Session -> HeldItem] /\ HeldIsStored(s)'
    <3>1. PICK reply : reply = Merge(x, db)
      OBVIOUS
    <3>2. reply \in Items /\ Owned(reply, db)
      BY <1>1, <1>2, <3>1, MergeShape, OwnedShape
    <3>3. Merge(db, reply) \in Items /\ Within(db, Merge(db, reply))
      BY <1>1, <3>2, MergeShape
    <3>4. held'[s] = Merge(db, reply) /\ held' \in [Session -> HeldItem]
      BY <1>1, <2>3, <3>1, <3>3, ItemParts
    <3>5. HeldIsStored(s)'
      BY <1>1, <2>3, <3>3, <3>4 DEF HeldIsStored
    <3> QED
      BY <1>1, <1>2, <2>3, <3>1, <3>2, <3>4, <3>5
  <2> QED
    BY <1>1, <1>6, <2>1, <2>2, <2>3 DEF FetchList, Goto
<1> QED
  BY <1>5, <1>6

\* The invariant holds before anything is stored, and no step breaks it.
LEMMA SessionInductive == ASSUME OneSession PROVE Spec => []SessionInv
<1>1. Init => SessionInv
  <2> SUFFICES ASSUME Init PROVE SessionInv
    OBVIOUS
  <2>1. Absent \in Items /\ Absent \in HeldItem
    BY ItemParts DEF Items
  <2>2. Types
    BY <2>1 DEF Init, Types, Wanted
  <2>3. \A x \in cloud \cup {other} : Owned(x, db)
    BY <2>1, OwnedShape DEF Init
  <2>4. \A s \in Session : step[s] = "idle"
    BY DEF Init
  <2> QED
    BY <2>2, <2>3, <2>4 DEF SessionInv, HeldIsStored
<1>2. SessionInv /\ [Next]_vars => SessionInv'
  <2> SUFFICES ASSUME SessionInv, [Next]_vars
               PROVE  SessionInv'
    OBVIOUS
  <2>1. CASE Next
    BY <2>1, ReadStep, WriteStep, ClusterStep, OtherStep DEF Next
  <2>2. CASE UNCHANGED vars
    BY <2>2 DEF vars, SessionInv, Types, HeldIsStored
  <2> QED
    BY <2>1, <2>2
<1> QED
  BY <1>1, <1>2, PTL DEF Spec

-----------------------------------------------------------------------------
(* The theorem. *)

\* No copy in the cluster or with another user is ever ahead of the database in the
\* counts and register writes of the sessions' own client id, which is why the next
\* edit may build on the database alone; as long as one session is open under that id
\* (handle_item_storage_request, retrieve_list).
THEOREM SessionsOwnEditsAreStored == ASSUME OneSession PROVE Spec => []OwnEditsAreStored
<1>1. SessionInv => OwnEditsAreStored
  BY DEF SessionInv, Owned, OwnEditsAreStored
<1> QED
  BY <1>1, SessionInductive, PTL
=============================================================================

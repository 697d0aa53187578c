----------------------------- MODULE LocalStore -----------------------------
(***************************************************************************)
(* The local-first side of the system, for one shopping list: each client  *)
(* keeps the list in its own SQLite database (ClientStorage), edits it     *)
(* there first, and exchanges complete copies with the server cluster.     *)
(*                                                                         *)
(* The cluster is abstracted to the set of copies it was ever given or     *)
(* answered with: a fetch may return any of them, however old.  What the   *)
(* cluster can really answer (the join of several of these) is reached by  *)
(* several fetches.  Each client runs one session, and its commands are    *)
(* sequential: the screen shows the stored list when the user edits it.    *)
(***************************************************************************)
EXTENDS CRDT

CONSTANTS
    Name,           \* item names
    Quantity,       \* quantities a user types
    Limit,          \* UPPER_ITEM_COUNT_LIMIT: what a new item may have
    MaxEdits,       \* bound: how many edits each client makes
    Half            \* an i64 is in -Half .. Half - 1 (2^63 in the program)

ASSUME QuantityAssumption == Quantity \subseteq 1 .. 2 * Half - 1   \* a u64
ASSUME LimitAssumption == Limit \in 1 .. Half - 1
ASSUME BoundAssumption == MaxEdits \in Nat /\ Half \in Nat \ {0}

VARIABLES
    db,         \* awormap_items and the counter tables of each client
    listed,     \* the clients whose table local_lists holds the list
    cloud,      \* copies the server cluster was given or answered with
    seen        \* history: how many edits of each client a database contains

vars == <<db, listed, cloud, seen>>

\* The copy of the list that client c sends, with the edits it contains.
Copy(c) == [list |-> db[c], seen |-> seen[c]]

Copies == cloud \cup { Copy(c) : c \in Actor }

-----------------------------------------------------------------------------
(* Numbers of 64 bits.  `as` keeps the bits; so does i64 arithmetic in a  *)
(* release build, while an overflow panics in a debug build.               *)

I64 == -Half .. Half - 1

\* Mutant of AsU64: a saturating conversion instead of the cast.
AsU64Saturating(total) == IF total < 0 THEN 0 ELSE total

AsU64(total) == total % (2 * Half)

AsI64(quantity) == IF quantity >= Half THEN quantity - 2 * Half ELSE quantity

Wrapped(x) == AsI64(x % (2 * Half))

\* PNCounter::value_total, whose two sums are u64 and cast before they are subtracted.
Amount(item) == Wrapped(Wrapped(ValueTotal(item.p)) - Wrapped(ValueTotal(item.n)))

\* Some sum or difference on the way to the new quantity does not fit.
Overflows(item, quantity) ==
    LET p == ValueTotal(item.p)
        n == ValueTotal(item.n)
    IN  \/ p >= 2 * Half \/ n >= 2 * Half
        \/ AsI64(p) - AsI64(n) \notin I64
        \/ AsI64(quantity) - Amount(item) \notin I64 \ {-Half}

\* A count is stored as the i64 with its bits, and read_gcounter, which reads a u64,
\* fails on a negative one; one such count makes the whole list unreadable.
Readable(l) == \A n \in DOMAIN l, a \in Actor : l[n].p[a] < Half /\ l[n].n[a] < Half

-----------------------------------------------------------------------------
(* ClientStorage::handle_item_storage_request on an item already stored.   *)
(* Counts that were read are below Half, so inc_by does not wrap.          *)

\* Mutant of UpdatedItem: the counters keep the actor they were received with.
UpdatedItemOtherActor(stored, delta, acquired, c) ==
    LET a == stored.acquired.actor IN
    [p |-> IF delta > 0 THEN IncBy(stored.p, a, delta) ELSE stored.p,
     n |-> IF delta < 0 THEN IncBy(stored.n, a, -delta) ELSE stored.n,
     acquired |-> IF acquired = stored.acquired.val THEN stored.acquired
                  ELSE [val |-> acquired, clock |-> stored.acquired.clock + 1,
                        actor |-> c]]

UpdatedItem(stored, delta, acquired, c) ==
    [p |-> IF delta > 0 THEN IncBy(stored.p, c, delta) ELSE stored.p,
     n |-> IF delta < 0 THEN IncBy(stored.n, c, -delta) ELSE stored.n,
     acquired |-> IF acquired = stored.acquired.val THEN stored.acquired
                  ELSE [val |-> acquired, clock |-> stored.acquired.clock + 1,
                        actor |-> c]]

StoreItem(c, name, item) ==
    db' = [db EXCEPT ![c] =
              [n \in DOMAIN db[c] \cup {name} |->
                  IF n = name THEN item ELSE db[c][n]]]

HandleItemStorageRequest(c, name, quantity, acquired) ==
    /\ listed' = listed \cup {c}
    /\ \/ /\ name \notin DOMAIN db[c]
          /\ StoreItem(c, name, NewItem(quantity, acquired, c))
       \/ /\ name \in DOMAIN db[c]
          /\ LET delta == Wrapped(AsI64(quantity) - Amount(db[c][name])) IN
             StoreItem(c, name, ItemMerge(db[c][name],
                                    UpdatedItem(db[c][name], delta, acquired, c)))

-----------------------------------------------------------------------------
(* Client::send_item_storage_request: the edit is stored, then the whole   *)
(* list is read back, if it can be, and sent; the PUT may not get through. *)

SendItemStorageRequest(c, name, quantity, acquired) ==
    /\ Readable(db[c])         \* the list is on the screen
    /\ seen[c][c] < MaxEdits
    /\ HandleItemStorageRequest(c, name, quantity, acquired)
    /\ seen' = [seen EXCEPT ![c][c] = @ + 1]
    /\ \/ /\ Readable(db'[c])
          /\ cloud' = cloud \cup {[list |-> db'[c], seen |-> seen'[c]]}
       \/ UNCHANGED cloud

\* "a" in a list: a new item, or a new quantity under a name in use.
AddItem(c) == \E name \in Name, quantity \in Quantity \cap 1 .. Limit :
    SendItemStorageRequest(c, name, quantity, 0)

\* "a<nr>" on an item: the flag sent along is the one on the screen.
ChangeAmount(c) == \E name \in DOMAIN db[c], quantity \in Quantity :
    SendItemStorageRequest(c, name, quantity, db[c][name].acquired.val)

\* "d" on an item: the quantity sent along is the one on the screen.
ToggleAcquired(c) == \E name \in DOMAIN db[c] :
    SendItemStorageRequest(c, name, AsU64(Amount(db[c][name])),
                           1 - db[c][name].acquired.val)

\* In a debug build an edit that overflows panics, with the list entered in
\* local_lists and the item as it was.
EditPanics(c) == \E name \in DOMAIN db[c], quantity \in Quantity :
    /\ Readable(db[c])
    /\ Overflows(db[c][name], quantity)
    /\ listed' = listed \cup {c}
    /\ UNCHANGED <<db, cloud, seen>>

-----------------------------------------------------------------------------
(* Client::retrieve_list, with the GET answered from a copy the cluster    *)
(* holds: the coordinator merges it with the list in the request, and the  *)
(* client merges the answer twice (fetch_list, then retrieve_list).        *)

SeenMax(s, t) == [a \in Actor |-> IF s[a] >= t[a] THEN s[a] ELSE t[a]]

\* Mutant of RetrieveList: the cluster's copy replaces the local one.
RetrieveListReplaces(c) ==
    /\ Readable(db[c])
    /\ \E s \in cloud \cup {Copy(c)} :
          /\ db' = [db EXCEPT ![c] = s.list]
          /\ seen' = [seen EXCEPT ![c] = s.seen]
          /\ cloud' = cloud \cup {Copy(c)}
          /\ UNCHANGED listed

RetrieveList(c) ==
    /\ Readable(db[c])
    /\ \E s \in cloud \cup {Copy(c)} :
          LET reply == MapMerge(s.list, db[c])
              remote == MapMerge(db[c], reply)
          IN  /\ db' = [db EXCEPT ![c] = MapMerge(db[c], remote)]
              /\ seen' = [seen EXCEPT ![c] = SeenMax(@, s.seen)]
              /\ cloud' = cloud \cup
                     {Copy(c), [list |-> reply, seen |-> SeenMax(s.seen, seen[c])]}
              /\ UNCHANGED listed

\* The GET reaches the cluster, which keeps the list in it, but its answer
\* does not reach the client in time: the screen shows the local list.
RetrieveListTimeout(c) ==
    /\ Readable(db[c])
    /\ cloud' = cloud \cup {Copy(c)}
    /\ UNCHANGED <<db, listed, seen>>

\* The local list cannot be read, now or later: nothing is sent or shown.
RetrieveListError(c) == ~ Readable(db[c]) /\ UNCHANGED vars

-----------------------------------------------------------------------------
Init ==
    /\ db = [c \in Actor |-> EmptyMap]
    /\ listed = {}
    /\ cloud = {}
    /\ seen = [c \in Actor |-> [a \in Actor |-> 0]]

Next == \E c \in Actor :
    \/ AddItem(c)
    \/ ChangeAmount(c)
    \/ ToggleAcquired(c)
    \/ EditPanics(c)
    \/ RetrieveList(c)
    \/ RetrieveListTimeout(c)
    \/ RetrieveListError(c)

Spec == Init /\ [][Next]_vars

-----------------------------------------------------------------------------
(* Properties. *)

\* Every database and every copy holds a well-formed list and knows how many
\* edits of each client it contains.
TypeOK ==
    /\ DOMAIN db = Actor /\ \A c \in Actor : IsAWORMap(db[c], Name)
    /\ listed \subseteq Actor
    /\ seen \in [Actor -> [Actor -> Nat]]
    /\ \A x \in cloud : /\ IsAWORMap(x.list, Name)
                        /\ x.seen \in [Actor -> Nat]

\* A client's own entry in a counter is nowhere ahead of its own database, and
\* nobody holds a register write of a client that is newer than the client's
\* own register.  This is what lets IncBy add to the local entry, and clock + 1
\* name a new write, without looking at any other replica.
OwnDominates(x) ==
    \A n \in DOMAIN x.list, c \in Actor :
        /\ n \notin DOMAIN db[c] =>
              /\ x.list[n].p[c] = 0
              /\ x.list[n].n[c] = 0
              /\ x.list[n].acquired.actor # c
        /\ n \in DOMAIN db[c] =>
              /\ x.list[n].p[c] <= db[c][n].p[c]
              /\ x.list[n].n[c] <= db[c][n].n[c]
              /\ x.list[n].acquired.actor = c =>
                    RegLeq(x.list[n].acquired, db[c][n].acquired)

OwnEntriesDominate == \A x \in Copies : OwnDominates(x)

\* Two copies that hold a register write with the same clock and actor hold
\* the same value for it: the condition under which merges commute.
WritesAreUnique == \A x, y \in Copies : MapAgree(x.list, y.list)

\* Strong convergence: two copies that contain the same edits are equal,
\* whatever way the edits travelled.
SameEditsSameList == \A x, y \in Copies : x.seen = y.seen => x.list = y.list

\* No step of a client, a fetch of an old copy included, takes anything back
\* from its database.
DatabasesGrow == [][\A c \in Actor : MapLeq(db[c], db'[c])]_vars

\* After an edit the screen shows what the user typed, and a toggled flag leaves the
\* total as it was, if the list can be read at all then: although quantities go through
\* u64 and i64, wrap around at either end, are recorded as differences in the author's
\* entries, and the total of what two clients took away may be below zero
\* (handle_item_storage_request, value_total, from_crdt).
EditsMeanWhatTheySay ==
    [][ \A c \in Actor, n \in Name : Readable(db'[c]) =>
          /\ \A quantity \in Quantity, acquired \in {0, 1} :
                SendItemStorageRequest(c, n, quantity, acquired) =>
                    /\ AsU64(Amount(db'[c][n])) = quantity
                    /\ db'[c][n].acquired.val = acquired
          /\ \A acquired \in {0, 1} :
                n \in DOMAIN db[c]
                /\ SendItemStorageRequest(c, n, AsU64(Amount(db[c][n])), acquired) =>
                    /\ Amount(db'[c][n]) = Amount(db[c][n])
                    /\ db'[c][n].acquired.val = acquired ]_vars
=============================================================================

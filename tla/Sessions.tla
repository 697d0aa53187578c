------------------------------ MODULE Sessions ------------------------------
(***************************************************************************)
(* Sessions of one user on one item of one list.  ClientStorage reads an   *)
(* item in several statements and writes it back in a transaction of its   *)
(* own, as absolute values; a refresh reads the list, waits for the        *)
(* cluster and writes the merged list, as absolute values too.  Sessions   *)
(* opened under the same name share the database and the client id.        *)
(*                                                                         *)
(* A counter has entries for the actors that have rows in                  *)
(* gcounter_actor_values: what is written back leaves other rows alone.    *)
(* The cluster is the set of copies it was given or answered with, any of  *)
(* which it may answer with.                                               *)
(***************************************************************************)
EXTENDS CRDT

CONSTANTS
    Session,
    Me, Other,      \* the client id of the sessions, and another user's
    Quantity,       \* quantities, and differences between two of them
    MaxEdits        \* bound: edits of the sessions, and of the other user

\* 0 is the nil Uuid, which no client is given.
ASSUME MeAssumption == Me \in Actor \ {0} /\ Other \in Actor \ {Me, 0}
ASSUME QuantityAssumption == Quantity \subseteq Nat
ASSUME BoundAssumption == MaxEdits \in Nat

VARIABLES
    db,         \* the item in the sessions' database
    other,      \* the item in the other user's database
    cloud,      \* the copies the cluster was given or answered with
    step,       \* what each session does next
    held,       \* what it has read
    wanted,     \* the quantity and flag of its edit
    edits       \* how many edits the sessions and the other user have begun

vars == <<db, other, cloud, step, held, wanted, edits>>

-----------------------------------------------------------------------------
(* Items with counters as rows. *)

Absent == [p |-> <<>>, n |-> <<>>, acquired |-> [val |-> 0, clock |-> 0, actor |-> 0]]

Entry(g, a) == IF a \in DOMAIN g THEN g[a] ELSE 0

MergeRows(g, h) ==
    [a \in DOMAIN g \cup DOMAIN h |-> Max({Entry(g, a), Entry(h, a)})]

Upsert(rows, g) ==
    [a \in DOMAIN rows \cup DOMAIN g |-> IF a \in DOMAIN g THEN g[a] ELSE rows[a]]

Add(g, actor, n) == [a \in DOMAIN g \cup {actor} |->
                        IF a = actor THEN Entry(g, a) + n ELSE g[a]]

New(quantity, acquired, client) ==
    [p |-> [a \in {client} |-> quantity], n |-> [a \in {client} |-> 0],
     acquired |-> [val |-> acquired, clock |-> 0, actor |-> client]]

Merge(x, y) ==
    IF x = Absent THEN y ELSE IF y = Absent THEN x
    ELSE [p |-> MergeRows(x.p, y.p), n |-> MergeRows(x.n, y.n),
          acquired |-> RegMerge(x.acquired, y.acquired)]

\* overwrite_item and the rows of write_shopping_list: what is held replaces the
\* register and the counts it has.
WriteBack(stored, item) ==
    [p |-> Upsert(stored.p, item.p), n |-> Upsert(stored.n, item.n),
     acquired |-> item.acquired]

\* What a user may ask for: a quantity, if the item is new, or else one that is more or
\* less than what is stored by any amount, and either flag.  What is sent along of an
\* item is what the screen shows, which is the merged list even if storing it failed.
Wishes == [quantity : Quantity, less : BOOLEAN, acquired : {0, 1}]

Updated(item, w, client) ==
    [p |-> IF w.less \/ w.quantity = 0 THEN item.p ELSE Add(item.p, client, w.quantity),
     n |-> IF w.less /\ w.quantity > 0 THEN Add(item.n, client, w.quantity) ELSE item.n,
     acquired |-> IF w.acquired = item.acquired.val THEN item.acquired
                  ELSE [val |-> w.acquired, clock |-> item.acquired.clock + 1,
                        actor |-> client]]

-----------------------------------------------------------------------------
(* An edit: handle_item_storage_request, read_shopping_list and send_list. *)

Goto(s, from, to) == step[s] = from /\ step' = [step EXCEPT ![s] = to]

Edit(s) ==
    /\ Goto(s, "idle", "read item")
    /\ edits[Me] < MaxEdits
    /\ edits' = [edits EXCEPT ![Me] = @ + 1]
    /\ \E w \in Wishes : wanted' = [wanted EXCEPT ![s] = w]
    /\ UNCHANGED <<db, other, cloud, held>>

ReadItem(s) ==
    /\ \/ db = Absent /\ Goto(s, "read item", "insert")
       \/ db # Absent /\ Goto(s, "read item", "read p")
    /\ held' = [held EXCEPT ![s].acquired = db.acquired]
    /\ UNCHANGED <<db, other, cloud, wanted, edits>>

ReadP(s) ==
    /\ Goto(s, "read p", "read n")
    /\ held' = [held EXCEPT ![s].p = db.p]
    /\ UNCHANGED <<db, other, cloud, wanted, edits>>

ReadN(s) ==
    /\ Goto(s, "read n", "overwrite")
    /\ held' = [held EXCEPT ![s].n = db.n]
    /\ UNCHANGED <<db, other, cloud, wanted, edits>>

OverwriteItem(s) ==
    /\ Goto(s, "overwrite", "send")
    /\ db' = WriteBack(db, Merge(held[s], Updated(held[s], wanted[s], Me)))
    /\ UNCHANGED <<other, cloud, held, wanted, edits>>

\* The insertion fails if the list has an item of this name by now.
WriteItem(s) ==
    /\ \/ db = Absent /\ Goto(s, "insert", "send")
       \/ db # Absent /\ Goto(s, "insert", "idle")
    /\ db' = IF db = Absent THEN New(wanted[s].quantity, wanted[s].acquired, Me) ELSE db
    /\ UNCHANGED <<other, cloud, held, wanted, edits>>

\* The PUT may not get through.  Servers replace the row they have by what it brings
\* (storage.rs:630), and which copy the cluster answers with later is left open.
SendList(s) ==
    /\ Goto(s, "send", "idle")
    /\ cloud' \in {cloud, cloud \cup {db}}
    /\ UNCHANGED <<db, other, held, wanted, edits>>

-----------------------------------------------------------------------------
(* A refresh: retrieve_list. *)

ReadList(s) ==
    /\ Goto(s, "idle", "get")
    /\ held' = [held EXCEPT ![s] = db]
    /\ UNCHANGED <<db, other, cloud, wanted, edits>>

\* Mutant of FetchList: the answer is not merged with what was sent.
FetchOnly(s) ==
    /\ \/ /\ Goto(s, "get", "write list")
          /\ \E x \in cloud : held' = [held EXCEPT ![s] = x]
          /\ cloud' = cloud \cup {held[s]}
       \/ /\ Goto(s, "get", "idle")
          /\ cloud' \in {cloud, cloud \cup {held[s]}}
          /\ UNCHANGED held
    /\ UNCHANGED <<db, other, wanted, edits>>

\* The coordinator merges a copy with the list that was sent, and the client what it
\* sent with the answer; with a Nack or none, nothing is written, and the cluster
\* may have the list or not.
FetchList(s) ==
    /\ \/ /\ Goto(s, "get", "write list")
          /\ \E x \in cloud :
                LET reply == Merge(x, held[s]) IN
                /\ held' = [held EXCEPT ![s] = Merge(@, reply)]
                /\ cloud' = cloud \cup {held[s], reply}
       \/ /\ Goto(s, "get", "idle")
          /\ cloud' \in {cloud, cloud \cup {held[s]}}
          /\ UNCHANGED held
    /\ UNCHANGED <<db, other, wanted, edits>>

\* write_shopping_list, whose failure is ignored.
WriteList(s) ==
    /\ Goto(s, "write list", "idle")
    /\ db' \in {db} \cup (IF held[s] = Absent THEN {} ELSE {WriteBack(db, held[s])})
    /\ UNCHANGED <<other, cloud, held, wanted, edits>>

-----------------------------------------------------------------------------
\* The other user refreshes, edits and sends.
OtherEdits ==
    /\ edits[Other] < MaxEdits
    /\ edits' = [edits EXCEPT ![Other] = @ + 1]
    /\ \E x \in cloud, w \in Wishes :
          LET item == Merge(other, x) IN
          other' = IF item = Absent THEN New(w.quantity, w.acquired, Other)
                   ELSE Merge(item, Updated(item, w, Other))
    /\ cloud' \in {cloud, cloud \cup {other'}}
    /\ UNCHANGED <<db, step, held, wanted>>

Init ==
    /\ db = Absent
    /\ other = Absent
    /\ cloud = {Absent}
    /\ step = [s \in Session |-> "idle"]
    /\ held = [s \in Session |-> Absent]
    /\ wanted = [s \in Session |-> [quantity |-> 0, less |-> FALSE, acquired |-> 0]]
    /\ edits = [a \in {Me, Other} |-> 0]

Next == \/ \E s \in Session :
              \/ Edit(s) \/ ReadItem(s) \/ ReadP(s) \/ ReadN(s)
              \/ OverwriteItem(s) \/ WriteItem(s) \/ SendList(s)
              \/ ReadList(s) \/ FetchList(s) \/ WriteList(s)
        \/ OtherEdits

Spec == Init /\ [][Next]_vars

-----------------------------------------------------------------------------
(* Properties. *)

\* No copy is ahead of the database about the sessions' own edits, although the
\* database is read in several statements and written as absolute values, also after
\* the answer of the cluster, however old, to what was read before it was asked
\* (handle_item_storage_request, retrieve_list): the next edit may build on the
\* database alone.
OwnEditsAreStored ==
    \A x \in cloud \cup {other} :
        /\ Entry(x.p, Me) <= Entry(db.p, Me)
        /\ Entry(x.n, Me) <= Entry(db.n, Me)
        /\ x.acquired.actor = Me => RegLeq(x.acquired, db.acquired)
=============================================================================

-------------------------------- MODULE CRDT --------------------------------
(***************************************************************************)
(* The replicated data types of src/src/crdt.rs as pure operators: the     *)
(* grow-only counter, the PN-counter that holds an item's quantity, the    *)
(* last-writer-wins register that holds its acquired flag, the item, and   *)
(* the map from item names to items that is a shopping list.               *)
(*                                                                         *)
(* A HashMap<Uuid, u64> that has no entry for an actor is read as 0        *)
(* everywhere (unwrap_or(&0)), so a counter is a total function on Actor.  *)
(* The field actor_id of a counter is the actor argument of IncBy: every   *)
(* counter that is ever incremented was built by ClientStorage, which sets *)
(* actor_id to the client's own id (storage.rs:253-256).                   *)
(***************************************************************************)
EXTENDS Integers, FiniteSets, FiniteSetsExt

CONSTANT Actor      \* client identifiers; ordered, as Uuid is

ASSUME ActorAssumption == Actor \subseteq Nat /\ IsFiniteSet(Actor)

-----------------------------------------------------------------------------
(* Counters. *)

GCounter == [Actor -> Nat]

WithCount(actor, count) == [a \in Actor |-> IF a = actor THEN count ELSE 0]

IncBy(g, actor, n) == [g EXCEPT ![actor] = @ + n]

ValueTotal(g) == MapThenSumSet(LAMBDA a : g[a], Actor)

GMergeSums(g, h) == [a \in Actor |-> g[a] + h[a]]     \* mutant of GMerge

GMerge(g, h) == [a \in Actor |-> IF g[a] >= h[a] THEN g[a] ELSE h[a]]

GLeq(g, h) == \A a \in Actor : g[a] <= h[a]

-----------------------------------------------------------------------------
(* The register. should_update compares clocks and breaks ties by actor.   *)

LWWReg == [val : {0, 1}, clock : Nat, actor : Actor]

ShouldUpdateNoTieBreak(r, clock, actor) == clock > r.clock  \* mutant

ShouldUpdate(r, clock, actor) ==
    \/ clock > r.clock
    \/ clock = r.clock /\ actor > r.actor

RegMergeKeepsClock(r, s) ==      \* mutant of RegMerge
    IF ShouldUpdate(r, s.clock, s.actor) THEN [r EXCEPT !.val = s.val] ELSE r

RegMerge(r, s) == IF ShouldUpdate(r, s.clock, s.actor) THEN s ELSE r

\* The order on writes that RegMerge is to take the maximum of.
RegLeq(r, s) == \/ r = s
                \/ r.clock < s.clock
                \/ r.clock = s.clock /\ r.actor < s.actor

\* Two registers that do not disagree about the write <<clock, actor>>. Only
\* for such registers is RegMerge commutative.
RegAgree(r, s) == r.clock = s.clock /\ r.actor = s.actor => r.val = s.val

-----------------------------------------------------------------------------
(* Items and lists. *)

Item == [p : GCounter, n : GCounter, acquired : LWWReg]

NewItemNilActor(quantity, acquired, client) ==      \* mutant of NewItem
    [p |-> WithCount(client, quantity),
     n |-> WithCount(client, 0),
     acquired |-> [val |-> acquired, clock |-> 0, actor |-> 0]]

NewItem(quantity, acquired, client) ==
    [p |-> WithCount(client, quantity),
     n |-> WithCount(client, 0),
     acquired |-> [val |-> acquired, clock |-> 0, actor |-> client]]

ItemMerge(x, y) == [p |-> GMerge(x.p, y.p),
                    n |-> GMerge(x.n, y.n),
                    acquired |-> RegMerge(x.acquired, y.acquired)]

ItemLeq(x, y) == /\ GLeq(x.p, y.p)
                 /\ GLeq(x.n, y.n)
                 /\ RegLeq(x.acquired, y.acquired)

\* The values an AWORMap takes, for names drawn from Name.
IsAWORMap(m, Name) == DOMAIN m \subseteq Name /\ m \in [DOMAIN m -> Item]

EmptyMap == [n \in {} |-> 0]

MapMerge(l, m) ==
    [n \in DOMAIN l \cup DOMAIN m |->
        IF n \notin DOMAIN l THEN m[n]
        ELSE IF n \notin DOMAIN m THEN l[n]
        ELSE ItemMerge(l[n], m[n])]

MapLeq(l, m) == /\ DOMAIN l \subseteq DOMAIN m
                /\ \A n \in DOMAIN l : ItemLeq(l[n], m[n])

\* Two lists that do not disagree about any register write.
MapAgree(l, m) == \A n \in DOMAIN l \cap DOMAIN m :
                      RegAgree(l[n].acquired, m[n].acquired)
=============================================================================

------------------------------ MODULE RingWalk ------------------------------
(***************************************************************************)
(* A coordinator looks for a peer to stand in for a replica it cannot      *)
(* reach (get_next_available_node), step by step, while gossips add peers  *)
(* first to its hash ring and later to its membership table.               *)
(***************************************************************************)
EXTENDS HashRing

CONSTANTS
    Node, Self,
    Replicas,       \* REPLICAS
    Arrangements,   \* functions from nodes to the sets of their positions
    ListHashes,     \* the hashes the list may have
    MaxGossips      \* bound: gossip handlers at a time

ASSUME SelfAssumption == Self \in Node
ASSUME BoundAssumption == MaxGossips \in Nat

VARIABLES
    place,      \* the positions of each node
    list,       \* the hash of the list
    ring,       \* the coordinator's ring
    member,     \* the nodes it has an address of
    gossips,    \* what gossip handlers have added to the ring only
    walk        \* where the walk started and is, and how it ended

vars == <<place, list, ring, member, gossips, walk>>

Members == { ring[h] : h \in DOMAIN ring }

Prefs == PreferenceList(ring, list, Replicas)

Resting == [state |-> "resting"]

Walking(start, at) == [state |-> "walking", start |-> start, at |-> at]

Ended(found) == [state |-> "ended", found |-> found]

-----------------------------------------------------------------------------
\* Mutant of AddNodes: the ring is left as it is.
AddNoNodes(S) ==
    /\ ~(S \subseteq member) /\ S \notin gossips
    /\ Cardinality(gossips) < MaxGossips
    /\ gossips' = gossips \cup {S}
    /\ UNCHANGED <<place, list, ring, member, walk>>

\* Gossip: add_nodes for the whole table, and later the new entries at once; a
\* table without new entries changes nothing.
AddNodes(S) ==
    /\ ~(S \subseteq member) /\ S \notin gossips
    /\ Cardinality(gossips) < MaxGossips
    /\ ring' = [h \in DOMAIN ring \cup UNION { place[n] : n \in S } |->
                   CHOOSE n \in S \cup Members : h \in place[n]]
    /\ gossips' = gossips \cup {S}
    /\ UNCHANGED <<place, list, member, walk>>

\* Mutant of InsertEntries: the filter keeps the entries that are not new.
InsertOldEntries ==
    /\ \E S \in gossips :
          /\ member' = member \cup (S \cap member)
          /\ gossips' = gossips \ {S}
    /\ UNCHANGED <<place, list, ring, walk>>

InsertEntries ==
    /\ \E S \in gossips :
          /\ member' = member \cup S
          /\ gossips' = gossips \ {S}
    /\ UNCHANGED <<place, list, ring, walk>>

\* send_replicate: a replica cannot be sent to; the last one is the start.
StartWalk ==
    /\ walk = Resting
    /\ Head(Prefs) = Self
    /\ \E i \in 2 .. Len(Prefs) : Prefs[i] \notin member
    /\ walk' = Walking(Last(Prefs), Last(Prefs))
    /\ UNCHANGED <<place, list, ring, member, gossips>>

\* One turn of the loop; is_peer_available is that a node has an address.
Step ==
    /\ walk.state = "walking"
    /\ \E next \in NextNodes(ring, walk.at) :
          walk' = IF next \in member \/ next = walk.start THEN Ended({next} \cap member)
                  ELSE Walking(walk.start, next)
    /\ UNCHANGED <<place, list, ring, member, gossips>>

Init ==
    /\ place \in Arrangements
    /\ list \in ListHashes
    /\ ring = AddNode(<<>>, Self, place[Self]) /\ member = {Self}
    /\ gossips = {}
    /\ walk = Resting

Next == \/ \E S \in SUBSET Node : AddNodes(S)
        \/ InsertEntries \/ StartWalk \/ Step

Spec == Init /\ [][Next]_vars

\* The walk goes on, and gossip handlers end.
FairSpec == Spec /\ WF_vars(Step) /\ WF_vars(InsertEntries)

-----------------------------------------------------------------------------
(* Properties. *)

TypeOK == /\ list \in ListHashes
          /\ Self \in member /\ member \subseteq Members /\ Members \subseteq Node
          /\ \A S \in gossips : S \subseteq Members
          /\ \/ walk = Resting
             \/ walk \in { Walking(s, n) : s, n \in Members }
             \/ walk \in { Ended(S) : S \in SUBSET member }

\* A walk ends, although it may go around in a part of the ring that has neither
\* its start nor, for the time being, a node with an address.
WalkEnds == (walk.state = "walking") ~> (walk.state = "ended")
=============================================================================

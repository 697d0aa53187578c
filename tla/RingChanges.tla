---------------------------- MODULE RingChanges ----------------------------
(***************************************************************************)
(* The hash ring of one peer, Self, while gossips name other peers and     *)
(* while it is told to leave: what happens to the preference list that the *)
(* peer gets for a list.  What other peers' rings hold is the subject of   *)
(* Membership.  The list's hash and the positions of the nodes are chosen  *)
(* at the start; positions are even numbers, the list's hash odd.          *)
(***************************************************************************)
EXTENDS HashRing

CONSTANTS
    Node, Self,
    Replicas,       \* REPLICAS
    Arrangements,   \* functions from nodes to the sets of their positions
    ListHashes      \* the hashes the list may have

ASSUME SelfAssumption == Self \in Node
ASSUME ReplicasAssumption == Replicas \in Nat \ {0}
\* Every node has positions, and no two nodes have one in common.
ASSUME ArrangementsAssumption ==
    \A p \in Arrangements :
        /\ p \in [Node -> SUBSET Nat]
        /\ \A n \in Node : IsFiniteSet(p[n]) /\ p[n] # {}
        /\ \A n, m \in Node : n # m => p[n] \cap p[m] = {}
ASSUME ListHashesAssumption == ListHashes \subseteq Nat

VARIABLES
    place,      \* the positions of each node
    list,       \* the hash of the list
    ring        \* the ring of Self: positions to nodes

vars == <<place, list, ring>>

Members == { ring[h] : h \in DOMAIN ring }

GetPreferenceList(nodes) == PreferenceList(nodes, list, Replicas)

-----------------------------------------------------------------------------
\* One turn of the loop of add_nodes: a gossip names a node.  A node that is in
\* the ring already has its positions; Self itself comes back this way after it
\* has left, as the tables that are gossiped never forget a peer.
Enter(n) ==
    /\ n \notin Members
    /\ ring' = AddNode(ring, n, place[n])
    /\ UNCHANGED <<place, list>>

\* The peer is told to leave: it removes itself from its own ring, and from no
\* other's.  (Where it then sends its rows is not modelled.)
Leave ==
    /\ Self \in Members
    /\ ring' = RemoveNode(ring, place[Self])
    /\ UNCHANGED <<place, list>>

Init ==
    /\ place \in Arrangements
    /\ list \in ListHashes
    /\ ring = AddNode(<<>>, Self, place[Self])

Next == Leave \/ \E n \in Node : Enter(n)

Spec == Init /\ [][Next]_vars

-----------------------------------------------------------------------------
(* Properties. *)

\* The ring has the positions of its members and no others, each with its owner
\* (add_node, remove_node).
TypeOK == /\ list \in ListHashes
          /\ Members \subseteq Node
          /\ DOMAIN ring = UNION { place[n] : n \in Members }
          /\ \A n \in Members : \A h \in place[n] : ring[h] = n

\* How far node n is from the list, going around from the list's hash.
Distance(n) ==
    Min({ IF h >= list THEN h - list ELSE h + 1 + Max(DOMAIN ring) :
             h \in Vnodes(ring, n) })

\* The preference list has as many of the members as there are replicas, those
\* nearest to the list, each once, in the order they are met going around
\* (get_preference_list: "Only add distinct physical nodes").
PreferenceListIsNearest ==
    LET prefs == GetPreferenceList(ring) IN
    /\ Len(prefs) = IF Cardinality(Members) < Replicas THEN Cardinality(Members)
                    ELSE Replicas
    /\ \A i, j \in DOMAIN prefs : i < j => Distance(prefs[i]) < Distance(prefs[j])
    /\ \A n \in Members \ ToSet(prefs), i \in DOMAIN prefs :
          Distance(prefs[i]) < Distance(n)

\* Sequence t is s, or s with n put in somewhere and perhaps the end cut off.
Inserted(n, s, t) ==
    \/ t = s
    \/ /\ Len(t) \in {Len(s), Len(s) + 1}
       /\ \E k \in DOMAIN t : /\ t[k] = n
                              /\ \A i \in DOMAIN t : i < k => t[i] = s[i]
                              /\ \A i \in DOMAIN t : i > k => t[i] = s[i - 1]

\* A node that enters is put in the preference list somewhere, if at all, and the
\* peer that leaves is taken out, and nothing else changes: the list stays where it
\* is on all other nodes, and in particular a coordinator remains one in every
\* smaller ring that it is in (add_node, remove_node).
PreferenceListIsStable ==
    [][ /\ \A n \in Node :
             Enter(n) => Inserted(n, GetPreferenceList(ring), GetPreferenceList(ring'))
        /\ Leave => Inserted(Self, GetPreferenceList(ring'), GetPreferenceList(ring))
      ]_vars
=============================================================================

------------------------------ MODULE HashRing ------------------------------
(***************************************************************************)
(* The consistent hash ring of src/src/hash_ring.rs as pure operators. A   *)
(* ring, nodes, maps positions to nodes: BTreeMap<u128, Uuid>, with a few  *)
(* positive numbers for the 128-bit hashes.                                *)
(***************************************************************************)
EXTENDS Naturals, FiniteSets, SequencesExt

\* The order of a BTreeMap.
Ascending(S) == [k \in 1 .. Cardinality(S) |->
                    CHOOSE h \in S : Cardinality({ g \in S : g <= h }) = k]

\* Mutants of From: without going around; starting at an index into the ring.
FromNoChain(nodes, hash) == Ascending({ h \in DOMAIN nodes : h >= hash })

FromIndex(nodes, hash) ==
    LET way == Ascending(DOMAIN nodes)
    IN  IF way = <<>> THEN <<>>
        ELSE SubSeq(way, 1 + (hash % Len(way)), Len(way)) \o way

\* range(hash..).chain(iter()): once around, then once more.
From(nodes, hash) ==
    Ascending({ h \in DOMAIN nodes : h >= hash }) \o Ascending(DOMAIN nodes)

\* The first nodes met on a way along the ring, each once, until there are
\* replicas of them.
FirstMet(nodes, way, replicas) ==
    LET new == { i \in DOMAIN way :
                    \A j \in 1 .. i - 1 : nodes[way[j]] # nodes[way[i]] }
        firsts == Ascending({ i \in new :
                    Cardinality({ j \in new : j <= i }) <= replicas })
    IN  [k \in DOMAIN firsts |-> nodes[way[firsts[k]]]]

\* get_preference_list and get_preference_list_hash.
PreferenceList(nodes, hash, replicas) ==
    FirstMet(nodes, From(nodes, hash), replicas)

\* next_node: the first other node after the node's smallest hash.
Vnodes(nodes, node) == { h \in DOMAIN nodes : nodes[h] = node }

NextNodes(nodes, node) ==
    LET others == DOMAIN nodes \ Vnodes(nodes, node)
        ahead == { h \in others : h > Min(Vnodes(nodes, node)) }
    IN  IF Vnodes(nodes, node) = {} \/ others = {} THEN {}
        ELSE { nodes[Min(IF ahead = {} THEN others ELSE ahead)] }

\* get_next_available_node: next_node is followed from start until a node is
\* available; it gives up on meeting start again.  (It follows next_node for
\* ever if it enters a cycle without start or an available node: no result.)
NextAvailable(nodes, available, start) ==
    LET walk[i \in 0 .. Cardinality(DOMAIN nodes)] ==
            IF i = 0 THEN {start}
            ELSE UNION { NextNodes(nodes, n) : n \in walk[i - 1] }
        hits == { i \in DOMAIN walk : i > 0 /\ walk[i] \cap available # {} }
    IN  UNION { walk[i] : i \in { j \in hits :
                    /\ \A k \in hits : j <= k
                    /\ start \notin UNION { walk[k] : k \in 1 .. j - 1 } } }

-----------------------------------------------------------------------------
(* Nodes that come and go.  places are the hashes of a node's positions.   *)

AddNode(nodes, node, places) ==
    [h \in DOMAIN nodes \cup places |-> IF h \in places THEN node ELSE nodes[h]]

\* Mutant of RemoveNode: the loop over the virtual nodes ends one early.
RemoveNodeButOne(nodes, places) ==
    [h \in (DOMAIN nodes \ places) \cup {Max(places)} |-> nodes[h]]

RemoveNode(nodes, places) == [h \in DOMAIN nodes \ places |-> nodes[h]]
=============================================================================

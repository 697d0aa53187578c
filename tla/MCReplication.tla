--------------------------- MODULE MCReplication ---------------------------
(***************************************************************************)
(* Instances of Replication for TLC: the ring of peers a, b and c, with    *)
(* one virtual node each, and a list whose preference list begins with a.  *)
(***************************************************************************)
EXTENDS Replication, HashRing

CONSTANTS a, b, c

\* Positions of the peers, and the position of the list.
Position == [p \in {a, b, c} |-> CASE p = a -> 2 [] p = b -> 4 [] p = c -> 6]

ListHash == 1

RingOf(S) == [h \in { Position[p] : p \in S } |->
                 CHOOSE p \in S : Position[p] = h]

\* Tables of results; @@ <<>> has TLC compute each table once and for all.
PrefTable ==
    [S \in SUBSET Peer |-> PreferenceList(RingOf(S), ListHash, 3)] @@ <<>>

FallbackTable ==
    [S \in SUBSET Peer, available \in SUBSET Peer, start \in Peer |->
        NextAvailable(RingOf(S), available, start)] @@ <<>>

MCPrefList == PrefTable

MCFallbacks == FallbackTable

\* The cluster has formed.
Everyone == [p \in Peer |-> Peer]

\* The coordinator's join has timed out (main starts it all the same): the
\* others joined and know everyone, it will hear of them by gossip.
JoinFailed == [p \in Peer |-> IF p = a THEN {a} ELSE Peer]
=============================================================================

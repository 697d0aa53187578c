------------------------------ MODULE MCProxy ------------------------------
(***************************************************************************)
(* Instances of Proxy for TLC: a peer at each of two starts, and a list    *)
(* that the ring of both puts on the second one.                           *)
(***************************************************************************)
EXTENDS Proxy, HashRing, TLC

CONSTANTS a, b, l

Position == a :> 2 @@ b :> 6

ListHash == l :> 3

RingOf(S) == [h \in { Position[p] : p \in S } |->
                 CHOOSE p \in S : Position[p] = h]

\* @@ <<>> has TLC compute the table once and for all.
CoordinatorTable ==
    [x \in List |-> [S \in (SUBSET Peer) \ {{}} |->
        Head(PreferenceList(RingOf(S), ListHash[x], 3))] @@ <<>>] @@ <<>>

MCCoordinator == CoordinatorTable

TwoStarts == <<{a}, {b}>>
=============================================================================

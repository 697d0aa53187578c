---------------------------- MODULE MCRingChanges ----------------------------
(***************************************************************************)
(* Instances of RingChanges for TLC.                                       *)
(***************************************************************************)
EXTENDS RingChanges

\* All arrangements of four nodes with two positions each in which the peer is the
\* first node, the others numbered in the order of their first positions.
Pairs == { s \in SUBSET { 2 * i : i \in 1 .. 8 } : Cardinality(s) = 2 }

Smallest(s) == CHOOSE h \in s : \A k \in s : h <= k

FourNodes ==
    { [n \in 1 .. 4 |-> <<s1, s2, s3, s4>>[n]] :
        <<s1, s2, s3, s4>> \in { t \in Pairs \X Pairs \X Pairs \X Pairs :
            /\ Cardinality(t[1] \cup t[2] \cup t[3] \cup t[4]) = 8
            /\ Smallest(t[2]) < Smallest(t[3])
            /\ Smallest(t[3]) < Smallest(t[4]) } }

Hashes == { 2 * i - 1 : i \in 1 .. 9 }
=============================================================================

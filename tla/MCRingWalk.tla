----------------------------- MODULE MCRingWalk -----------------------------
(***************************************************************************)
(* Instances of RingWalk for TLC: four nodes with two positions each, in   *)
(* every arrangement in which the coordinator has the first one, up to the *)
(* names of the other nodes.                                               *)
(***************************************************************************)
EXTENDS RingWalk

Pairs == { s \in SUBSET (1 .. 8) : Cardinality(s) = 2 }

FourNodes ==
    { [n \in 1 .. 4 |-> t[n]] :
        t \in { t \in Pairs \X Pairs \X Pairs \X Pairs :
            /\ t[1] \cup t[2] \cup t[3] \cup t[4] = 1 .. 8
            /\ 1 \in t[1]
            /\ Max(t[2]) < Max(t[3])
            /\ Max(t[3]) < Max(t[4]) } }
=============================================================================

---------------------------- MODULE MCMembership ----------------------------
(***************************************************************************)
(* Instances of Membership for TLC.                                        *)
(***************************************************************************)
EXTENDS Membership

Setting(peers, lists, unreadable, bound) ==
    [peers |-> peers, traffic |-> lists, rows |-> lists, unreadable |-> unreadable,
     left |-> bound - 1, lost |-> bound - 1, gossips |-> bound]

\* Three peers, where the last may not be able to read its rows; two that send
\* lists, with a lost gossip and a peer that leaves.
MCSettings == { Setting(3, FALSE, {3}, 1), Setting(2, TRUE, {2}, 2) }
=============================================================================

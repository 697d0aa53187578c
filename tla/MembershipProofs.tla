-------------------------- MODULE MembershipProofs --------------------------
(***************************************************************************)
(* What Membership keeps for any number of peers: the seed knows every     *)
(* peer that any peer knows, and no hash ring names a peer without an      *)
(* address.                                                                *)
(***************************************************************************)
EXTENDS Membership, TLAPS

\* The seed is a peer.
LEMMA SeedIsPeer == Seed \in Peer /\ \A s \in Settings : 1 .. s.peers \subseteq Peer
<1>1. \A s \in Settings : s.peers \in 1 .. N
  BY SettingsAssumption
<1> QED
  BY <1>1, NAssumption DEF Seed, Peer

\* What a message is, by its type.
LEMMA MessageTypes ==
    ASSUME NEW m \in Messages
    PROVE  /\ m.type = "Hello" => m.from \in Peer /\ m.to = Seed /\ m = Hello(m.from)
           /\ m.type = "Gossip" => /\ m.to \in Peer /\ m.table \subseteq Peer
                                   /\ m = Gossip(m.to, m.table)
           /\ m.type \in {"Hello", "Gossip"}
  BY DEF Messages, Hello, Gossip

\* Every step keeps the types.
LEMMA TypeStep == TypeOK /\ [Next]_vars => TypeOK'
<1> SUFFICES ASSUME TypeOK, [Next]_vars PROVE TypeOK'
  OBVIOUS
<1> USE SeedIsPeer
<1>0. \A m \in net : m \in Messages
  BY DEF TypeOK
<1>1. ASSUME NEW p \in Present, Join(p) PROVE TypeOK'
  <2>1. Hello(p) \in Messages /\ p \in Peer
    BY DEF Messages, Present, TypeOK
  <2> QED
    BY <1>1, <2>1 DEF TypeOK, Join, Started
<1>2. ASSUME NEW p \in Present, JoinEnd(p) PROVE TypeOK'
  BY <1>2 DEF TypeOK, JoinEnd, Started, NoTable, Present
<1>3. ASSUME NEW p \in Present, Start(p) PROVE TypeOK'
  BY <1>3 DEF TypeOK, Start, Started, Present
<1>4. ASSUME NEW m \in net, Buffer(m) PROVE TypeOK'
  BY <1>0, <1>4, MessageTypes DEF TypeOK, Buffer, Started
<1>5. ASSUME NEW m \in net, HandleHello(m) PROVE TypeOK'
  BY <1>0, <1>5, MessageTypes DEF TypeOK, HandleHello, Started
<1>6. ASSUME NEW m \in net, HandleGossip(m) PROVE TypeOK'
  BY <1>0, <1>6, MessageTypes DEF TypeOK, HandleGossip, Started
<1>7. ASSUME NEW m \in net, Lose(m) PROVE TypeOK'
  <2>1. setting.lost \in Nat
    BY SettingsAssumption DEF TypeOK
  <2> QED
    BY <1>7, <2>1 DEF TypeOK, Lose, Started
<1>8. ASSUME NEW p \in Peer, NEW q \in Peer, Greet(p, q) PROVE TypeOK'
  <2>1. Gossip(q, member[p]) \in Messages /\ member[p] \in SUBSET Peer
    BY DEF Messages, TypeOK
  <2> QED
    BY <1>8, <2>1 DEF TypeOK, Greet, Started
<1>9. ASSUME NEW p \in Peer, NEW table \in merging[p], InsertEntries(p, table)
      PROVE  TypeOK'
  BY <1>9 DEF TypeOK, InsertEntries, Started
<1>10. ASSUME NEW p \in Peer, ReadTable(p) PROVE TypeOK'
  BY <1>10 DEF TypeOK, ReadTable, Started
<1>11. ASSUME NEW p \in Peer, Leave(p) PROVE TypeOK'
  BY <1>11 DEF TypeOK, Leave, Started
<1>12. ASSUME NEW p \in Peer, NEW q \in Peer, SendGossip(p, q) PROVE TypeOK'
  <2> PICK table \in gossips[p] :
          /\ gossips' = [gossips EXCEPT ![p] = @ \ {table}]
          /\ net' = IF q = p THEN net ELSE net \cup {Gossip(q, table)}
    BY <1>12 DEF SendGossip
  <2>1. Gossip(q, table) \in Messages
    BY DEF Messages, TypeOK
  <2> QED
    BY <1>12, <2>1 DEF TypeOK, SendGossip, Started
<1>13. ASSUME NEW p \in Peer, NEW q \in Peer, Replicate(p, q) PROVE TypeOK'
  BY <1>13 DEF TypeOK, Replicate, Started
<1>15. ASSUME NEW p \in Peer, DetectFailures(p) PROVE TypeOK'
  BY <1>15 DEF TypeOK, DetectFailures, Started
<1>16. ASSUME NEW p \in Peer, NEW table, NEW entered,
              EndEarly(p, table, entered) \/ HandOver(p, table, entered)
       PROVE  TypeOK'
  <2>1. table \in SUBSET Peer /\ entered \in SUBSET Peer
    BY <1>16 DEF TypeOK, EndEarly, HandOver, ReachesPredecessor
  <2>2. member' = [member EXCEPT ![p] = @ \cup entered] /\ Started(p)
    BY <1>16 DEF TypeOK, EndEarly, HandOver, ReachesPredecessor
  <2> QED
    BY <1>16, <2>1, <2>2 DEF TypeOK, EndEarly, HandOver, ReachesPredecessor, Started
<1>14. CASE UNCHANGED vars
  BY <1>14 DEF TypeOK, vars, Started
<1> QED
  BY <1>1, <1>2, <1>3, <1>4, <1>5, <1>6, <1>7, <1>8, <1>9, <1>10, <1>11, <1>12,
     <1>13, <1>14, <1>15, <1>16
     DEF Next, Main, Deliver, Handler

\* The peers begin with themselves.
LEMMA TypeInit == Init => TypeOK
<1> SUFFICES ASSUME Init PROVE TypeOK
  OBVIOUS
<1>3. faults \in 0 .. setting.lost
  BY SettingsAssumption DEF Init
<1> QED
  BY <1>3 DEF Init, TypeOK, Started, NoTable, Messages

\* The tables, rings, messages and failure tables of all peers are well formed,
\* and a peer that main has not started runs no handler (Peer::join, Peer::start).
THEOREM MembershipTypeOK == Spec => []TypeOK
<1> QED
  BY TypeInit, TypeStep, PTL DEF Spec

-----------------------------------------------------------------------------
(* The hash ring.                                                          *)

\* A peer that has not started is alone in its ring, so that what it receives
\* on joining, which replaces its table, leaves no node without an address.
RingInv ==
    /\ TypeOK
    /\ RingIsAddressable
    /\ \A p \in Peer : ~Started(p) => ring[p] \subseteq {p}

LEMMA RingStep == RingInv /\ [Next]_vars => RingInv'
<1> SUFFICES ASSUME RingInv, [Next]_vars PROVE RingInv'
  OBVIOUS
<1> USE SeedIsPeer
<1>0. TypeOK' /\ \A m \in net : m \in Messages
  BY TypeStep DEF RingInv, TypeOK
<1>1. ASSUME NEW p \in Present, Join(p) PROVE RingInv'
  BY <1>0, <1>1 DEF RingInv, RingIsAddressable, TypeOK, Join, Started, Present
<1>2. ASSUME NEW p \in Present, JoinEnd(p) PROVE RingInv'
  BY <1>0, <1>2 DEF RingInv, RingIsAddressable, TypeOK, JoinEnd, Started, Present
<1>3. ASSUME NEW p \in Present, Start(p) PROVE RingInv'
  BY <1>0, <1>3 DEF RingInv, RingIsAddressable, TypeOK, Start, Started, Present
<1>4. ASSUME NEW m \in net, Buffer(m) PROVE RingInv'
  BY <1>0, <1>4 DEF RingInv, RingIsAddressable, TypeOK, Buffer, Started
<1>5. ASSUME NEW m \in net, HandleHello(m) PROVE RingInv'
  BY <1>0, <1>5, MessageTypes DEF RingInv, RingIsAddressable, TypeOK, HandleHello, Started
<1>6. ASSUME NEW m \in net, HandleGossip(m) PROVE RingInv'
  BY <1>0, <1>6, MessageTypes
     DEF RingInv, RingIsAddressable, TypeOK, HandleGossip, Started
<1>7. ASSUME NEW m \in net, Lose(m) PROVE RingInv'
  BY <1>0, <1>7 DEF RingInv, RingIsAddressable, TypeOK, Lose, Started
<1>8. ASSUME NEW p \in Peer, NEW q \in Peer, Greet(p, q) PROVE RingInv'
  BY <1>0, <1>8 DEF RingInv, RingIsAddressable, TypeOK, Greet, Started
<1>9. ASSUME NEW p \in Peer, NEW table \in merging[p], InsertEntries(p, table)
      PROVE  RingInv'
  BY <1>0, <1>9 DEF RingInv, RingIsAddressable, TypeOK, InsertEntries, Started
<1>10. ASSUME NEW p \in Peer, ReadTable(p) PROVE RingInv'
  BY <1>0, <1>10 DEF RingInv, RingIsAddressable, TypeOK, ReadTable, Started
<1>11. ASSUME NEW p \in Peer, Leave(p) PROVE RingInv'
  BY <1>0, <1>11 DEF RingInv, RingIsAddressable, TypeOK, Leave, Started
<1>12. ASSUME NEW p \in Peer, NEW q \in Peer, SendGossip(p, q) PROVE RingInv'
  BY <1>0, <1>12 DEF RingInv, RingIsAddressable, TypeOK, SendGossip, Started
<1>13. ASSUME NEW p \in Peer, NEW q \in Peer, Replicate(p, q) PROVE RingInv'
  BY <1>0, <1>13 DEF RingInv, RingIsAddressable, TypeOK, Replicate, Started
<1>15. ASSUME NEW p \in Peer, DetectFailures(p) PROVE RingInv'
  BY <1>0, <1>15 DEF RingInv, RingIsAddressable, TypeOK, DetectFailures, Started
<1>16. ASSUME NEW p \in Peer, NEW table, NEW entered,
              EndEarly(p, table, entered) \/ HandOver(p, table, entered)
       PROVE  RingInv'
  BY <1>0, <1>16
     DEF RingInv, RingIsAddressable, TypeOK, EndEarly, HandOver, ReachesPredecessor, Started
<1>14. CASE UNCHANGED vars
  BY <1>0, <1>14 DEF RingInv, RingIsAddressable, vars, Started
<1> QED
  BY <1>1, <1>2, <1>3, <1>4, <1>5, <1>6, <1>7, <1>8, <1>9, <1>10, <1>11, <1>12,
     <1>13, <1>14, <1>15, <1>16
     DEF Next, Main, Deliver, Handler

\* A node of a hash ring has an address, or is about to get one from a gossip
\* handler that is under way (add_nodes before the membership table), or a handler
\* that could not read its rows has left it out.
THEOREM MembershipRingIsAddressable == Spec => []RingIsAddressable
<1>1. Init => RingInv
  BY TypeInit DEF Init, RingInv, RingIsAddressable
<1>2. RingInv => RingIsAddressable
  BY DEF RingInv
<1> QED
  BY <1>1, <1>2, RingStep, PTL DEF Spec

-----------------------------------------------------------------------------
(* The seed.                                                               *)

\* The seed never joins; only the seed is greeted by joining peers.
SeedServes ==
    /\ Started(Seed) /\ Seed \in member[Seed]
    /\ \A p \in Peer : greets[p] # {} => p = Seed

\* A peer that has heard of another is known to the seed, so is whoever a gossip
\* is under way to, in the network, in the join buffer or at a handler.
HeardOf(p) ==
    \/ ~(member[p] \subseteq {p})
    \/ buf[p] # NoTable
    \/ merging[p] # {}
    \/ \E m \in net : m.type = "Gossip" /\ m.to = p

\* What SeedKnowsAll needs of the tables that are on the way into a membership
\* table or into a gossip.
SeedInv ==
    /\ TypeOK
    /\ SeedServes
    /\ SeedKnowsAll
    /\ \A p \in Peer : /\ HeardOf(p) => p \in member[Seed]
                       /\ buf[p] \subseteq member[Seed]
                       /\ \A t \in merging[p] : t \subseteq member[Seed]
                       /\ \A t \in gossips[p] : t \ {p} \subseteq member[Seed]

LEMMA SeedStep == SeedInv /\ [Next]_vars => SeedInv'
<1> SUFFICES ASSUME SeedInv, [Next]_vars PROVE SeedInv'
  OBVIOUS
<1> USE SeedIsPeer
<1>0. TypeOK' /\ \A m \in net : m \in Messages
  BY TypeStep DEF SeedInv, TypeOK
<1> USE DEF SeedInv, SeedServes, SeedKnowsAll, HeardOf, TypeOK, Started, NoTable
<1>1. ASSUME NEW p \in Present, Join(p) PROVE SeedInv'
  BY <1>0, <1>1 DEF Join, Present, Hello
<1>2. ASSUME NEW p \in Present, JoinEnd(p) PROVE SeedInv'
  BY <1>0, <1>2 DEF JoinEnd, Present
<1>3. ASSUME NEW p \in Present, Start(p) PROVE SeedInv'
  BY <1>0, <1>3 DEF Start, Present
<1>4. ASSUME NEW m \in net, Buffer(m) PROVE SeedInv'
  BY <1>0, <1>4, MessageTypes DEF Buffer
<1>5. ASSUME NEW m \in net, HandleHello(m) PROVE SeedInv'
  BY <1>0, <1>5, MessageTypes DEF HandleHello
<1>6. ASSUME NEW m \in net, HandleGossip(m) PROVE SeedInv'
  BY <1>0, <1>6, MessageTypes DEF HandleGossip
<1>7. ASSUME NEW m \in net, Lose(m) PROVE SeedInv'
  BY <1>0, <1>7 DEF Lose
<1>8. ASSUME NEW p \in Peer, NEW q \in Peer, Greet(p, q) PROVE SeedInv'
  BY <1>0, <1>8 DEF Greet, Gossip
<1>9. ASSUME NEW p \in Peer, NEW table \in merging[p], InsertEntries(p, table)
      PROVE  SeedInv'
  BY <1>0, <1>9 DEF InsertEntries
<1>10. ASSUME NEW p \in Peer, ReadTable(p) PROVE SeedInv'
  BY <1>0, <1>10 DEF ReadTable
<1>11. ASSUME NEW p \in Peer, Leave(p) PROVE SeedInv'
  BY <1>0, <1>11 DEF Leave
<1>12. ASSUME NEW p \in Peer, NEW q \in Peer, SendGossip(p, q) PROVE SeedInv'
  BY <1>0, <1>12 DEF SendGossip, Gossip
<1>13. ASSUME NEW p \in Peer, NEW q \in Peer, Replicate(p, q) PROVE SeedInv'
  BY <1>0, <1>13 DEF Replicate
<1>15. ASSUME NEW p \in Peer, DetectFailures(p) PROVE SeedInv'
  BY <1>0, <1>15 DEF DetectFailures
<1>16. ASSUME NEW p \in Peer, NEW table, NEW entered,
              EndEarly(p, table, entered) \/ HandOver(p, table, entered)
       PROVE  SeedInv'
  <2>1. entered \subseteq member[Seed] /\ p \in Peer /\ p \in member[Seed]
    BY <1>16 DEF EndEarly, HandOver, ReachesPredecessor
  <2>2. member' = [member EXCEPT ![p] = @ \cup entered] /\ member'[Seed] = member[Seed]
    BY <1>16, <2>1 DEF EndEarly, HandOver, ReachesPredecessor
  <2> QED
    BY <1>0, <1>16, <2>1, <2>2 DEF EndEarly, HandOver, ReachesPredecessor
<1>14. CASE UNCHANGED vars
  BY <1>0, <1>14 DEF vars
<1> QED
  BY <1>1, <1>2, <1>3, <1>4, <1>5, <1>6, <1>7, <1>8, <1>9, <1>10, <1>11, <1>12,
     <1>13, <1>14, <1>15, <1>16
     DEF Next, Main, Deliver, Handler

\* The seed knows every peer that any other peer, or any gossip, knows: whoever
\* joins through it is told of all (handle_hello, handle_gossip, Peer::join).
THEOREM MembershipSeedKnowsAll == Spec => []SeedKnowsAll
<1>1. Init => SeedInv
  BY TypeInit, SeedIsPeer
     DEF Init, SeedInv, SeedServes, SeedKnowsAll, HeardOf, Started, NoTable
<1>2. SeedInv => SeedKnowsAll
  BY DEF SeedInv
<1> QED
  BY <1>1, <1>2, SeedStep, PTL DEF Spec
=============================================================================

------------------------- MODULE ReplicationProofs -------------------------
(***************************************************************************)
(* What Replication keeps for any number of clients, peers, edits, faults  *)
(* and any hash ring.                                                      *)
(***************************************************************************)
EXTENDS Replication, FiniteSetTheorems, SequenceTheorems, TLAPS

\* get_merged_list stays in the type, and holds what either side holds.
LEMMA JoinType ==
    ASSUME NEW l \in List, NEW m \in List
    PROVE  /\ Join(l, m) \in List
           /\ \A c \in Client : /\ l[c] <= Join(l, m)[c] /\ m[c] <= Join(l, m)[c]
                                /\ Join(l, m)[c] \in {l[c], m[c]}
  BY DEF List, Join

\* A list nobody has edited is a list.
LEMMA EmptyType == Empty \in List
  BY DEF Empty, List

\* What Ask does to the sockets and the queue.
LEMMA AskType ==
    ASSUME TypeOK, NEW c \in Client, NEW kind \in {"put", "get"}, NEW list \in List,
           Ask(c, kind, list)
    PROVE  /\ session' \in [Client -> {"idle", "put", "get", "stuck"}]
           /\ queue' \in Seq(Requests)
  BY AppendProperties DEF TypeOK, Ask, Request, Requests

\* What is in the queue after Ask.
LEMMA AskShape ==
    ASSUME queue \in Seq(Requests), NEW c \in Client, NEW kind \in {"put", "get"},
           NEW list \in List, Ask(c, kind, list)
    PROVE  \A i \in DOMAIN queue' :
              \/ queue'[i] = Request(c, kind, list) /\ i = Len(queue) + 1
              \/ i \in DOMAIN queue /\ queue'[i] = queue[i]
<1>1. Request(c, kind, list) \in Requests
  BY DEF Request, Requests
<1>2. queue' = Append(queue, Request(c, kind, list))
  BY DEF Ask
<1>3. /\ DOMAIN queue = 1 .. Len(queue) /\ Len(queue) \in Nat
      /\ DOMAIN queue' = 1 .. (Len(queue) + 1)
  BY <1>1, <1>2, AppendProperties, LenProperties
<1> QED
  BY <1>1, <1>2, <1>3, AppendProperties

\* The next request, and the queue without it.
LEMMA HeadType ==
    ASSUME TypeOK, RequestWaits
    PROVE  Head(queue) \in Requests /\ Tail(queue) \in Seq(Requests)
  BY HeadTailProperties DEF TypeOK, RequestWaits, Requests

\* Where the next request and the rest of the queue come from.
LEMMA HeadShape ==
    ASSUME queue \in Seq(Requests), queue # <<>>
    PROVE  /\ \E i \in DOMAIN queue : Head(queue) = queue[i]
           /\ \A i \in DOMAIN Tail(queue) :
                 i + 1 \in DOMAIN queue /\ Tail(queue)[i] = queue[i + 1]
<1>1. /\ Tail(queue) \in Seq(Requests) /\ Len(Tail(queue)) = Len(queue) - 1
      /\ \A i \in 1 .. Len(Tail(queue)) : Tail(queue)[i] = queue[i + 1]
  BY HeadTailProperties
<1>2. /\ DOMAIN queue = 1 .. Len(queue) /\ Len(queue) \in Nat \ {0}
      /\ DOMAIN Tail(queue) = 1 .. Len(Tail(queue))
  BY <1>1, LenProperties, EmptySeq
<1>3. Head(queue) = queue[1]
  OBVIOUS
<1> QED
  BY <1>1, <1>2, <1>3

\* The replicas are peers other than the coordinator, each once.
LEMMA ReplicasType ==
    ASSUME TypeOK
    PROVE  /\ Replicas \in Seq(Peer)
           /\ \A i \in DOMAIN Replicas : Replicas[i] # Coordinator
           /\ \A i, j \in DOMAIN Replicas : Replicas[i] = Replicas[j] => i = j
<1> DEFINE p == PrefList[ring]
<1>1. /\ p \in Seq(ring) /\ Len(p) >= 1 /\ p[1] = Coordinator
      /\ \A i, j \in DOMAIN p : p[i] = p[j] => i = j
  BY PrefListAssumption DEF TypeOK
<1>2. p \in Seq(Peer) /\ p # <<>> /\ DOMAIN p = 1 .. Len(p) /\ Len(p) \in Nat
  BY <1>1, SeqMonotonic, LenProperties, EmptySeq DEF TypeOK
<1> HIDE DEF p
<1>3. /\ Tail(p) \in Seq(Peer)
      /\ Len(Tail(p)) = Len(p) - 1
      /\ \A i \in 1 .. Len(Tail(p)) : Tail(p)[i] = p[i + 1]
  BY <1>2, HeadTailProperties
<1>4. DOMAIN Tail(p) = 1 .. Len(Tail(p))
  BY <1>3, LenProperties
<1>5. \A i \in DOMAIN Tail(p) :
         /\ i \in Nat /\ i + 1 \in DOMAIN p /\ i + 1 # 1 /\ 1 \in DOMAIN p
         /\ Tail(p)[i] = p[i + 1]
  BY <1>2, <1>3, <1>4
<1>6. \A i \in DOMAIN Tail(p) : Tail(p)[i] # p[1]
  BY <1>1, <1>5
<1>7. \A i, j \in DOMAIN Tail(p) : Tail(p)[i] = Tail(p)[j] => i = j
  <2> SUFFICES ASSUME NEW i \in DOMAIN Tail(p), NEW j \in DOMAIN Tail(p),
                      Tail(p)[i] = Tail(p)[j]
               PROVE  i = j
    OBVIOUS
  <2>1. p[i + 1] = p[j + 1]
    BY <1>5
  <2>2. i + 1 = j + 1
    BY <1>1, <1>5, <2>1
  <2> QED
    BY <1>5, <2>2
<1>8. Replicas = Tail(p)
  BY DEF Replicas, p
<1> QED
  BY <1>1, <1>3, <1>6, <1>7, <1>8

\* A stand-in is a peer, and there is at most one.
LEMMA FallbackType ==
    ASSUME TypeOK, Replicas # <<>>
    PROVE  Fallback \subseteq Peer /\ \A n, m \in Fallback : n = m
<1>1. Len(Replicas) \in DOMAIN Replicas
  BY ReplicasType, LenProperties, EmptySeq
<1>2. Replicas[Len(Replicas)] \in Peer
  BY <1>1, ReplicasType, LenProperties, ElementOfSeq
<1> QED
  BY <1>2, FallbacksAssumption, CoordinatorAssumption DEF TypeOK, Fallback

\* What the coordinator sends is well formed.
LEMMA FanOutType ==
    ASSUME TypeOK, Replicas # <<>>, NEW rid \in Rid, NEW list \in List
    PROVE  /\ \A m \in WriteFanOut(rid, list) : WellFormed(m)
           /\ \A m \in ReadFanOut(rid) : WellFormed(m)
<1>1. \A i \in DOMAIN Replicas : Replicas[i] \in Peer
  BY ReplicasType, LenProperties, ElementOfSeq
<1> QED
  BY <1>1, FallbackType DEF WriteFanOut, ReadFanOut, WellFormed

\* Every step keeps the types.
LEMMA TypeStep == TypeOK /\ [Next]_vars => TypeOK'
<1> SUFFICES ASSUME TypeOK, [Next]_vars PROVE TypeOK'
  OBVIOUS
<1> USE DEF WellFormed, Requests, Answers, InFlights, Rows, Scans
<1>1. ASSUME NEW c \in Client, Edit(c) PROVE TypeOK'
  <2>1. db[c] \in List /\ db[c][c] \in Nat
    BY DEF TypeOK, List
  <2>2. [db[c] EXCEPT ![c] = @ + 1] \in List
    BY <2>1 DEF List
  <2>3. db' = [db EXCEPT ![c] = [db[c] EXCEPT ![c] = @ + 1]]
    BY <1>1 DEF Edit
  <2>4. db' \in [Client -> List]
    BY <2>2, <2>3 DEF TypeOK
  <2>5. made' \in [Client -> Seq(List)]
    BY <1>1, <2>4, AppendProperties DEF TypeOK, Edit
  <2>6. /\ session' \in [Client -> {"idle", "put", "get", "stuck"}]
        /\ queue' \in Seq(Requests)
    BY <1>1, <2>4, AskType DEF TypeOK, Edit
  <2> QED
    BY <1>1, <2>4, <2>5, <2>6 DEF TypeOK, Edit
<1>2. ASSUME NEW c \in Client, Refresh(c) PROVE TypeOK'
  <2>1. /\ session' \in [Client -> {"idle", "put", "get", "stuck"}]
        /\ queue' \in Seq(Requests)
    BY <1>2, AskType DEF TypeOK, Refresh
  <2> QED
    BY <1>2, <2>1 DEF TypeOK, Refresh
<1>3. ASSUME NEW c \in Client, Receive(c) PROVE TypeOK'
  <2>1. db' \in [Client -> List]
    BY <1>3, JoinType DEF TypeOK, Receive, None, Nack
  <2>2. answer' \in [Client -> Answers]
    BY <1>3 DEF TypeOK, Receive
  <2> QED
    BY <1>3, <2>1, <2>2 DEF TypeOK, Receive
<1>4. ASSUME NEW c \in Client, GiveUp(c) PROVE TypeOK'
  <2>1. queue \in Seq(Requests)
    BY DEF TypeOK
  <2>2. /\ DOMAIN queue = 1 .. Len(queue) /\ Len(queue) \in Nat
        /\ \A i \in 1 .. Len(queue) : queue[i] \in Requests
    BY <2>1, LenProperties, ElementOfSeq
  <2>3. \A q \in Requests : [q EXCEPT !.client = NoClient] \in Requests
    OBVIOUS
  <2>4. queue' \in [1 .. Len(queue) -> Requests]
    BY <1>4, <2>2, <2>3 DEF GiveUp
  <2>5. queue' \in Seq(Requests)
    BY <2>2, <2>4, SeqDef
  <2>6. answer' \in [Client -> Answers]
    BY <1>4 DEF TypeOK, GiveUp
  <2>7. pending' \in {None} \cup InFlights
    BY <1>4 DEF TypeOK, GiveUp, None
  <2>8. faults' \in 0 .. MaxFaults
    BY <1>4, BoundAssumption DEF TypeOK, GiveUp
  <2>9. session' \in [Client -> {"idle", "put", "get", "stuck"}]
    BY <1>4 DEF TypeOK, GiveUp
  <2> QED
    BY <1>4, <2>5, <2>6, <2>7, <2>8, <2>9 DEF TypeOK, GiveUp
<1>5. ASSUME NEW c \in Client, Reopen(c) PROVE TypeOK'
  BY <1>5 DEF TypeOK, Reopen
<1>6. ASSUME StartPut PROVE TypeOK'
  <2>1. PICK rid \in Rid :
          /\ pending' = InFlight("put", Head(queue), rid, Empty)
          /\ net' = net \cup WriteFanOut(rid, Head(queue).list)
    BY <1>6 DEF StartPut
  <2>2. Head(queue) \in Requests /\ Tail(queue) \in Seq(Requests)
    BY <1>6, HeadType DEF StartPut
  <2>3. pending' \in InFlights
    BY <2>1, <2>2, EmptyType DEF InFlight
  <2>4. \A m \in net' : WellFormed(m)
    BY <1>6, <2>1, <2>2, FanOutType DEF StartPut, TypeOK
  <2> QED
    BY <1>6, <2>2, <2>3, <2>4 DEF TypeOK, StartPut
<1>7. ASSUME StartRead PROVE TypeOK'
  <2>1. PICK rid \in Rid :
          /\ pending' = InFlight("read", Head(queue), rid, row[Coordinator].list)
          /\ net' = net \cup ReadFanOut(rid)
    BY <1>7 DEF StartRead
  <2>2. Head(queue) \in Requests /\ Tail(queue) \in Seq(Requests)
    BY <1>7, HeadType DEF StartRead
  <2>3. row[Coordinator].list \in List
    BY <1>7, CoordinatorAssumption DEF StartRead, TypeOK
  <2>4. pending' \in InFlights
    BY <2>1, <2>2, <2>3 DEF InFlight
  <2>5. \A m \in net' : WellFormed(m)
    BY <1>7, <2>1, <2>2, <2>3, FanOutType DEF StartRead, TypeOK
  <2> QED
    BY <1>7, <2>2, <2>4, <2>5 DEF TypeOK, StartRead
<1>8. ASSUME NoReplicas PROVE TypeOK'
  BY <1>8, HeadType DEF TypeOK, NoReplicas
<1>9. ASSUME CompletePut PROVE TypeOK'
  <2>1. pending.list \in List /\ pending.client \in Client \cup {NoClient}
    BY <1>9 DEF TypeOK, CompletePut, None
  <2> QED
    BY <1>9, <2>1 DEF TypeOK, CompletePut, Stored, Send, Answer
<1>10. ASSUME CompleteRead PROVE TypeOK'
  <2>1. /\ pending.base \in List /\ pending.merged \in List
        /\ pending.client \in Client \cup {NoClient}
    BY <1>10 DEF TypeOK, CompleteRead, None
  <2>2. Join(pending.base, pending.merged) \in List
    BY <2>1, JoinType
  <2> QED
    BY <1>10, <2>1, <2>2 DEF TypeOK, CompleteRead, Stored, Send, Answer
<1>11. ASSUME QuorumTimeout PROVE TypeOK'
  <2>1. pending.client \in Client \cup {NoClient}
    BY <1>11 DEF TypeOK, QuorumTimeout, None
  <2>2. faults' \in 0 .. MaxFaults
    BY <1>11, BoundAssumption DEF TypeOK, QuorumTimeout
  <2> QED
    BY <1>11, <2>1, <2>2 DEF TypeOK, QuorumTimeout, Send
<1>12. ASSUME NEW m \in net, PeerWrite(m) PROVE TypeOK'
  <2>1. m.list \in List /\ m.to \in Peer
    BY <1>12 DEF TypeOK, PeerWrite
  <2>2. row' \in [Peer -> {None} \cup Rows]
    BY <1>12, <2>1 DEF TypeOK, PeerWrite, Stored
  <2> QED
    BY <1>12, <2>1, <2>2 DEF TypeOK, PeerWrite, Reply, Accept
<1>13. ASSUME NEW m \in net, PeerRead(m) PROVE TypeOK'
  <2>1. m.to \in Peer /\ (row[m.to] # None => row[m.to].list \in List)
    BY <1>13 DEF TypeOK, PeerRead
  <2>2. \A n \in net : WellFormed(n)
    BY DEF TypeOK
  <2>3. row[m.to] # None =>
           WellFormed([type |-> "AckList", rid |-> m.rid, slot |-> m.slot,
                        list |-> row[m.to].list])
    BY <2>1, <2>2 
  <2>4. \A n \in net' : WellFormed(n)
    BY <1>13, <2>2, <2>3 DEF PeerRead, Reply
  <2>5. accepted' \subseteq Peer \X Peer
    BY <1>13, <2>1 DEF TypeOK, PeerRead, Accept
  <2> QED
    BY <1>13, <2>4, <2>5 DEF TypeOK, PeerRead
<1>14. ASSUME NEW m \in net, PeerHandoff(m) PROVE TypeOK'
  <2>1. m.list \in List /\ m.to \in Peer /\ m.slot \in Peer
    BY <1>14 DEF TypeOK, PeerHandoff
  <2>2. row' \in [Peer -> {None} \cup Rows]
    BY <1>14, <2>1 DEF TypeOK, PeerHandoff, Stored
  <2> QED
    BY <1>14, <2>1, <2>2 DEF TypeOK, PeerHandoff, Reply, Accept
<1>15. ASSUME NEW m \in net, OnAck(m) PROVE TypeOK'
  <2>0. pending \in {None} \cup InFlights
    BY DEF TypeOK
  <2>1. IsFor(m, "put") => [pending EXCEPT !.received = @ + 1] \in InFlights
    BY <2>0 DEF IsFor, None
  <2>2. pending' \in {None} \cup InFlights
    BY <1>15, <2>0, <2>1 DEF OnAck
  <2> QED
    BY <1>15, <2>2 DEF TypeOK, OnAck
<1>16. ASSUME NEW m \in net, OnAckList(m) PROVE TypeOK'
  <2>1. m.list \in List
    BY <1>16 DEF TypeOK, OnAckList
  <2>2. pending \in {None} \cup InFlights
    BY DEF TypeOK
  <2>3. IsFor(m, "read") =>
           [pending EXCEPT !.received = @ + 1, !.merged = Join(@, m.list)]
              \in InFlights
    <3> SUFFICES ASSUME IsFor(m, "read")
                 PROVE  [pending EXCEPT !.received = @ + 1,
                                        !.merged = Join(@, m.list)] \in InFlights
      OBVIOUS
    <3>1. pending \in InFlights
      BY <2>2 DEF IsFor, None
    <3>2. Join(pending.merged, m.list) \in List
      BY <2>1, <3>1, JoinType 
    <3>3. /\ [pending EXCEPT !.received = @ + 1] \in InFlights
          /\ [pending EXCEPT !.received = @ + 1].merged = pending.merged
      BY <3>1
    <3>4. [[pending EXCEPT !.received = @ + 1] EXCEPT !.merged = Join(@, m.list)]
             \in InFlights
      BY <3>1, <3>2, <3>3
    <3> QED
      BY <3>4
  <2>4. pending' \in {None} \cup InFlights
    BY <1>16, <2>2, <2>3 DEF OnAckList
  <2> QED
    BY <1>16, <2>4 DEF TypeOK, OnAckList
<1>17. ASSUME NEW m \in net, Lose(m) PROVE TypeOK'
  BY <1>17, BoundAssumption DEF TypeOK, Lose
<1>18. ASSUME NEW p \in Peer, HandoffScan(p) PROVE TypeOK'
  BY <1>18 DEF TypeOK, HandoffScan, None
<1>19. ASSUME NEW p \in Peer, HandoffSend(p) PROVE TypeOK'
  <2>1. scan[p].to \in Peer /\ scan[p].list \in List
    BY <1>19 DEF TypeOK, HandoffSend, None
  <2>2. scan' \in [Peer -> {None} \cup Scans]
    <3>1. scan[p] \in Scans
      BY <1>19 DEF TypeOK, HandoffSend, None
    <3>2. [scan[p] EXCEPT !.kind = "sent"]
             \in Scans
      BY <3>1
    <3>3. scan' \in {[scan EXCEPT ![p] = [scan[p] EXCEPT !.kind = "sent"]],
                     [scan EXCEPT ![p] = None]}
      BY <1>19 DEF HandoffSend
    <3> QED
      BY <3>2, <3>3 DEF TypeOK
  <2> QED
    BY <1>19, <2>1, <2>2 DEF TypeOK, HandoffSend
<1>20. ASSUME NEW p \in Peer, HandoffDelete(p) PROVE TypeOK'
  BY <1>20 DEF TypeOK, HandoffDelete
<1>21. ASSUME NEW q \in Peer, JoinRing(q) PROVE TypeOK'
  BY <1>21 DEF TypeOK, JoinRing
<1>22. ASSUME NEW p \in Peer, NEW q \in Peer, JoinMembership(p, q) PROVE TypeOK'
  BY <1>22 DEF TypeOK, JoinMembership
<1>23. ASSUME RestartServers PROVE TypeOK'
  BY <1>23, StartAssumption, BoundAssumption, EmptySeq DEF TypeOK, RestartServers
<1>24. CASE UNCHANGED vars
  BY <1>24 DEF TypeOK, vars
<1> QED
  BY <1>1, <1>2, <1>3, <1>4, <1>5, <1>6, <1>7, <1>8, <1>9, <1>10, <1>11, <1>12,
     <1>13, <1>14, <1>15, <1>16, <1>17, <1>18, <1>19, <1>20, <1>21, <1>22, <1>23,
     <1>24 DEF Next, ClientStep, CoordinatorStep, Deliver, HandoffStep, GossipStep

\* The types hold from the start.
LEMMA TypeInit == Init => TypeOK
  BY StartAssumption, BoundAssumption, EmptySeq, EmptyType DEF Init, TypeOK, Answers

\* Every variable of the cluster has its type, and every copy of the list is one,
\* in whichever database, row, message or answer it is.
THEOREM ReplicationTypeOK == Spec => []TypeOK
  BY TypeInit, TypeStep, PTL DEF Spec

-----------------------------------------------------------------------------
(* Where the copies of the list come from. *)

\* The copies that a step other than an edit can leave behind.
Derived == Lists \cup {Empty} \cup {Join(l, m) : l, m \in Lists}

\* A new edit is in its author's database and in the copies made of that.
EditShape(c) ==
    /\ db' = [db EXCEPT ![c][c] = @ + 1]
    /\ made' = [made EXCEPT ![c] = Append(@, db'[c])]
    /\ Lists' \subseteq Lists \cup {db'[c]}

\* Any other step copies and merges copies; a client's own is at most merged.
MergeShape ==
    /\ made' = made
    /\ Lists' \subseteq Derived
    /\ \/ db' = db
       \/ \E c \in Client, l \in Lists : db' = [db EXCEPT ![c] = Join(@, l)]

\* What is on each way and in each place is among the copies.
LEMMA ListsHold ==
    /\ \A c \in Client : db[c] \in Lists
    /\ \A c \in Client : answer[c].kind = "ack" => answer[c].list \in Lists
    /\ \A i \in DOMAIN queue : queue[i].list \in Lists
    /\ pending.kind # "none" => /\ pending.list \in Lists
                                /\ pending.base \in Lists
                                /\ pending.merged \in Lists
    /\ \A m \in net : m.type \in {"Replicate", "Handoff", "AckList"} =>
                         m.list \in Lists
    /\ \A p \in Peer : row[p] # None => row[p].list \in Lists
    /\ \A p \in Peer : scan[p] # None => scan[p].list \in Lists
  BY DEF Lists, Message

\* All copies are in a set as soon as those of each kind are.
LEMMA ListsWithin ==
    ASSUME NEW S,
           \A c \in Client : db'[c] \in S,
           \A c \in Client : answer'[c].kind = "ack" => answer'[c].list \in S,
           \A i \in DOMAIN queue' : queue'[i].list \in S,
           pending'.kind # "none" => /\ pending'.list \in S /\ pending'.base \in S
                                     /\ pending'.merged \in S,
           \A m \in net' : m.type \in {"Replicate", "Handoff", "AckList"} =>
                              m.list \in S,
           \A p \in Peer : row'[p] # None => row'[p].list \in S,
           \A p \in Peer : scan'[p] # None => scan'[p].list \in S
    PROVE  Lists' \subseteq S
  BY DEF Lists, Message

\* What is derived from the copies.
LEMMA DerivedHolds ==
    /\ Lists \subseteq Derived
    /\ Empty \in Derived
    /\ \A l, m \in Lists : Join(l, m) \in Derived
  BY DEF Derived

\* Every step is an edit or copies and merges (update_list, send_replicate,
\* write_shopping_list, get_merged_list).
LEMMA StepShape ==
    ASSUME TypeOK, [Next]_vars
    PROVE  (\E c \in Client : EditShape(c)) \/ MergeShape
<1> USE ListsHold, DerivedHolds DEF MergeShape
<1>1. ASSUME NEW c \in Client, Edit(c) PROVE EditShape(c)
  <2>0. db' \in [Client -> List]
    BY TypeStep DEF TypeOK
  <2>1. \A d \in Client : db'[d] \in {db[d], db'[c]}
    BY <1>1 DEF Edit, TypeOK
  <2>2. \A i \in DOMAIN queue' :
           queue'[i].list = db'[c] \/ \E j \in DOMAIN queue : queue'[i] = queue[j]
    <3>1. CASE queue' = queue
      BY <3>1
    <3>2. CASE Ask(c, "put", db'[c])
      BY <3>2, <2>0, AskShape DEF TypeOK, Request
    <3> QED
      BY <1>1, <3>1, <3>2, ListsWithin DEF Edit
  <2> DEFINE S == Lists \cup {db'[c]}
  <2>3. Lists \subseteq S /\ db'[c] \in S
    OBVIOUS
  <2> HIDE DEF S
  <2>4. /\ \A d \in Client : db'[d] \in S
        /\ \A i \in DOMAIN queue' : queue'[i].list \in S
    BY <2>1, <2>2, <2>3
  <2>5. Lists' \subseteq S
    BY <1>1, <2>3, <2>4, ListsWithin DEF Edit
  <2> QED
    BY <1>1, <2>5 DEF Edit, EditShape, S
<1>2. ASSUME NEW c \in Client, Refresh(c) PROVE MergeShape
  <2>1. \A i \in DOMAIN queue' :
           queue'[i].list = db[c] \/ \E j \in DOMAIN queue : queue'[i] = queue[j]
    BY <1>2, AskShape DEF Refresh, TypeOK, Request
  <2> QED
    BY <1>2, <2>1, ListsWithin DEF Refresh
<1>3. ASSUME NEW c \in Client, Receive(c) PROVE MergeShape
  <2>1. CASE db' = db
    <3>1. \A d \in Client : answer'[d] \in {answer[d], None}
      BY <1>3 DEF Receive, TypeOK
    <3>2. Lists' \subseteq Derived
      <4>1. UNCHANGED <<queue, pending, net, row, scan>>
        BY <1>3 DEF Receive
      <4>2. \A d \in Client : db'[d] \in Derived
        BY <2>1
      <4>3. \A d \in Client : answer'[d].kind = "ack" => answer'[d].list \in Derived
        BY <3>1 DEF None
      <4> QED
        BY <4>1, <4>2, <4>3, ListsWithin
    <3> QED
      BY <1>3, <2>1, <3>2 DEF Receive
  <2>2. CASE answer[c].kind = "ack" /\ db' = [db EXCEPT ![c] = Join(@, answer[c].list)]
    <3>1. db[c] \in Lists /\ answer[c].list \in Lists
      BY <2>2
    <3>2. \A d \in Client : db'[d] \in {db[d], Join(db[c], answer[c].list)}
      BY <2>2 DEF TypeOK
    <3>3. \A d \in Client : answer'[d] \in {answer[d], None}
      BY <1>3 DEF Receive, TypeOK
    <3>4. Lists' \subseteq Derived
      BY <1>3, <3>1, <3>2, <3>3, ListsWithin DEF Receive, None
    <3> QED
      BY <1>3, <2>2, <3>1, <3>4, ListsWithin DEF Receive
  <2> QED
    BY <1>3, <2>1, <2>2, ListsWithin DEF Receive
<1>4. ASSUME NEW c \in Client, GiveUp(c) PROVE MergeShape
  <2>1. \A d \in Client : answer'[d] \in {answer[d], None}
    BY <1>4 DEF GiveUp, TypeOK
  <2>2. \A i \in DOMAIN queue' : i \in DOMAIN queue /\ queue'[i].list = queue[i].list
    <3>1. \A i \in DOMAIN queue : queue[i] \in Requests
      BY LenProperties, ElementOfSeq DEF TypeOK
    <3> QED
      BY <1>4, <3>1 DEF GiveUp, Requests
  <2>3. /\ pending'.kind # "none" => pending.kind # "none"
        /\ pending.kind # "none" => /\ pending'.list = pending.list
                                    /\ pending'.base = pending.base
                                    /\ pending'.merged = pending.merged
    BY <1>4 DEF GiveUp, TypeOK, None, InFlights
  <2> QED
    BY <1>4, <2>1, <2>2, <2>3, ListsWithin DEF GiveUp, None
<1>5. ASSUME NEW c \in Client, Reopen(c) PROVE MergeShape
  BY <1>5, ListsWithin DEF Reopen
<1>6. ASSUME StartPut PROVE MergeShape
  <2>1. PICK rid \in Rid :
          /\ pending' = InFlight("put", Head(queue), rid, Empty)
          /\ net' = net \cup WriteFanOut(rid, Head(queue).list)
    BY <1>6 DEF StartPut
  <2>2. Head(queue).list \in Lists /\ \A i \in DOMAIN queue' : queue'[i].list \in Lists
    BY <1>6, HeadShape DEF StartPut, RequestWaits, TypeOK
  <2>3. {pending'.list, pending'.base, pending'.merged} \subseteq Derived
    BY <2>1, <2>2 DEF InFlight
  <2>4. \A m \in net' \ net : m.list \in Lists
    BY <2>1, <2>2 DEF WriteFanOut
  <2> QED
    BY <1>6, <2>2, <2>3, <2>4, ListsWithin DEF StartPut
<1>7. ASSUME StartRead PROVE MergeShape
  <2>1. PICK rid \in Rid :
          /\ pending' = InFlight("read", Head(queue), rid, row[Coordinator].list)
          /\ net' = net \cup ReadFanOut(rid)
    BY <1>7 DEF StartRead
  <2>2. Head(queue).list \in Lists /\ \A i \in DOMAIN queue' : queue'[i].list \in Lists
    BY <1>7, HeadShape DEF StartRead, RequestWaits, TypeOK
  <2>3. row[Coordinator].list \in Lists
    BY <1>7, CoordinatorAssumption DEF StartRead
  <2>4. {pending'.list, pending'.base, pending'.merged} \subseteq Derived
    BY <2>1, <2>2, <2>3 DEF InFlight
  <2>5. \A m \in net' \ net : m.type = "Read"
    BY <2>1 DEF ReadFanOut
  <2> QED
    BY <1>7, <2>2, <2>4, <2>5, ListsWithin DEF StartRead
<1>8. ASSUME NoReplicas PROVE MergeShape
  BY <1>8, HeadShape, ListsWithin DEF NoReplicas, RequestWaits, TypeOK
<1>9. ASSUME CompletePut PROVE MergeShape
  <2>1. pending.list \in Lists
    BY <1>9 DEF CompletePut
  <2>2. \A c \in Client : answer'[c] \in {answer[c], Answer(pending.list)}
    BY <1>9 DEF CompletePut, Send, TypeOK
  <2>3. \A p \in Peer : row'[p] \in {row[p], Stored(pending.list, NoHint)}
    BY <1>9 DEF CompletePut, TypeOK
  <2> QED
    BY <1>9, <2>1, <2>2, <2>3, ListsWithin DEF CompletePut, None, Answer, Stored
<1>10. ASSUME CompleteRead PROVE MergeShape
  <2> DEFINE list == Join(pending.base, pending.merged)
  <2>1. list \in Derived
    BY <1>10 DEF CompleteRead
  <2>2. \A c \in Client : answer'[c] \in {answer[c], Answer(list)}
    BY <1>10 DEF CompleteRead, Send, TypeOK
  <2>3. \A p \in Peer : row'[p] \in {row[p], Stored(list, NoHint)}
    BY <1>10 DEF CompleteRead, TypeOK
  <2> HIDE DEF list
  <2> QED
    BY <1>10, <2>1, <2>2, <2>3, ListsWithin DEF CompleteRead, None, Answer, Stored
<1>11. ASSUME QuorumTimeout PROVE MergeShape
  <2>1. \A c \in Client : answer'[c] \in {answer[c], Nack}
    BY <1>11 DEF QuorumTimeout, Send, TypeOK
  <2> QED
    BY <1>11, <2>1, ListsWithin DEF QuorumTimeout, None, Nack
<1>12. ASSUME NEW m \in net, PeerWrite(m) PROVE MergeShape
  BY <1>12, ListsWithin DEF PeerWrite, Reply, Stored
<1>13. ASSUME NEW m \in net, PeerRead(m) PROVE MergeShape
  <2>1. row[m.to] # None => row[m.to].list \in Lists
    BY <1>13 DEF PeerRead, TypeOK, WellFormed
  <2>2. \A n \in net' \ net : row[m.to] # None /\ n.list = row[m.to].list
    BY <1>13 DEF PeerRead, Reply
  <2> QED
    BY <1>13, <2>1, <2>2, ListsWithin DEF PeerRead
<1>14. ASSUME NEW m \in net, PeerHandoff(m) PROVE MergeShape
  BY <1>14, ListsWithin DEF PeerHandoff, Reply, Stored
<1>15. ASSUME NEW m \in net, OnAck(m) PROVE MergeShape
  <2>1. /\ pending'.kind # "none" => pending.kind # "none"
        /\ pending.kind # "none" => /\ pending'.list = pending.list
                                    /\ pending'.base = pending.base
                                    /\ pending'.merged = pending.merged
    BY <1>15 DEF OnAck, TypeOK, None, InFlights
  <2> QED
    BY <1>15, <2>1, ListsWithin DEF OnAck
<1>16. ASSUME NEW m \in net, OnAckList(m) PROVE MergeShape
  <2>1. CASE pending' = pending
    BY <1>16, <2>1, ListsWithin DEF OnAckList
  <2>2. CASE /\ IsFor(m, "read")
             /\ pending' = [pending EXCEPT !.received = @ + 1,
                                           !.merged = Join(@, m.list)]
    <3>1. /\ pending.list \in Lists /\ pending.base \in Lists
          /\ pending.merged \in Lists /\ m.list \in Lists
      BY <1>16, <2>2 DEF OnAckList, IsFor
    <3>2. pending \in InFlights
      BY <2>2 DEF TypeOK, IsFor, None
    <3>3. /\ pending'.list = pending.list /\ pending'.base = pending.base
          /\ pending'.merged = Join(pending.merged, m.list)
      BY <2>2, <3>2 DEF InFlights
    <3> QED
      BY <1>16, <3>1, <3>3, ListsWithin DEF OnAckList
  <2> QED
    BY <1>16, <2>1, <2>2, ListsWithin DEF OnAckList
<1>17. ASSUME NEW m \in net, Lose(m) PROVE MergeShape
  BY <1>17, ListsWithin DEF Lose
<1>18. ASSUME NEW p \in Peer, HandoffScan(p) PROVE MergeShape
  BY <1>18, ListsWithin DEF HandoffScan
<1>19. ASSUME NEW p \in Peer, HandoffSend(p) PROVE MergeShape
  <2>1. scan[p].list \in Lists
    BY <1>19 DEF HandoffSend, None
  <2>2. \A q \in Peer : scan'[q] # None => (scan'[q].list = scan[q].list /\ scan[q] # None)
    <3>1. scan[p] \in Scans
      BY <1>19 DEF TypeOK, HandoffSend, None
    <3>2. [scan[p] EXCEPT !.kind = "sent"].list = scan[p].list
      BY <3>1 DEF Scans
    <3>3. scan' \in {[scan EXCEPT ![p] = [scan[p] EXCEPT !.kind = "sent"]],
                     [scan EXCEPT ![p] = None]}
      BY <1>19 DEF HandoffSend
    <3>4. scan[p] # None
      BY <1>19 DEF HandoffSend, None
    <3>5. scan'[p] \in {[scan[p] EXCEPT !.kind = "sent"], None}
      BY <3>3 DEF TypeOK
    <3>6. \A q \in Peer \ {p} : scan'[q] = scan[q]
      BY <3>3 DEF TypeOK
    <3>7. scan'[p] # None => (scan'[p].list = scan[p].list /\ scan[p] # None)
      BY <3>2, <3>4, <3>5
    <3> QED
      BY <3>6, <3>7
  <2>3. \A m \in net' \ net : m.list = scan[p].list
    BY <1>19 DEF HandoffSend
  <2> QED
    BY <1>19, <2>1, <2>2, <2>3, ListsWithin DEF HandoffSend
<1>20. ASSUME NEW p \in Peer, HandoffDelete(p) PROVE MergeShape
  BY <1>20, ListsWithin DEF HandoffDelete, TypeOK
<1>21. ASSUME NEW q \in Peer, JoinRing(q) PROVE MergeShape
  BY <1>21, ListsWithin DEF JoinRing
<1>22. ASSUME NEW p \in Peer, NEW q \in Peer, JoinMembership(p, q) PROVE MergeShape
  BY <1>22, ListsWithin DEF JoinMembership
<1>23. ASSUME RestartServers PROVE MergeShape
  BY <1>23, ListsWithin DEF RestartServers, None
<1>24. CASE UNCHANGED vars
  BY <1>24, ListsWithin DEF vars
<1> QED
  BY <1>1, <1>2, <1>3, <1>4, <1>5, <1>6, <1>7, <1>8, <1>9, <1>10, <1>11, <1>12,
     <1>13, <1>14, <1>15, <1>16, <1>17, <1>18, <1>19, <1>20, <1>21, <1>22, <1>23,
     <1>24 DEF Next, ClientStep, CoordinatorStep, Deliver, HandoffStep, GossipStep

-----------------------------------------------------------------------------
(* Local first, and the refinement of CausalList. *)

\* The history variable counts the edits that the databases count.
EditsAreMade == \A c \in Client : Len(made[c]) = db[c][c]

\* The inductive invariant.  A copy that a client is answered with leaves its
\* own edits alone because of LocalFirst; a new edit is the last one that was
\* made because of EditsAreMade, and its copy a past because the copy it was
\* made of is one.
CausalInv == TypeOK /\ LocalFirst /\ ListsArePasts /\ EditsAreMade

\* Every copy is a list.
LEMMA ListsType == TypeOK => Lists \subseteq List
<1> SUFFICES ASSUME TypeOK PROVE Lists \subseteq List
  OBVIOUS
<1>1. \A c \in Client : /\ db[c] \in List
                        /\ answer[c].kind = "ack" => answer[c].list \in List
  <2>1. \A c \in Client : db[c] \in List /\ answer[c] \in Answers
    BY DEF TypeOK
  <2>2. \A a \in Answers : a.kind = "ack" => a.list \in List
    BY DEF Answers, None, Nack
  <2> QED
    BY <2>1, <2>2
<1>2. \A i \in DOMAIN queue : queue[i].list \in List
  <2>1. \A i \in DOMAIN queue : queue[i] \in Requests
    BY LenProperties, ElementOfSeq DEF TypeOK
  <2> QED
    BY <2>1 DEF Requests
<1>3. pending.kind # "none" => /\ pending.list \in List /\ pending.base \in List
                               /\ pending.merged \in List
  BY DEF TypeOK, InFlights, None
<1>4. \A m \in net : m.type \in {"Replicate", "Handoff", "AckList"} => m.list \in List
  BY DEF TypeOK, WellFormed
<1>5. \A p \in Peer : /\ row[p] # None => row[p].list \in List
                      /\ scan[p] # None => scan[p].list \in List
  BY DEF TypeOK, Rows, Scans
<1> QED
  BY <1>1, <1>2, <1>3, <1>4, <1>5 DEF Lists, Message

\* A merge of pasts is a past: each entry is one of either side, which holds
\* what its author knew.
LEMMA JoinIsPast ==
    ASSUME TypeOK, NEW l \in List, NEW m \in List, Causal!Past(l), Causal!Past(m)
    PROVE  Causal!Past(Join(l, m))
<1> DEFINE j == Join(l, m)
<1>1. j \in List /\ \A c \in Client : l[c] <= j[c] /\ m[c] <= j[c] /\ j[c] \in {l[c], m[c]}
  BY JoinType
<1> HIDE DEF j
<1> SUFFICES ASSUME NEW d \in Client
             PROVE  /\ j[d] <= Len(made[d])
                    /\ j[d] > 0 => \A e \in Client : made[d][j[d]][e] <= j[e]
  BY DEF Causal!Past, j
<1>2. j[d] <= Len(made[d])
  BY <1>1 DEF Causal!Past
<1>3. ASSUME j[d] > 0, NEW e \in Client PROVE made[d][j[d]][e] <= j[e]
  <2>1. made[d] \in Seq(List) /\ j[d] \in 1 .. Len(made[d])
    BY <1>1, <1>2, <1>3 DEF TypeOK, List
  <2>2. made[d][j[d]][e] \in Nat
    BY <2>1, ElementOfSeq DEF List
  <2>3. l[e] \in Nat /\ m[e] \in Nat /\ j[e] \in Nat
    BY <1>1 DEF List
  <2>4. made[d][j[d]][e] <= l[e] \/ made[d][j[d]][e] <= m[e]
    BY <1>1, <1>3 DEF Causal!Past
  <2> QED
    BY <1>1, <2>2, <2>3, <2>4
<1> QED
  BY <1>2, <1>3

\* What an edit does to the database and the history of its author.
LEMMA EditEffect ==
    ASSUME TypeOK, TypeOK', EditsAreMade, NEW c \in Client, EditShape(c)
    PROVE  /\ db'[c] \in List
           /\ db'[c][c] = db[c][c] + 1
           /\ \A d \in Client \ {c} : db'[c][d] = db[c][d] /\ db'[d] = db[d]
           /\ Len(made'[c]) = Len(made[c]) + 1
           /\ \A i \in 1 .. Len(made[c]) : made'[c][i] = made[c][i]
           /\ made'[c][Len(made[c]) + 1] = db'[c]
           /\ \A d \in Client \ {c} : made'[d] = made[d]
<1>1. /\ db \in [Client -> List] /\ db' \in [Client -> List]
      /\ made \in [Client -> Seq(List)]
  BY DEF TypeOK
<1>2. db'[c] = [db[c] EXCEPT ![c] = @ + 1] /\ \A d \in Client \ {c} : db'[d] = db[d]
  BY <1>1 DEF EditShape
<1>3. /\ made'[c] = Append(made[c], db'[c])
      /\ \A d \in Client \ {c} : made'[d] = made[d]
  BY <1>1 DEF EditShape
<1>4. /\ db'[c][c] = db[c][c] + 1
      /\ \A d \in Client \ {c} : db'[c][d] = db[c][d]
  BY <1>1, <1>2 DEF List
<1>5. /\ Len(made'[c]) = Len(made[c]) + 1
      /\ \A i \in 1 .. Len(made[c]) : made'[c][i] = made[c][i]
      /\ made'[c][Len(made[c]) + 1] = db'[c]
  BY <1>1, <1>3, AppendProperties
<1> QED
  BY <1>1, <1>2, <1>3, <1>4, <1>5

\* A past stays one when more edits are made.
LEMMA PastStays ==
    ASSUME TypeOK, TypeOK', EditsAreMade, NEW c \in Client, EditShape(c),
           NEW l \in List, Causal!Past(l)
    PROVE  Causal!Past(l)'
<1> SUFFICES ASSUME NEW d \in Client
             PROVE  /\ l[d] <= Len(made'[d])
                    /\ l[d] > 0 => \A e \in Client : made'[d][l[d]][e] <= l[e]
  BY DEF Causal!Past
<1>1. /\ l[d] \in Nat /\ Len(made[d]) \in Nat
      /\ l[d] <= Len(made[d])
      /\ l[d] > 0 => \A e \in Client : made[d][l[d]][e] <= l[e]
  BY LenProperties DEF TypeOK, List, Causal!Past
<1>2. Len(made'[d]) \in {Len(made[d]), Len(made[d]) + 1}
  BY EditEffect
<1>3. l[d] > 0 => made'[d][l[d]] = made[d][l[d]]
  BY <1>1, EditEffect
<1> QED
  BY <1>1, <1>2, <1>3

\* The copy that an edit makes is a past.
LEMMA EditIsPast ==
    ASSUME TypeOK, TypeOK', EditsAreMade, NEW c \in Client, EditShape(c),
           Causal!Past(db[c])
    PROVE  \A d \in Client :
              /\ db'[c][d] <= Len(made'[d])
              /\ db'[c][d] > 0 =>
                    \A e \in Client : made'[d][db'[c][d]][e] <= db'[c][e]
<1> TAKE d \in Client
<1>1. /\ db[c] \in List /\ db'[c] \in List /\ Len(made[d]) \in Nat
      /\ Len(made[c]) = db[c][c]
  BY LenProperties DEF TypeOK, EditsAreMade
<1>2. /\ \A e \in Client : db[c][e] \in Nat /\ db'[c][e] \in Nat
      /\ \A e \in Client : db[c][e] <= db'[c][e]
  BY <1>1, EditEffect DEF List
<1>3. CASE d = c
  <2>1. db'[c][c] = Len(made[c]) + 1 /\ Len(made'[c]) = Len(made[c]) + 1
    BY <1>1, EditEffect
  <2>2. made'[c][db'[c][c]] = db'[c]
    BY <2>1, EditEffect
  <2> QED
    BY <1>2, <1>3, <2>1, <2>2
<1>4. CASE d # c
  <2>1. db'[c][d] = db[c][d] /\ made'[d] = made[d]
    BY <1>4, EditEffect
  <2>2. /\ db[c][d] <= Len(made[d])
        /\ db[c][d] > 0 => \A e \in Client : made[d][db[c][d]][e] <= db[c][e]
    BY DEF Causal!Past
  <2>3. ASSUME db[c][d] > 0, NEW e \in Client
        PROVE  made[d][db[c][d]][e] <= db'[c][e]
    <3>1. made[d] \in Seq(List) /\ db[c][d] \in 1 .. Len(made[d])
      BY <1>1, <1>2, <2>2, <2>3 DEF TypeOK
    <3>2. made[d][db[c][d]][e] \in Nat
      BY <3>1, ElementOfSeq DEF List
    <3> QED
      BY <1>2, <2>2, <2>3, <3>2
  <2> QED
    BY <2>1, <2>2, <2>3
<1> QED
  BY <1>3, <1>4

\* Every step keeps the inductive invariant.
LEMMA CausalStep == CausalInv /\ [Next]_vars => CausalInv'
<1> SUFFICES ASSUME CausalInv, [Next]_vars PROVE CausalInv'
  OBVIOUS
<1>1. TypeOK /\ TypeOK' /\ LocalFirst /\ ListsArePasts /\ EditsAreMade
  BY TypeStep DEF CausalInv
<1>2. /\ Lists \subseteq List
      /\ \A l \in Lists : Causal!Past(l)
      /\ \A l \in Lists : \A c \in Client : l[c] <= db[c][c]
      /\ \A c \in Client : db[c] \in Lists
  BY <1>1, ListsType, ListsHold DEF ListsArePasts, LocalFirst
<1>3. ASSUME NEW c \in Client, EditShape(c) PROVE CausalInv'
  <2>1. EditsAreMade'
    BY <1>1, <1>3, EditEffect DEF EditsAreMade
  <2>2. \A l \in Lists' : l \in Lists \/ l = db'[c]
    BY <1>3 DEF EditShape
  <2>3. \A d \in Client : db[d][d] <= db'[d][d] /\ db'[c][d] <= db'[d][d]
    <3> TAKE d \in Client
    <3>1. db[d][d] \in Nat /\ db[c][d] \in Nat /\ db[c][d] <= db[d][d]
      BY <1>1, <1>2 DEF TypeOK, List
    <3> QED
      BY <1>1, <1>3, <3>1, EditEffect
  <2>4. LocalFirst'
    <3> SUFFICES ASSUME NEW l \in Lists', NEW d \in Client PROVE l[d] <= db'[d][d]
      BY DEF LocalFirst
    <3>1. CASE l \in Lists
      <4>1. l[d] \in Nat /\ db[d][d] \in Nat /\ db'[d][d] \in Nat
        BY <1>1, <1>2, <3>1 DEF TypeOK, List
      <4> QED
        BY <1>2, <2>3, <3>1, <4>1
    <3> QED
      BY <2>2, <2>3, <3>1
  <2>5. ListsArePasts'
    <3> SUFFICES ASSUME NEW l \in Lists' PROVE Causal!Past(l)'
      BY DEF ListsArePasts
    <3>1. CASE l \in Lists
      BY <1>1, <1>2, <1>3, <3>1, PastStays
    <3>2. CASE l = db'[c]
      BY <1>1, <1>2, <1>3, <3>2, EditIsPast DEF Causal!Past
    <3> QED
      BY <2>2, <3>1, <3>2
  <2> QED
    BY <1>1, <2>1, <2>4, <2>5 DEF CausalInv
<1>4. ASSUME MergeShape PROVE CausalInv'
  <2>1. made' = made /\ Lists' \subseteq Derived
    BY <1>4 DEF MergeShape
  <2>2. \A c \in Client : db'[c][c] = db[c][c]
    <3>1. ASSUME NEW c \in Client, NEW l \in Lists, db' = [db EXCEPT ![c] = Join(@, l)]
          PROVE  \A d \in Client : db'[d][d] = db[d][d]
      <4>1. l \in List /\ db[c] \in List /\ l[c] <= db[c][c]
        BY <1>1, <1>2, <3>1 DEF TypeOK
      <4>2. Join(db[c], l)[c] = db[c][c]
        BY <4>1 DEF Join, List
      <4>3. db'[c] = Join(db[c], l) /\ \A d \in Client \ {c} : db'[d] = db[d]
        BY <1>1, <3>1 DEF TypeOK
      <4> QED
        BY <4>2, <4>3
    <3> QED
      BY <1>4, <3>1 DEF MergeShape
  <2>3. ASSUME NEW l \in Derived
        PROVE  Causal!Past(l) /\ \A c \in Client : l[c] <= db[c][c]
    <3>1. CASE l \in Lists
      BY <1>2, <3>1
    <3>2. CASE l = Empty
      <4>1. \A d \in Client : l[d] = 0 /\ Len(made[d]) \in Nat /\ db[d][d] \in Nat
        BY <1>1, <3>2, LenProperties DEF Empty, TypeOK, List
      <4> QED
        BY <4>1 DEF Causal!Past
    <3>3. ASSUME NEW m \in Lists, NEW n \in Lists, l = Join(m, n)
          PROVE  Causal!Past(l) /\ \A c \in Client : l[c] <= db[c][c]
      <4>1. m \in List /\ n \in List /\ \A c \in Client : l[c] \in {m[c], n[c]}
        BY <1>2, <3>3, JoinType
      <4> QED
        BY <1>1, <1>2, <3>3, <4>1, JoinIsPast
    <3> QED
      BY <3>1, <3>2, <3>3 DEF Derived
  <2>4. ListsArePasts' /\ LocalFirst'
    BY <2>1, <2>2, <2>3 DEF ListsArePasts, LocalFirst, Causal!Past
  <2>5. EditsAreMade'
    BY <1>1, <2>1, <2>2 DEF EditsAreMade
  <2> QED
    BY <1>1, <2>4, <2>5 DEF CausalInv
<1> QED
  BY <1>1, <1>3, <1>4, StepShape

\* The inductive invariant holds from the start.
LEMMA CausalInit == Init => CausalInv
<1> SUFFICES ASSUME Init PROVE CausalInv
  OBVIOUS
<1>1. TypeOK
  BY TypeInit
<1>2. \A l \in Lists : l = Empty
  BY DEF Init, Lists, Message, None
<1>3. \A c \in Client : db[c] = Empty /\ made[c] = <<>> /\ Empty[c] = 0
  BY DEF Init, Empty
<1>4. Len(<<>>) = 0
  BY EmptySeq
<1> QED
  BY <1>1, <1>2, <1>3, <1>4
  DEF CausalInv, LocalFirst, ListsArePasts, EditsAreMade, Causal!Past

\* The inductive invariant always holds.
LEMMA CausalInductive == Spec => []CausalInv
  BY CausalInit, CausalStep, PTL DEF Spec

\* An edit is in no message, row, answer or other database before it is in its
\* author's own: update_list comes before send_request, so that losing every
\* server loses nothing.
THEOREM ReplicationLocalFirst == Spec => []LocalFirst
<1>1. CausalInv => LocalFirst
  BY DEF CausalInv
<1> QED
  BY <1>1, CausalInductive, PTL

\* Whatever is lost, repeated, overtaken, timed out or restarted on the servers'
\* side, no copy shows an edit without all its author knew.
THEOREM ReplicationListsArePasts == Spec => []ListsArePasts
<1>1. CausalInv => ListsArePasts
  BY DEF CausalInv
<1> QED
  BY <1>1, CausalInductive, PTL

\* The clients, the coordinator and the replicas together implement CausalList:
\* every step is an edit, a merge with a past, or invisible to the users.
THEOREM ReplicationImplementsCausalList == Spec => ImplementsCausalList
<1>1. Init => Causal!Init
  BY DEF Init, Empty, Causal!Init
<1>2. CausalInv /\ [Next]_vars => [Causal!Next]_Causal!vars
  <2> SUFFICES ASSUME CausalInv, [Next]_vars
               PROVE  Causal!Next \/ UNCHANGED Causal!vars
    OBVIOUS
  <2>1. TypeOK /\ TypeOK' /\ CausalInv'
    BY CausalStep DEF CausalInv
  <2>2. ASSUME NEW c \in Client, EditShape(c) PROVE Causal!Edit(c)
    BY <2>2 DEF EditShape, Causal!Edit
  <2>3. CASE MergeShape
    <3>1. made' = made
      BY <2>3 DEF MergeShape
    <3>2. CASE db' = db
      BY <3>1, <3>2 DEF Causal!vars
    <3>3. ASSUME NEW c \in Client, NEW l \in Lists, db' = [db EXCEPT ![c] = Join(@, l)]
          PROVE  Causal!Learn(c)
      <4> DEFINE v == Join(db[c], l)
      <4>1. l \in List /\ db[c] \in List
        BY <2>1, ListsType DEF TypeOK
      <4>2. v \in List /\ \A d \in Client : db[c][d] <= v[d]
        BY <4>1, JoinType
      <4>3. Causal!Past(l) /\ Causal!Past(db[c])
        BY ListsHold DEF CausalInv, ListsArePasts
      <4>4. Causal!Past(v)
        BY <2>1, <4>1, <4>3, JoinIsPast
      <4>5. db' = [db EXCEPT ![c] = v]
        BY <3>3
      <4> HIDE DEF v
      <4>6. v \in [Client -> Causal!Counts]
        <5>1. \A d \in Client : v[d] \in 0 .. Len(made[d])
          BY <2>1, <4>2, <4>4, LenProperties DEF Causal!Past, List, TypeOK
        <5> QED
          BY <4>2, <5>1 DEF List, Causal!Counts
      <4> QED
        BY <3>1, <4>2, <4>4, <4>5, <4>6 DEF Causal!Learn
    <3> QED
      BY <2>3, <3>2, <3>3 DEF MergeShape, Causal!Next
  <2> QED
    BY <2>1, <2>2, <2>3, StepShape DEF Causal!Next
<1> QED
  BY <1>1, <1>2, CausalInductive, PTL DEF Spec, ImplementsCausalList, Causal!Spec

-----------------------------------------------------------------------------
(* One answer for one request. *)

Queued(c) == \E i \in DOMAIN queue : queue[i].client = c

InProgress(c) == pending.kind # "none" /\ pending.client = c

\* What a client has asked for is at one place of its way, and nowhere once the
\* client does not wait any more.
OnePlace(c) ==
    /\ session[c] \in {"idle", "stuck"} =>
          answer[c] = None /\ ~Queued(c) /\ ~InProgress(c)
    /\ answer[c] # None => ~Queued(c) /\ ~InProgress(c)
    /\ InProgress(c) => ~Queued(c)
    /\ \A i, j \in DOMAIN queue :
          queue[i].client = c /\ queue[j].client = c => i = j

AnswerInv == TypeOK /\ \A c \in Client : OnePlace(c)

\* The coordinator takes the first request of the queue.
LEMMA StartKeepsPlaces ==
    ASSUME AnswerInv, RequestWaits, queue' = Tail(queue),
           pending'.client = Head(queue).client,
           answer' = answer, session' = session
    PROVE  \A c \in Client : OnePlace(c)'
<1>1. /\ \E i \in DOMAIN queue : Head(queue) = queue[i]
      /\ \A i \in DOMAIN queue' : i + 1 \in DOMAIN queue /\ queue'[i] = queue[i + 1]
  BY HeadShape DEF AnswerInv, TypeOK, RequestWaits
<1>2. /\ 1 \in DOMAIN queue /\ Head(queue) = queue[1]
      /\ \A i \in DOMAIN queue' : i \in Nat /\ i # 0
  BY HeadTailProperties, LenProperties, EmptySeq DEF AnswerInv, TypeOK, RequestWaits
<1>3. pending.kind = "none"
  BY DEF RequestWaits
<1> TAKE c \in Client
<1>4. OnePlace(c)
  BY DEF AnswerInv
<1>5. Queued(c)' => Queued(c) /\ Head(queue).client # c
  <2> SUFFICES ASSUME NEW i \in DOMAIN queue', queue'[i].client = c
               PROVE  Queued(c) /\ Head(queue).client # c
    BY DEF Queued
  <2>1. /\ i + 1 \in DOMAIN queue /\ queue[i + 1].client = c /\ i + 1 # 1
    BY <1>1, <1>2
  <2> QED
    BY <1>2, <1>4, <2>1 DEF OnePlace, Queued
<1>6. InProgress(c)' => Queued(c) /\ Head(queue).client = c
  BY <1>1 DEF InProgress, Queued
<1>7. ASSUME NEW i \in DOMAIN queue', NEW j \in DOMAIN queue',
             queue'[i].client = c, queue'[j].client = c
      PROVE  i = j
  <2>1. i + 1 = j + 1
    BY <1>1, <1>4, <1>7 DEF OnePlace
  <2> QED
    BY <1>2, <2>1
<1> QED
  BY <1>4, <1>5, <1>6, <1>7 DEF OnePlace

\* The request in progress ends, with an answer or without.
LEMMA EndKeepsPlaces ==
    ASSUME AnswerInv, pending.kind # "none", NEW a, Send(pending.client, a),
           pending' = None, queue' = queue, session' = session
    PROVE  \A c \in Client : OnePlace(c)'
<1> TAKE c \in Client
<1>1. OnePlace(c)
  BY DEF AnswerInv
<1>2. answer'[c] = answer[c] \/ pending.client = c
  BY DEF Send, AnswerInv, TypeOK
<1>3. Queued(c)' = Queued(c) /\ ~InProgress(c)'
  BY DEF Queued, InProgress, None
<1> QED
  BY <1>1, <1>2, <1>3 DEF OnePlace, InProgress

\* A client asks: the request is last in the queue.
LEMMA AskKeepsPlaces ==
    ASSUME AnswerInv, NEW c \in Client, session[c] = "idle",
           NEW kind \in {"put", "get"}, NEW list \in List, Ask(c, kind, list),
           answer' = answer, pending' = pending
    PROVE  \A d \in Client : OnePlace(d)'
<1>1. /\ \A i \in DOMAIN queue' :
            \/ queue'[i] = Request(c, kind, list) /\ i = Len(queue) + 1
            \/ i \in DOMAIN queue /\ queue'[i] = queue[i]
  BY AskShape DEF AnswerInv, TypeOK
<1>2. session' = [session EXCEPT ![c] = kind] /\ session \in [Client -> {"idle", "put", "get", "stuck"}]
  BY DEF Ask, AnswerInv, TypeOK
<1> TAKE d \in Client
<1>3. OnePlace(d)
  BY DEF AnswerInv
<1>4. CASE d = c
  BY <1>1, <1>2, <1>3, <1>4 DEF OnePlace, Queued, InProgress
<1>5. CASE d # c
  <2>1. session'[d] = session[d]
    BY <1>2, <1>5
  <2>2. \A i \in DOMAIN queue' : queue'[i].client = d =>
                                    i \in DOMAIN queue /\ queue'[i] = queue[i]
    BY <1>1, <1>5 DEF Request
  <2> QED
    BY <1>3, <2>1, <2>2 DEF OnePlace, Queued, InProgress
<1> QED
  BY <1>4, <1>5

\* Every step keeps each request at one place.
LEMMA AnswerStep == AnswerInv /\ [Next]_vars => AnswerInv'
<1> SUFFICES ASSUME AnswerInv, [Next]_vars
             PROVE  \A c \in Client : OnePlace(c)'
  BY TypeStep DEF AnswerInv
<1>0. TypeOK /\ TypeOK' /\ \A c \in Client : OnePlace(c)
  BY TypeStep DEF AnswerInv
<1>1. CASE UNCHANGED <<session, answer, queue, pending>>
  BY <1>0, <1>1 DEF OnePlace, Queued, InProgress
<1>2. ASSUME NEW c \in Client, Edit(c) PROVE \A d \in Client : OnePlace(d)'
  <2>1. db'[c] \in List
    BY <1>0 DEF TypeOK
  <2> QED
    BY <1>1, <1>2, <2>1, AskKeepsPlaces DEF Edit
<1>3. ASSUME NEW c \in Client, Refresh(c) PROVE \A d \in Client : OnePlace(d)'
  <2>1. db[c] \in List
    BY <1>0 DEF TypeOK
  <2> QED
    BY <1>3, <2>1, AskKeepsPlaces DEF Refresh
<1>4. ASSUME NEW c \in Client, Receive(c) PROVE \A d \in Client : OnePlace(d)'
  BY <1>0, <1>4 DEF Receive, OnePlace, Queued, InProgress, TypeOK
<1>5. ASSUME NEW c \in Client, GiveUp(c) PROVE \A d \in Client : OnePlace(d)'
  <2>1. /\ DOMAIN queue' = DOMAIN queue
        /\ \A i \in DOMAIN queue :
              queue'[i].client = IF queue[i].client = c THEN NoClient
                                 ELSE queue[i].client
    <3>1. \A i \in DOMAIN queue : queue[i] \in Requests
      BY <1>0, LenProperties, ElementOfSeq DEF TypeOK
    <3> QED
      BY <1>5, <3>1 DEF GiveUp, Requests
  <2>2. \A d \in Client : InProgress(d)' => d # c /\ InProgress(d)
    BY <1>0, <1>5, AbsenceAssumption DEF GiveUp, InProgress, TypeOK, InFlights, None
  <2>3. \A d \in Client : Queued(d)' => d # c /\ Queued(d)
    BY <2>1, AbsenceAssumption DEF Queued
  <2>4. /\ answer'[c] = None
        /\ \A d \in Client \ {c} : answer'[d] = answer[d] /\ session'[d] = session[d]
    BY <1>0, <1>5 DEF GiveUp, TypeOK
  <2> QED
    BY <1>0, <2>1, <2>2, <2>3, <2>4, AbsenceAssumption DEF OnePlace
<1>6. ASSUME NEW c \in Client, Reopen(c) PROVE \A d \in Client : OnePlace(d)'
  BY <1>0, <1>6 DEF Reopen, OnePlace, Queued, InProgress, TypeOK
<1>7. CASE StartPut \/ StartRead
  <2>1. pending'.client = Head(queue).client
    BY <1>7 DEF StartPut, StartRead, InFlight
  <2> QED
    BY <1>7, <2>1, StartKeepsPlaces DEF StartPut, StartRead
<1>8. CASE NoReplicas
  <2>1. \A i \in DOMAIN queue' : i + 1 \in DOMAIN queue /\ queue'[i] = queue[i + 1]
    BY <1>0, <1>8, HeadShape DEF NoReplicas, TypeOK, RequestWaits
  <2>2. \A i \in DOMAIN queue' : i \in Nat
    BY <1>0, LenProperties DEF TypeOK
  <2>3. \A c \in Client : Queued(c)' => Queued(c)
    BY <2>1 DEF Queued
  <2>4. ASSUME NEW c \in Client, NEW i \in DOMAIN queue', NEW j \in DOMAIN queue',
               queue'[i].client = c, queue'[j].client = c
        PROVE  i = j
    <3>1. i + 1 = j + 1
      BY <1>0, <2>1, <2>4 DEF OnePlace
    <3> QED
      BY <2>2, <3>1
  <2> QED
    BY <1>0, <1>8, <2>3, <2>4 DEF NoReplicas, OnePlace, InProgress
<1>9. CASE CompletePut \/ CompleteRead \/ QuorumTimeout
  BY <1>9, EndKeepsPlaces DEF CompletePut, CompleteRead, QuorumTimeout
<1>10. ASSUME NEW m \in net, OnAck(m) \/ OnAckList(m)
       PROVE  \A c \in Client : OnePlace(c)'
  <2>1. \A c \in Client : InProgress(c)' => InProgress(c)
    BY <1>0, <1>10 DEF OnAck, OnAckList, TypeOK, InFlights, IsFor, None, InProgress
  <2> QED
    BY <1>0, <1>10, <2>1 DEF OnAck, OnAckList, OnePlace, Queued
<1>11. CASE RestartServers
  <2>1. \A c \in Client : ~Queued(c)' /\ ~InProgress(c)'
    BY <1>11 DEF RestartServers, Queued, InProgress, None
  <2> QED
    BY <1>0, <1>11, <2>1 DEF RestartServers, OnePlace, Queued
<1> QED
  BY <1>1, <1>2, <1>3, <1>4, <1>5, <1>6, <1>7, <1>8, <1>9, <1>10, <1>11
  DEF Next, vars, ClientStep, CoordinatorStep, Deliver, HandoffStep, GossipStep,
      PeerWrite, PeerRead, PeerHandoff, Lose, HandoffScan, HandoffSend, HandoffDelete,
      JoinRing, JoinMembership

\* A coordinator that reads one request at a time, a REQ socket that refuses to
\* send while it waits, and the proxy's identities of connections together give
\* each request at most one answer, and nobody else's.
THEOREM ReplicationOneAnswer == Spec => []OneAnswer
<1>1. Init => AnswerInv
  <2> SUFFICES ASSUME Init PROVE \A c \in Client : OnePlace(c)
    BY TypeInit DEF AnswerInv
  <2>1. DOMAIN queue = {}
    BY DEF Init
  <2> QED
    BY <2>1 DEF Init, OnePlace, Queued, InProgress, None
<1>2. AnswerInv => OneAnswer
  <2> SUFFICES ASSUME AnswerInv, NEW c \in Client
               PROVE  Cardinality({ i \in DOMAIN queue : queue[i].client = c })
                         + (IF pending.kind # "none" /\ pending.client = c THEN 1 ELSE 0)
                         + (IF answer[c] # None THEN 1 ELSE 0)
                         <= (IF session[c] \in {"put", "get"} THEN 1 ELSE 0)
    BY DEF OneAnswer
  <2> DEFINE waiting == { i \in DOMAIN queue : queue[i].client = c }
  <2>1. OnePlace(c) /\ session[c] \in {"idle", "put", "get", "stuck"}
    BY DEF AnswerInv, TypeOK
  <2>2. \/ waiting = {} /\ ~Queued(c)
        \/ Queued(c) /\ \E i : waiting = {i}
    BY <2>1 DEF OnePlace, Queued
  <2>3. \/ Cardinality(waiting) = 0 /\ ~Queued(c)
        \/ Cardinality(waiting) = 1 /\ Queued(c)
    BY <2>2, FS_EmptySet, FS_Singleton
  <2> HIDE DEF waiting
  <2>4. Cardinality(waiting)
          + (IF pending.kind # "none" /\ pending.client = c THEN 1 ELSE 0)
          + (IF answer[c] # None THEN 1 ELSE 0)
          <= (IF session[c] \in {"put", "get"} THEN 1 ELSE 0)
    BY <2>1, <2>3 DEF OnePlace, InProgress
  <2> QED
    BY <2>4 DEF waiting
<1> QED
  BY <1>1, <1>2, AnswerStep, PTL DEF Spec

-----------------------------------------------------------------------------
(* What the quorum counts. *)

\* The messages of request r among n: those a peer has yet to serve, and the
\* answers.
Asks(n, r) == { m \in n : m.type \in {"Replicate", "Read", "Handoff"} /\ m.rid = r }

Acks(n, r) == { m \in n : m.type \in {"Ack", "AckList"} /\ m.rid = r }

Slots == { a[1] : a \in accepted }

\* The inductive part of ReceivedIsServed: what is still asked for is asked of
\* each replica (or of its stand-in) once, and has not been served.
Counted ==
    pending.kind # "none" =>
        /\ IsFiniteSet(Acks(net, pending.rid))
        /\ pending.received + Cardinality(Acks(net, pending.rid)) <= Cardinality(Slots)
        /\ \A m \in Acks(net, pending.rid) : m.slot \in Slots
        /\ \A m \in Asks(net, pending.rid) : m.slot \notin Slots
        /\ \A m, n \in Asks(net, pending.rid) : m.slot = n.slot => m = n

ServedInv == TypeOK /\ Counted

\* There are finitely many replicas to count.
LEMMA SlotsFinite ==
    TypeOK => IsFiniteSet(Slots) /\ Cardinality(Slots) \in Nat
<1> SUFFICES ASSUME TypeOK PROVE IsFiniteSet(Slots) /\ Cardinality(Slots) \in Nat
  OBVIOUS
<1>1. Slots \subseteq Peer
  BY DEF Slots, TypeOK
<1> QED
  BY <1>1, PeerAssumption, FS_Subset, FS_CardinalityType

\* A request in progress has an id and a count.
LEMMA PendingType ==
    ASSUME TypeOK, pending.kind # "none"
    PROVE  pending \in InFlights /\ pending.rid # NoRid /\ pending.received \in Nat
  BY AbsenceAssumption DEF TypeOK, InFlights, None

\* A step that serves nothing: what was received or is on its way as an answer
\* does not become more, and no more is asked for.
LEMMA CountStays ==
    ASSUME TypeOK, Counted, accepted' = accepted,
           pending'.kind # "none" =>
              /\ pending.kind # "none"
              /\ pending'.rid = pending.rid
              /\ Asks(net', pending.rid) \subseteq Asks(net, pending.rid)
              /\ Acks(net', pending.rid) \subseteq Acks(net, pending.rid)
              /\ \/ pending'.received = pending.received
                 \/ /\ pending'.received = pending.received + 1
                    /\ Acks(net', pending.rid) # Acks(net, pending.rid)
    PROVE  Counted'
<1> SUFFICES ASSUME pending'.kind # "none" PROVE Counted'
  BY DEF Counted
<1> DEFINE old == Acks(net, pending.rid)
           new == Acks(net', pending.rid)
<1>1. /\ IsFiniteSet(old) /\ new \subseteq old
      /\ pending.received + Cardinality(old) <= Cardinality(Slots)
      /\ pending.received \in Nat /\ Cardinality(Slots) \in Nat
  BY SlotsFinite, PendingType DEF Counted
<1>2. /\ IsFiniteSet(new) /\ Cardinality(new) <= Cardinality(old)
      /\ Cardinality(new) = Cardinality(old) => new = old
      /\ Cardinality(new) \in Nat /\ Cardinality(old) \in Nat
  BY <1>1, FS_Subset, FS_CardinalityType
<1>3. pending'.received + Cardinality(new) <= Cardinality(Slots)
  BY <1>1, <1>2
<1>4. /\ \A m \in new : m.slot \in Slots
      /\ \A m \in Asks(net', pending.rid) : m.slot \notin Slots
      /\ \A m, n \in Asks(net', pending.rid) : m.slot = n.slot => m = n
  BY <1>1 DEF Counted
<1> HIDE DEF old, new
<1>5. Slots' = Slots /\ pending'.rid = pending.rid
  BY DEF Slots
<1> QED
  BY <1>2, <1>3, <1>4, <1>5 DEF Counted, old, new

\* A peer that serves its part is counted once: nobody did that part before.
LEMMA ServeCounts ==
    ASSUME TypeOK, Counted, pending' = pending, NEW m \in net,
           m.type \in {"Replicate", "Read", "Handoff"},
           NEW reply, reply.type \in {"Ack", "AckList"}, reply.rid = m.rid,
           reply.slot = m.slot, Reply(m, reply), Accept(m)
    PROVE  Counted'
<1> SUFFICES ASSUME pending.kind # "none" PROVE Counted'
  BY DEF Counted
<1>1. CASE m.rid # pending.rid
  <2>1. accepted' = accepted
    BY <1>1 DEF Accept
  <2>2. /\ Asks(net', pending.rid) \subseteq Asks(net, pending.rid)
        /\ Acks(net', pending.rid) \subseteq Acks(net, pending.rid)
    BY <1>1 DEF Reply, Asks, Acks
  <2> QED
    BY <2>1, <2>2, CountStays
<1>2. CASE m.rid = pending.rid
  <2> DEFINE old == Acks(net, pending.rid)
             new == Acks(net', pending.rid)
  <2>1. m \in Asks(net, pending.rid)
    BY <1>2 DEF Asks
  <2>2. accepted' = accepted \cup {<<m.slot, m.to>>}
    BY <1>2 DEF Accept
  <2>3. Slots' = Slots \cup {m.slot} /\ m.slot \notin Slots
    <3>1. <<m.slot, m.to>>[1] = m.slot
      OBVIOUS
    <3>2. Slots' = Slots \cup {m.slot}
      BY <2>2, <3>1 DEF Slots
    <3> QED
      BY <2>1, <3>2 DEF Counted
  <2>4. /\ IsFiniteSet(Slots) /\ Cardinality(Slots) \in Nat
        /\ Cardinality(Slots') = Cardinality(Slots) + 1
    BY <2>3, SlotsFinite, FS_AddElement
  <2>5. net' \subseteq (net \ {m}) \cup {reply}
    BY DEF Reply
  <2>6. /\ new \subseteq old \cup {reply}
        /\ Asks(net', pending.rid) \subseteq Asks(net, pending.rid) \ {m}
    BY <2>5 DEF Asks, Acks
  <2>7. /\ IsFiniteSet(old)
        /\ pending.received + Cardinality(old) <= Cardinality(Slots)
        /\ \A n \in old : n.slot \in Slots
    BY DEF Counted
  <2> HIDE DEF old, new
  <2>8. /\ IsFiniteSet(old \cup {reply})
        /\ Cardinality(old \cup {reply}) <= Cardinality(old) + 1
    <3>1. Cardinality(old) \in Nat
      BY <2>7, FS_CardinalityType
    <3>2. /\ IsFiniteSet(old \cup {reply})
          /\ \/ Cardinality(old \cup {reply}) = Cardinality(old)
             \/ Cardinality(old \cup {reply}) = Cardinality(old) + 1
      BY <2>7, FS_AddElement
    <3> QED
      BY <3>1, <3>2
  <2>9. /\ IsFiniteSet(new)
        /\ Cardinality(new) <= Cardinality(old \cup {reply})
        /\ Cardinality(new) \in Nat /\ Cardinality(old) \in Nat
        /\ Cardinality(old \cup {reply}) \in Nat
    BY <2>6, <2>7, <2>8, FS_Subset, FS_CardinalityType
  <2>10. pending.received \in Nat
    BY PendingType
  <2>11. pending.received + Cardinality(new) <= Cardinality(Slots')
    BY <2>4, <2>7, <2>8, <2>9, <2>10
  <2>12. \A n \in new : n.slot \in Slots'
    BY <2>3, <2>6, <2>7
  <2>13. /\ \A n \in Asks(net', pending.rid) : n.slot \notin Slots'
         /\ \A n, k \in Asks(net', pending.rid) : n.slot = k.slot => n = k
    BY <2>1, <2>3, <2>6 DEF Counted
  <2> QED
    BY <2>9, <2>11, <2>12, <2>13 DEF Counted, new
<1> QED
  BY <1>1, <1>2

\* The coordinator asks each replica once, for a request nothing is on its way of.
LEMMA StartCounts ==
    ASSUME TypeOK, NEW rid \in Rid, Unused(rid), NEW fan,
           pending'.rid = rid, pending'.received = 0, accepted' = {},
           net' = net \cup fan,
           \A m \in fan : m.type \in {"Replicate", "Read", "Handoff"},
           \A m, n \in fan : m.slot = n.slot => m = n
    PROVE  Counted'
<1>1. Acks(net', rid) = {} /\ Asks(net', rid) \subseteq fan
  BY DEF Acks, Asks, Unused
<1>2. Slots' = {}
  BY DEF Slots
<1>3. IsFiniteSet({}) /\ Cardinality({}) = 0 /\ 0 + 0 <= 0
  BY FS_EmptySet
<1>4. /\ IsFiniteSet(Acks(net', rid))
      /\ pending'.received + Cardinality(Acks(net', rid)) <= Cardinality(Slots')
  BY <1>1, <1>2, <1>3
<1>5. /\ \A m \in Acks(net', rid) : m.slot \in Slots'
      /\ \A m \in Asks(net', rid) : m.slot \notin Slots'
      /\ \A m, n \in Asks(net', rid) : m.slot = n.slot => m = n
  BY <1>1, <1>2
<1> QED
  BY <1>4, <1>5 DEF Counted

\* What send_replicate and send_read_replicate send goes to each replica, or to a
\* stand-in for it, once.
LEMMA FanOutOnce ==
    ASSUME TypeOK, Replicas # <<>>, NEW rid \in Rid, NEW list \in List
    PROVE  /\ \A m \in WriteFanOut(rid, list) \cup ReadFanOut(rid) :
                 m.type \in {"Replicate", "Read", "Handoff"}
           /\ \A m, n \in WriteFanOut(rid, list) : m.slot = n.slot => m = n
           /\ \A m, n \in ReadFanOut(rid) : m.slot = n.slot => m = n
<1>1. \A i, j \in DOMAIN Replicas : Replicas[i] = Replicas[j] => i = j
  BY ReplicasType
<1>2. \A n, m \in Fallback : n = m
  BY FallbackType
<1>3. ASSUME NEW m \in WriteFanOut(rid, list), NEW n \in WriteFanOut(rid, list),
             m.slot = n.slot
      PROVE  m = n
  <2>1. ASSUME NEW k \in WriteFanOut(rid, list)
        PROVE  \E i \in DOMAIN Replicas :
                  /\ k.slot = Replicas[i]
                  /\ \/ /\ Reachable(i)
                        /\ k = [type |-> "Replicate", rid |-> rid, to |-> Replicas[i],
                                slot |-> Replicas[i], list |-> list]
                     \/ /\ ~Reachable(i)
                        /\ \E f \in Fallback :
                              k = [type |-> "Handoff", rid |-> rid, to |-> f,
                                   slot |-> Replicas[i], list |-> list]
    BY <2>1 DEF WriteFanOut
  <2> QED
    BY <1>1, <1>2, <1>3, <2>1
<1>4. ASSUME NEW m \in ReadFanOut(rid), NEW n \in ReadFanOut(rid), m.slot = n.slot
      PROVE  m = n
  BY <1>1, <1>4 DEF ReadFanOut
<1> QED
  BY <1>3, <1>4 DEF WriteFanOut, ReadFanOut

\* Every step keeps the count.
LEMMA ServedStep == ServedInv /\ [Next]_vars => ServedInv'
<1> SUFFICES ASSUME ServedInv, [Next]_vars PROVE Counted'
  BY TypeStep DEF ServedInv
<1>0. TypeOK /\ Counted
  BY DEF ServedInv
<1>1. CASE UNCHANGED <<pending, net, accepted>>
  BY <1>0, <1>1, CountStays
<1>2. ASSUME NEW c \in Client, GiveUp(c) PROVE Counted'
  <2>1. pending'.kind # "none" => /\ pending.kind # "none"
                                  /\ pending'.rid = pending.rid
                                  /\ pending'.received = pending.received
    BY <1>0, <1>2 DEF GiveUp, TypeOK, InFlights, None
  <2> QED
    BY <1>0, <1>2, <2>1, CountStays DEF GiveUp
<1>3. CASE StartPut
  <2>1. PICK rid \in Rid :
          /\ Unused(rid)
          /\ pending' = InFlight("put", Head(queue), rid, Empty)
          /\ net' = net \cup WriteFanOut(rid, Head(queue).list)
          /\ accepted' = {}
    BY <1>3 DEF StartPut
  <2>2. Head(queue).list \in List /\ Replicas # <<>>
    BY <1>0, <1>3, HeadType DEF StartPut, Requests
  <2>3. pending'.rid = rid /\ pending'.received = 0
    BY <2>1 DEF InFlight
  <2> QED
    BY <1>0, <2>1, <2>2, <2>3, FanOutOnce, StartCounts
<1>4. CASE StartRead
  <2>1. PICK rid \in Rid :
          /\ Unused(rid)
          /\ pending' = InFlight("read", Head(queue), rid, row[Coordinator].list)
          /\ net' = net \cup ReadFanOut(rid)
          /\ accepted' = {}
    BY <1>4 DEF StartRead
  <2>2. Head(queue).list \in List /\ Replicas # <<>>
    BY <1>0, <1>4, HeadType DEF StartRead, Requests
  <2>3. pending'.rid = rid /\ pending'.received = 0
    BY <2>1 DEF InFlight
  <2>4. /\ \A m \in ReadFanOut(rid) : m.type \in {"Replicate", "Read", "Handoff"}
        /\ \A m, n \in ReadFanOut(rid) : m.slot = n.slot => m = n
    BY <1>0, <2>2, FanOutOnce
  <2> QED
    BY <1>0, <2>1, <2>3, <2>4, StartCounts
<1>5. CASE pending' = None
  BY <1>5 DEF Counted, None
<1>6. ASSUME NEW m \in net, PeerWrite(m) PROVE Counted'
  BY <1>0, <1>6, ServeCounts DEF PeerWrite
<1>7. ASSUME NEW m \in net, PeerRead(m) PROVE Counted'
  <2>1. CASE net' = net \ {m} /\ accepted' = accepted
    BY <1>0, <1>7, <2>1, CountStays DEF PeerRead, Asks, Acks
  <2>2. CASE /\ Reply(m, [type |-> "AckList", rid |-> m.rid, slot |-> m.slot,
                          list |-> row[m.to].list])
             /\ Accept(m)
    BY <1>0, <1>7, <2>2, ServeCounts DEF PeerRead
  <2> QED
    BY <1>7, <2>1, <2>2 DEF PeerRead
<1>8. ASSUME NEW m \in net, PeerHandoff(m) PROVE Counted'
  BY <1>0, <1>8, ServeCounts DEF PeerHandoff
<1>9. ASSUME NEW m \in net, OnAck(m) \/ OnAckList(m) PROVE Counted'
  <2>1. /\ Asks(net', pending.rid) \subseteq Asks(net, pending.rid)
        /\ Acks(net', pending.rid) \subseteq Acks(net, pending.rid)
    BY <1>9 DEF OnAck, OnAckList, Asks, Acks
  <2>2. CASE pending' = pending
    BY <1>0, <1>9, <2>1, <2>2, CountStays DEF OnAck, OnAckList
  <2>3. CASE pending' # pending
    <3>1. pending.kind # "none" /\ pending.rid = m.rid
      BY <1>9, <2>3 DEF OnAck, OnAckList, IsFor
    <3>2. /\ pending'.rid = pending.rid
          /\ pending'.received = pending.received + 1
      BY <1>0, <1>9, <2>3, <3>1 DEF OnAck, OnAckList, TypeOK, InFlights, None
    <3>3. m \in Acks(net, pending.rid) /\ m \notin Acks(net', pending.rid)
      BY <1>9, <3>1 DEF OnAck, OnAckList, Acks
    <3> QED
      BY <1>0, <1>9, <2>1, <3>1, <3>2, <3>3, CountStays DEF OnAck, OnAckList
  <2> QED
    BY <2>2, <2>3
<1>10. ASSUME NEW m \in net, Lose(m) PROVE Counted'
  BY <1>0, <1>10, CountStays DEF Lose, Asks, Acks
<1>11. ASSUME NEW p \in Peer, HandoffSend(p) PROVE Counted'
  <2>1. pending.kind # "none" => /\ Asks(net', pending.rid) = Asks(net, pending.rid)
                                 /\ Acks(net', pending.rid) = Acks(net, pending.rid)
    BY <1>0, <1>11, PendingType DEF HandoffSend, Asks, Acks
  <2> QED
    BY <1>0, <1>11, <2>1, CountStays DEF HandoffSend
<1> QED
  BY <1>1, <1>2, <1>3, <1>4, <1>5, <1>6, <1>7, <1>8, <1>9, <1>10, <1>11
  DEF Next, vars, ClientStep, CoordinatorStep, Deliver, HandoffStep, GossipStep,
      Edit, Refresh, Receive, Reopen, NoReplicas, CompletePut, CompleteRead,
      QuorumTimeout, HandoffScan, HandoffDelete, JoinRing, JoinMembership,
      RestartServers

\* What the quorum has received are answers of as many different replicas, or of
\* their stand-ins, each sent after its peer stored or read the list: an id that
\* is used again, answers that come late and peers that are replaced do not add
\* to the count.
THEOREM ReplicationReceivedIsServed == Spec => []ReceivedIsServed
<1>1. Init => ServedInv
  BY TypeInit DEF Init, ServedInv, Counted, None
<1>2. ServedInv => ReceivedIsServed
  BY DEF ServedInv, Counted, ReceivedIsServed, Acks, Slots
<1> QED
  BY <1>1, <1>2, ServedStep, PTL DEF Spec

=============================================================================

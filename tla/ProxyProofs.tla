---------------------------- MODULE ProxyProofs ----------------------------
(***************************************************************************)
(* What the proxy keeps for any number of users, lists and peers, and of   *)
(* restarts: whatever reaches a user is the answer to what it asked.       *)
(***************************************************************************)
EXTENDS Proxy, FiniteSetTheorems, SequenceTheorems, TLAPS

\* The identities of connections never run out: whichever finitely many of them are
\* in use, there are others for all users.
Identities ==
    /\ IsFiniteSet(User)
    /\ \A S \in SUBSET Conn : IsFiniteSet(S) =>
           \E f \in [User -> Conn \ S] : \A u, v \in User : f[u] = f[v] => u = v

Messages == [at : {"frontend", "peer", "backend", "client"},
             conn : Conn, list : List, peer : Peer \cup {NoPeer}]

\* The image of a finite set.
LEMMA ImageIsFinite ==
    ASSUME NEW S, IsFiniteSet(S), NEW T, NEW f \in [S -> T]
    PROVE  IsFiniteSet({ f[x] : x \in S })
<1> DEFINE R == { f[x] : x \in S }
<1>1. f \in [S -> R] /\ \A t \in R : \E x \in S : f[x] = t
  OBVIOUS
<1>2. f \in Surjection(S, R)
  BY <1>1 DEF Surjection
<1> QED
  BY <1>2, FS_Surjection

\* A new identity is in nobody's use and in no message, and no two are the same.
LEMMA FreshType ==
    ASSUME Identities, conn \in [User -> Conn], net \subseteq Messages, IsFiniteSet(net),
           NEW users \in SUBSET User
    PROVE  /\ Fresh(users) \in [users -> Conn]
           /\ \A u \in users : \A v \in User : Fresh(users)[u] # conn[v]
           /\ \A u \in users : \A m \in net : Fresh(users)[u] # m.conn
           /\ \A u, v \in users : Fresh(users)[u] = Fresh(users)[v] => u = v
<1> DEFINE used == { conn[u] : u \in User } \cup { m.conn : m \in net }
           unused == Conn \ used
<1>1. IsFiniteSet({ conn[u] : u \in User })
  <2>1. IsFiniteSet(User)
    BY DEF Identities
  <2> QED
    BY ONLY <2>1, conn \in [User -> Conn], ImageIsFinite
<1>2. IsFiniteSet({ m.conn : m \in net })
  <2> DEFINE g == [m \in net |-> m.conn]
  <2>1. g \in [net -> Conn]
    BY DEF Messages
  <2>2. IsFiniteSet({ g[m] : m \in net })
    <3> HIDE DEF g
    <3> QED
      BY ONLY <2>1, IsFiniteSet(net), ImageIsFinite
  <2>3. { g[m] : m \in net } = { m.conn : m \in net }
    OBVIOUS
  <2> QED
    BY <2>2, <2>3
<1>3. IsFiniteSet(used) /\ used \in SUBSET Conn
  <2>1. used \in SUBSET Conn
    BY DEF Messages
  <2> QED
    BY <1>1, <1>2, <2>1, FS_Union
<1> HIDE DEF used
<1>4. PICK f \in [User -> unused] : \A u, v \in User : f[u] = f[v] => u = v
  BY <1>3 DEF Identities
<1>5. \E h \in [users -> unused] : \A u \in users : \A v \in users \ {u} : h[u] # h[v]
  <2> DEFINE h == [u \in users |-> f[u]]
  <2>1. h \in [users -> unused] /\ \A u \in users : \A v \in users \ {u} : h[u] # h[v]
    BY <1>4
  <2> QED
    BY <2>1
<1>6. Fresh(users) = CHOOSE h \in [users -> unused] :
                         \A u \in users : \A v \in users \ {u} : h[u] # h[v]
  BY DEF Fresh, used
<1>7. /\ Fresh(users) \in [users -> unused]
      /\ \A u \in users : \A v \in users \ {u} : Fresh(users)[u] # Fresh(users)[v]
  BY <1>5, <1>6
<1>8. /\ \A v \in User : conn[v] \in used
      /\ \A m \in net : m.conn \in used
  BY DEF used
<1> QED
  BY <1>7, <1>8

-----------------------------------------------------------------------------
(* Types.                                                                  *)

\* The ids of the starts so far.
Ids(n) == UNION { Start[i] : i \in 1 .. n }

\* New ids are not among those of earlier starts, so a READY that is under way is
\* of a peer that is not in the ring; and finitely much is under way.
ProxyTypes ==
    /\ TypeOK
    /\ ready \cup ring \subseteq Ids(starts)
    /\ IsFiniteSet(net)

LEMMA IdsOfStarts ==
    /\ \A i \in DOMAIN Start : Start[i] \subseteq Peer
    /\ DOMAIN Start = 1 .. Len(Start) /\ Len(Start) \in Nat \ {0}
    /\ \A n \in Nat : n + 1 \in DOMAIN Start =>
          /\ Start[n + 1] \cap Ids(n) = {}
          /\ Ids(n) \cup Start[n + 1] \subseteq Ids(n + 1)
    /\ Start[1] \subseteq Ids(1)
<1>1. DOMAIN Start = 1 .. Len(Start) /\ Len(Start) \in Nat \ {0}
  BY StartAssumption, LenProperties, EmptySeq
<1>2. \A i \in DOMAIN Start : Start[i] \in SUBSET Peer
  BY <1>1, StartAssumption, ElementOfSeq
<1>3. ASSUME NEW n \in Nat, n + 1 \in DOMAIN Start
      PROVE  /\ Start[n + 1] \cap Ids(n) = {}
             /\ Ids(n) \cup Start[n + 1] \subseteq Ids(n + 1)
  <2>1. \A i \in 1 .. n : i \in DOMAIN Start /\ i # n + 1 /\ i \in 1 .. (n + 1)
    BY <1>1, <1>3
  <2>2. n + 1 \in 1 .. (n + 1)
    OBVIOUS
  <2> QED
    BY <1>3, <2>1, <2>2, StartAssumption DEF Ids
<1>4. Start[1] \subseteq Ids(1)
  BY DEF Ids
<1> QED
  BY <1>1, <1>2, <1>3, <1>4

\* One message in place of another, or none.
LEMMA ReplaceOne ==
    ASSUME IsFiniteSet(net), NEW S \in SUBSET net, NEW m, NEW T \in SUBSET {m}
    PROVE  IsFiniteSet(S \cup T)
  BY FS_Subset, FS_Singleton, FS_Union

LEMMA ProxyTypeInit == ASSUME Identities PROVE Init => ProxyTypes
<1> SUFFICES ASSUME Init PROVE ProxyTypes
  OBVIOUS
<1>1. \E f \in [User -> Conn] : \A u, v \in User : f[u] = f[v] => u = v
  <2>1. Conn \ {} = Conn /\ {} \in SUBSET Conn
    OBVIOUS
  <2> QED
    BY <2>1, FS_EmptySet DEF Identities
<1>2. conn \in [User -> Conn]
  BY <1>1 DEF Init
<1>3. 1 \in DOMAIN Start /\ Start[1] \subseteq Peer /\ Start[1] \subseteq Ids(1)
  BY IdsOfStarts
<1> QED
  BY <1>2, <1>3, BoundAssumption, FS_EmptySet DEF Init, ProxyTypes, TypeOK

\* What becomes of what is under way when the proxy is started again: what the peers
\* have goes on, and what a client's socket has gets its new identity.
LEMMA RestartProxyShape ==
    ASSUME ProxyTypes, RestartProxy
    PROVE  /\ \A n \in net' :
                 \/ n \in net /\ n.at \in {"peer", "backend"}
                 \/ \E m \in net, u \in User :
                       m.conn = conn[u] /\ n = [m EXCEPT !.conn = conn'[u]]
           /\ IsFiniteSet(User) => IsFiniteSet(net')
<1> PICK kept \in SUBSET net :
        net' = { m \in kept : m.at \in {"peer", "backend"} } \cup
               { [x[1] EXCEPT !.conn = conn'[x[2]]] :
                   x \in { y \in kept \X User : /\ y[1].at \in {"frontend", "client"}
                                               /\ y[1].conn = conn[y[2]] } }
  BY DEF RestartProxy
<1> DEFINE stay == { m \in kept : m.at \in {"peer", "backend"} }
           D == { y \in kept \X User : /\ y[1].at \in {"frontend", "client"}
                                       /\ y[1].conn = conn[y[2]] }
           g == [x \in D |-> [x[1] EXCEPT !.conn = conn'[x[2]]]]
           moved == { g[x] : x \in D }
<1>1. net' = stay \cup moved
  OBVIOUS
<1>2. ASSUME NEW n \in moved
      PROVE  \E m \in net, u \in User :
                 m.conn = conn[u] /\ n = [m EXCEPT !.conn = conn'[u]]
  <2>1. PICK x \in D : n = [x[1] EXCEPT !.conn = conn'[x[2]]]
    OBVIOUS
  <2>2. x[1] \in net /\ x[2] \in User /\ x[1].conn = conn[x[2]]
    OBVIOUS
  <2> QED
    BY <2>1, <2>2
<1>3. ASSUME IsFiniteSet(User) PROVE IsFiniteSet(net')
  <2>1. IsFiniteSet(kept) /\ IsFiniteSet(stay)
    BY FS_Subset DEF ProxyTypes
  <2>2. IsFiniteSet(D)
    BY <1>3, <2>1, FS_Product, FS_Subset
  <2>3. g \in [D -> moved]
    OBVIOUS
  <2>4. IsFiniteSet(moved)
    <3> HIDE DEF D, g
    <3>1. \A R : g \in [D -> R] => IsFiniteSet({ g[x] : x \in D })
      BY <2>2, ImageIsFinite
    <3> QED
      BY <2>3, <3>1
  <2>5. IsFiniteSet(stay \cup moved)
    <3> HIDE DEF moved, stay
    <3> QED
      BY <2>1, <2>4, FS_Union
  <2> QED
    BY <1>1, <2>5
<1> QED
  BY <1>1, <1>2, <1>3

LEMMA ProxyTypeStep == ASSUME Identities PROVE ProxyTypes /\ [Next]_vars => ProxyTypes'
<1> SUFFICES ASSUME ProxyTypes, [Next]_vars PROVE ProxyTypes'
  OBVIOUS
<1>0. /\ conn \in [User -> Conn] /\ net \subseteq Messages /\ IsFiniteSet(net)
      /\ IsFiniteSet(User)
  BY DEF ProxyTypes, TypeOK, Messages, Identities
<1>1. ASSUME NEW u \in User, NEW l \in List, Ask(u, l) PROVE ProxyTypes'
  <2>1. Message("frontend", conn[u], l, NoPeer) \in Messages
    BY <1>0 DEF Message, Messages
  <2>2. net' \subseteq Messages /\ IsFiniteSet(net')
    BY <1>0, <1>1, <2>1, FS_AddElement DEF Ask
  <2> QED
    BY <1>1, <2>2 DEF ProxyTypes, TypeOK, Ask, Messages
<1>2. ASSUME NEW u \in User, Receive(u) PROVE ProxyTypes'
  <2>1. net' \subseteq net
    BY <1>2 DEF Receive
  <2>2. net' \subseteq Messages /\ IsFiniteSet(net')
    BY <1>0, <2>1, FS_Subset
  <2> QED
    BY <1>2, <2>2 DEF ProxyTypes, TypeOK, Receive, Messages
<1>3. ASSUME NEW u \in User, GiveUp(u) PROVE ProxyTypes'
  <2>1. {u} \in SUBSET User /\ u \in {u}
    OBVIOUS
  <2>2. Fresh({u})[u] \in Conn
    BY <1>0, <2>1, FreshType
  <2>3. conn' \in [User -> Conn]
    BY <1>0, <1>3, <2>2 DEF GiveUp
  <2>4. faults' \in 0 .. MaxFaults
    BY <1>3, BoundAssumption DEF GiveUp, ProxyTypes, TypeOK
  <2>5. session' \in [User -> {Idle, Stuck} \cup { Waiting(l) : l \in List }]
    BY <1>3 DEF GiveUp, ProxyTypes, TypeOK
  <2> QED
    BY <1>3, <2>3, <2>4, <2>5 DEF ProxyTypes, TypeOK, GiveUp
<1>4. ASSUME NEW u \in User, Reopen(u) PROVE ProxyTypes'
  <2>1. {u} \in SUBSET User /\ u \in {u}
    OBVIOUS
  <2>2. Fresh({u})[u] \in Conn
    BY <1>0, <2>1, FreshType
  <2>3. conn' \in [User -> Conn]
    BY <1>0, <1>4, <2>2 DEF Reopen
  <2> QED
    BY <1>4, <2>3 DEF ProxyTypes, TypeOK, Reopen
<1>5. ASSUME NEW p \in ready, Register(p) PROVE ProxyTypes'
  BY <1>5 DEF ProxyTypes, TypeOK, Register
<1>6. ASSUME NEW m \in net, Route(m) PROVE ProxyTypes'
  <2>1. m \in Messages
    BY <1>0
  <2> DEFINE next == { Message("peer", m.conn, m.list, p) :
                 p \in IF ring = {} THEN {} ELSE {Coordinator[m.list][ring]} \cap Up }
             to == Message("peer", m.conn, m.list, Coordinator[m.list][ring])
  <2>2. next \in SUBSET {to} /\ net \ {m} \in SUBSET net
    OBVIOUS
  <2>3. next \subseteq Messages
    <3>1. Up \subseteq Peer
      BY IdsOfStarts DEF Up, ProxyTypes, TypeOK
    <3> QED
      BY <2>1, <3>1 DEF Message, Messages
  <2>4. net' = (net \ {m}) \cup next
    BY <1>6 DEF Route
  <2> HIDE DEF next, to
  <2>5. net' \subseteq Messages /\ IsFiniteSet(net')
    BY <1>0, <2>2, <2>3, <2>4, ReplaceOne
  <2> QED
    BY <1>6, <2>5 DEF ProxyTypes, TypeOK, Route, Messages
<1>7. ASSUME NEW m \in net, Return(m) PROVE ProxyTypes'
  <2>1. m \in Messages
    BY <1>0
  <2> DEFINE to == Message("client", m.conn, m.list, NoPeer)
             next == { Message("client", m.conn, m.list, NoPeer) :
                         u \in { v \in User : conn[v] = m.conn } }
  <2>2. next \in SUBSET {to} /\ net \ {m} \in SUBSET net
    OBVIOUS
  <2>3. to \in Messages
    BY <2>1 DEF Message, Messages
  <2>4. net' = (net \ {m}) \cup next
    BY <1>7 DEF Return
  <2> HIDE DEF next, to
  <2>5. net' \subseteq Messages /\ IsFiniteSet(net')
    BY <1>0, <2>2, <2>3, <2>4, ReplaceOne
  <2> QED
    BY <1>7, <2>5 DEF ProxyTypes, TypeOK, Return, Messages
<1>8. ASSUME NEW m \in net, Serve(m) PROVE ProxyTypes'
  <2> DEFINE to == Message("backend", m.conn, m.list, NoPeer)
  <2>1. to \in Messages
    BY <1>0 DEF Message, Messages
  <2>2. net' = (net \ {m}) \cup {to} \/ net' = net \ {m}
    BY <1>8 DEF Serve
  <2> HIDE DEF to
  <2>3. IsFiniteSet(net \ {m})
    BY <1>0, FS_RemoveElement
  <2>4. net' \subseteq Messages /\ IsFiniteSet(net')
    BY <1>0, <2>1, <2>2, <2>3, FS_AddElement
  <2>5. faults' \in 0 .. MaxFaults
    BY <1>8, BoundAssumption DEF Serve, ProxyTypes, TypeOK
  <2> QED
    BY <1>8, <2>4, <2>5 DEF ProxyTypes, TypeOK, Serve, Messages
<1>9. CASE RestartProxy
  <2>1. User \in SUBSET User
    OBVIOUS
  <2>2. conn' \in [User -> Conn]
    BY <1>0, <1>9, <2>1, FreshType DEF RestartProxy
  <2>3. net' \subseteq Messages
    <3> SUFFICES ASSUME NEW n \in net' PROVE n \in Messages
      OBVIOUS
    <3>1. CASE n \in net
      BY <1>0, <3>1
    <3>2. ASSUME NEW m \in net, NEW u \in User, n = [m EXCEPT !.conn = conn'[u]]
          PROVE  n \in Messages
      <4>1. m \in Messages /\ conn'[u] \in Conn
        BY <1>0, <2>2
      <4> QED
        BY <3>2, <4>1 DEF Messages
    <3> QED
      BY <1>9, <3>1, <3>2, RestartProxyShape
  <2>4. IsFiniteSet(net')
    BY <1>0, <1>9, RestartProxyShape
  <2>5. proxyStarts' \in 0 .. MaxProxyStarts
    BY <1>9, BoundAssumption DEF RestartProxy, ProxyTypes, TypeOK
  <2>6. /\ ring' = {} /\ ready' \subseteq ready
        /\ UNCHANGED <<session, starts, faults>>
    BY <1>9 DEF RestartProxy
  <2> QED
    BY <2>2, <2>3, <2>4, <2>5, <2>6 DEF ProxyTypes, TypeOK, Messages
<1>10. CASE RestartServers
  <2>1. net' \subseteq net
    BY <1>10 DEF RestartServers
  <2>2. net' \subseteq Messages /\ IsFiniteSet(net')
    BY <1>0, <2>1, FS_Subset
  <2>3. starts \in Nat /\ starts' = starts + 1 /\ starts + 1 \in DOMAIN Start
    BY <1>10, IdsOfStarts DEF RestartServers, ProxyTypes, TypeOK
  <2>4. /\ ready' \subseteq ready \cup Start[starts + 1]
        /\ UNCHANGED <<session, conn, ring, faults, proxyStarts>>
    BY <1>10 DEF RestartServers
  <2>5. /\ Start[starts + 1] \subseteq Peer
        /\ Start[starts + 1] \cap Ids(starts) = {}
        /\ Ids(starts) \cup Start[starts + 1] \subseteq Ids(starts + 1)
    BY <2>3, IdsOfStarts
  <2> HIDE DEF Ids
  <2>6. /\ ready' \subseteq Peer /\ ready' \cap ring' = {}
        /\ ready' \cup ring' \subseteq Ids(starts')
    BY <2>3, <2>4, <2>5 DEF ProxyTypes, TypeOK
  <2> QED
    BY <2>2, <2>3, <2>4, <2>6 DEF ProxyTypes, TypeOK, Messages
<1>11. CASE UNCHANGED vars
  BY <1>11 DEF ProxyTypes, TypeOK, vars
<1> QED
  BY <1>1, <1>2, <1>3, <1>4, <1>5, <1>6, <1>7, <1>8, <1>9, <1>10, <1>11
     DEF Next, Client, Forward

\* Sockets wait for lists, what is under way is at one of four places, and the peers
\* that are about to register are not in the ring (proxy.rs, start).
THEOREM ProxyTypeOK == ASSUME Identities PROVE Spec => []TypeOK
<1>1. Init => ProxyTypes
  BY ProxyTypeInit
<1>2. ProxyTypes /\ [Next]_vars => ProxyTypes'
  BY ProxyTypeStep
<1>3. ProxyTypes => TypeOK
  BY DEF ProxyTypes
<1> QED
  BY <1>1, <1>2, <1>3, PTL DEF Spec

-----------------------------------------------------------------------------
(* Whose answer it is.                                                     *)

\* No two users have a connection in common, and what carries the identity of one
\* is what its socket waits for.
AnswerInv ==
    /\ ProxyTypes
    /\ \A u, v \in User : conn[u] = conn[v] => u = v
    /\ AnswerIsToTheRequest

\* What is left, or has gone on, of what is under way keeps the invariant.
LEMMA GoesOn ==
    ASSUME AnswerInv, UNCHANGED <<session, conn>>,
           \A n \in net' : n \in net \/ \E m \in net :
               /\ m \notin net' /\ n.conn = m.conn /\ n.list = m.list
               /\ \A k \in net' : k \in net \/ k = n
    PROVE  AnswerIsToTheRequest'
<1> SUFFICES ASSUME NEW u \in User, NEW n \in net', n.conn = conn[u]
             PROVE  /\ session[u] = Waiting(n.list)
                    /\ \A k \in net' : k.conn = conn[u] => k = n
  BY DEF AnswerIsToTheRequest
<1>1. session[u] = Waiting(n.list)
  BY DEF AnswerInv, AnswerIsToTheRequest
<1>2. ASSUME NEW k \in net', k.conn = conn[u] PROVE k = n
  BY <1>2 DEF AnswerInv, AnswerIsToTheRequest
<1> QED
  BY <1>1, <1>2

\* A user whose connection is new: nothing reaches it yet.
LEMMA Reconnects ==
    ASSUME AnswerInv, Identities, NEW u \in User, NEW s,
           session' = [session EXCEPT ![u] = s],
           conn' = [conn EXCEPT ![u] = Fresh({u})[u]], net' = net
    PROVE  /\ AnswerIsToTheRequest'
           /\ (\A v, w \in User : conn[v] = conn[w] => v = w)'
<1>1. /\ conn \in [User -> Conn] /\ net \subseteq Messages /\ IsFiniteSet(net)
      /\ {u} \in SUBSET User /\ u \in {u}
  BY DEF AnswerInv, ProxyTypes, TypeOK, Messages
<1>2. /\ \A v \in User : Fresh({u})[u] # conn[v]
      /\ \A m \in net : Fresh({u})[u] # m.conn
  BY <1>1, FreshType
<1>3. \A v \in User : v # u => conn'[v] = conn[v] /\ session'[v] = session[v]
  BY <1>1 DEF AnswerInv, ProxyTypes, TypeOK
<1>4. conn'[u] = Fresh({u})[u]
  BY <1>1
<1>5. AnswerIsToTheRequest'
  BY <1>2, <1>3, <1>4 DEF AnswerInv, AnswerIsToTheRequest
<1>6. \A v, w \in User : conn'[v] = conn'[w] => v = w
  BY <1>2, <1>3, <1>4 DEF AnswerInv
<1> QED
  BY <1>5, <1>6

LEMMA AnswerStep == ASSUME Identities PROVE AnswerInv /\ [Next]_vars => AnswerInv'
<1> SUFFICES ASSUME AnswerInv, [Next]_vars PROVE AnswerInv'
  OBVIOUS
<1>0. /\ ProxyTypes'
      /\ conn \in [User -> Conn] /\ net \subseteq Messages /\ IsFiniteSet(net)
      /\ \A u, v \in User : conn[u] = conn[v] => u = v
      /\ session \in [User -> {Idle, Stuck} \cup { Waiting(l) : l \in List }]
  BY ProxyTypeStep DEF AnswerInv, ProxyTypes, TypeOK, Messages
<1>1. ASSUME NEW u \in User, NEW l \in List, Ask(u, l) PROVE AnswerInv'
  <2> DEFINE q == Message("frontend", conn[u], l, NoPeer)
  <2>1. q.conn = conn[u] /\ q.list = l
    BY DEF Message
  <2>2. /\ net' = net \cup {q} /\ session'[u] = Waiting(l) /\ conn' = conn
        /\ \A v \in User : v # u => session'[v] = session[v]
    BY <1>0, <1>1 DEF Ask
  <2>3. \A k \in net : k.conn # conn[u]
    <3>1. \A l2 : Waiting(l2) # Idle
      BY DEF Idle, Waiting
    <3> QED
      BY <1>1, <3>1 DEF Ask, AnswerInv, AnswerIsToTheRequest
  <2> HIDE DEF q
  <2>4. AnswerIsToTheRequest'
    BY <1>0, <2>1, <2>2, <2>3 DEF AnswerInv, AnswerIsToTheRequest
  <2> QED
    BY <1>0, <2>2, <2>4 DEF AnswerInv
<1>2. ASSUME NEW u \in User, Receive(u) PROVE AnswerInv'
  <2>1. PICK m \in net : m.conn = conn[u] /\ net' = net \ {m}
    BY <1>2 DEF Receive
  <2>2. conn' = conn /\ \A v \in User : v # u => session'[v] = session[v]
    BY <1>0, <1>2 DEF Receive
  <2>3. \A k \in net' : k.conn # conn[u]
    BY <2>1 DEF AnswerInv, AnswerIsToTheRequest
  <2>4. AnswerIsToTheRequest'
    BY <1>0, <2>1, <2>2, <2>3 DEF AnswerInv, AnswerIsToTheRequest
  <2> QED
    BY <1>0, <2>2, <2>4 DEF AnswerInv
<1>3. ASSUME NEW u \in User, GiveUp(u) PROVE AnswerInv'
  BY <1>0, <1>3, Reconnects DEF GiveUp, AnswerInv
<1>4. ASSUME NEW u \in User, Reopen(u) PROVE AnswerInv'
  BY <1>0, <1>4, Reconnects DEF Reopen, AnswerInv
<1>5. ASSUME NEW p \in ready, Register(p) PROVE AnswerInv'
  BY <1>0, <1>5 DEF Register, AnswerInv, AnswerIsToTheRequest
<1>6. ASSUME NEW m \in net, Route(m) PROVE AnswerInv'
  <2> DEFINE next == { Message("peer", m.conn, m.list, p) :
                 p \in IF ring = {} THEN {} ELSE {Coordinator[m.list][ring]} \cap Up }
             to == Message("peer", m.conn, m.list, Coordinator[m.list][ring])
  <2>1. net' = (net \ {m}) \cup next /\ next \subseteq {to} /\ m.at = "frontend"
    BY <1>6 DEF Route
  <2>2. to.conn = m.conn /\ to.list = m.list /\ to.at = "peer"
    BY DEF Message
  <2> HIDE DEF next, to
  <2>3. \A n \in net' : n \in net \/ (n = to /\ m \notin net')
    BY <2>1, <2>2
  <2>4. AnswerIsToTheRequest'
    BY <1>6, <2>2, <2>3, GoesOn DEF Route
  <2> QED
    BY <1>0, <1>6, <2>4 DEF AnswerInv, Route
<1>7. ASSUME NEW m \in net, Return(m) PROVE AnswerInv'
  <2> DEFINE to == Message("client", m.conn, m.list, NoPeer)
             next == { Message("client", m.conn, m.list, NoPeer) :
                         u \in { v \in User : conn[v] = m.conn } }
  <2>1. net' = (net \ {m}) \cup next /\ next \subseteq {to} /\ m.at = "backend"
    BY <1>7 DEF Return
  <2>2. to.conn = m.conn /\ to.list = m.list /\ to.at = "client"
    BY DEF Message
  <2> HIDE DEF next, to
  <2>3. \A n \in net' : n \in net \/ (n = to /\ m \notin net')
    BY <2>1, <2>2
  <2>4. AnswerIsToTheRequest'
    BY <1>7, <2>2, <2>3, GoesOn DEF Return
  <2> QED
    BY <1>0, <1>7, <2>4 DEF AnswerInv, Return
<1>8. ASSUME NEW m \in net, Serve(m) PROVE AnswerInv'
  <2> DEFINE to == Message("backend", m.conn, m.list, NoPeer)
  <2>1. (net' = (net \ {m}) \cup {to} \/ net' = net \ {m}) /\ m.at = "peer"
    BY <1>8 DEF Serve
  <2>2. to.conn = m.conn /\ to.list = m.list /\ to.at = "backend"
    BY DEF Message
  <2> HIDE DEF to
  <2>3. \A n \in net' : n \in net \/ (n = to /\ m \notin net')
    BY <2>1, <2>2
  <2>4. AnswerIsToTheRequest'
    BY <1>8, <2>2, <2>3, GoesOn DEF Serve
  <2> QED
    BY <1>0, <1>8, <2>4 DEF AnswerInv, Serve
<1>9. CASE RestartProxy
  <2>1. conn' = Fresh(User) /\ session' = session /\ User \in SUBSET User
    BY <1>9 DEF RestartProxy
  <2>2. /\ conn' \in [User -> Conn]
        /\ \A u \in User, m \in net : conn'[u] # m.conn
        /\ \A u, v \in User : conn'[u] = conn'[v] => u = v
    BY <1>0, <2>1, FreshType
  <2>3. ASSUME NEW u \in User, NEW n \in net', n.conn = conn'[u]
        PROVE  \E m \in net : m.conn = conn[u] /\ n = [m EXCEPT !.conn = conn'[u]]
    <3>1. n \notin net
      BY <2>2, <2>3
    <3>2. PICK m \in net, v \in User : m.conn = conn[v] /\ n = [m EXCEPT !.conn = conn'[v]]
      BY <1>9, <3>1, RestartProxyShape DEF AnswerInv
    <3>3. n.conn = conn'[v]
      <4>1. m \in Messages
        BY <1>0
      <4> QED
        BY <3>2, <4>1 DEF Messages
    <3>4. v = u
      BY <2>2, <2>3, <3>3
    <3> QED
      BY <3>2, <3>4
  <2>4. AnswerIsToTheRequest'
    <3> SUFFICES ASSUME NEW u \in User, NEW n \in net', n.conn = conn'[u]
                 PROVE  /\ session[u] = Waiting(n.list)
                        /\ \A k \in net' : k.conn = conn'[u] => k = n
      BY <2>1 DEF AnswerIsToTheRequest
    <3>1. PICK m \in net : m.conn = conn[u] /\ n = [m EXCEPT !.conn = conn'[u]]
      BY <2>3
    <3>2. n.list = m.list
      <4>1. m \in Messages
        BY <1>0
      <4> QED
        BY <3>1, <4>1 DEF Messages
    <3>3. session[u] = Waiting(n.list)
      BY <3>1, <3>2 DEF AnswerInv, AnswerIsToTheRequest
    <3>4. ASSUME NEW k \in net', k.conn = conn'[u] PROVE k = n
      <4>1. PICK j \in net : j.conn = conn[u] /\ k = [j EXCEPT !.conn = conn'[u]]
        BY <2>3, <3>4
      <4>2. j = m
        BY <3>1, <4>1 DEF AnswerInv, AnswerIsToTheRequest
      <4> QED
        BY <3>1, <4>1, <4>2
    <3> QED
      BY <3>3, <3>4
  <2> QED
    BY <1>0, <2>2, <2>4 DEF AnswerInv
<1>10. CASE RestartServers
  <2>1. net' \subseteq net /\ UNCHANGED <<session, conn>>
    BY <1>10 DEF RestartServers
  <2>2. AnswerIsToTheRequest'
    BY <2>1, GoesOn
  <2> QED
    BY <1>0, <2>1, <2>2 DEF AnswerInv
<1>11. CASE UNCHANGED vars
  BY <1>0, <1>11 DEF AnswerInv, AnswerIsToTheRequest, vars
<1> QED
  BY <1>1, <1>2, <1>3, <1>4, <1>5, <1>6, <1>7, <1>8, <1>9, <1>10, <1>11
     DEF Next, Client, Forward

\* Whatever may reach a user belongs to the request the user waits for, and there is
\* one such thing at most: an answer to a request that was given up, of another user
\* or of before a restart is not taken for it (proxy.rs start, client.rs reset_socket).
THEOREM ProxyAnswerIsToTheRequest ==
    ASSUME Identities PROVE Spec => []AnswerIsToTheRequest
<1>1. ASSUME Init PROVE AnswerInv
  <2>1. \E f \in [User -> Conn] : \A u, v \in User : f[u] = f[v] => u = v
    <3>1. Conn \ {} = Conn /\ {} \in SUBSET Conn
      OBVIOUS
    <3> QED
      BY <3>1, FS_EmptySet DEF Identities
  <2>2. \A u, v \in User : conn[u] = conn[v] => u = v
    BY <1>1, <2>1 DEF Init
  <2>3. ProxyTypes /\ net = {}
    BY <1>1, ProxyTypeInit DEF Init
  <2> QED
    BY <2>2, <2>3 DEF AnswerInv, AnswerIsToTheRequest
<1>2. AnswerInv /\ [Next]_vars => AnswerInv'
  BY AnswerStep
<1>3. AnswerInv => AnswerIsToTheRequest
  BY DEF AnswerInv
<1> QED
  BY <1>1, <1>2, <1>3, PTL DEF Spec
=============================================================================

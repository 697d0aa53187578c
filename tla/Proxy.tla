------------------------------- MODULE Proxy -------------------------------
(***************************************************************************)
(* The proxy (proxy.rs) between the REQ sockets of the clients and the     *)
(* DEALER sockets of the peers: how it learns of peers, routes requests    *)
(* and returns answers, while requests time out and the two processes it   *)
(* stands between, or itself, are started again.  What a peer answers is   *)
(* the subject of Replication.                                             *)
(***************************************************************************)
EXTENDS Naturals, Sequences, FiniteSets

CONSTANTS
    User, List, Peer,
    NoPeer,
    Start,          \* the ids of the peers at each start of the servers
    Coordinator,    \* get_coordinator: of a list, in a ring
    Conn,           \* bound: identities of connections, reused when out of use
    MaxFaults,      \* bound: early timeouts and requests peers do not answer
    MaxProxyStarts  \* bound: further starts of the proxy

ASSUME StartAssumption ==
    /\ Start \in Seq(SUBSET Peer) /\ Start # <<>>
    /\ \A i, j \in DOMAIN Start : i # j => Start[i] \cap Start[j] = {}
ASSUME CoordinatorAssumption ==
    \A l \in List, r \in (SUBSET Peer) \ {{}} : Coordinator[l][r] \in r
ASSUME NoPeerAssumption == NoPeer \notin Peer
ASSUME BoundAssumption == MaxFaults \in Nat /\ MaxProxyStarts \in Nat

VARIABLES
    session,    \* what each user's REQ socket waits for
    conn,       \* the identity the proxy knows its connection by
    net,        \* requests and answers, and how far they are
    starts,     \* which start of the servers is running
    ready,      \* peers whose READY is under way
    ring,       \* the peers in the proxy's hash ring
    faults, proxyStarts

vars == <<session, conn, net, starts, ready, ring, faults, proxyStarts>>

Idle == [kind |-> "idle"]
Stuck == [kind |-> "stuck"]
Waiting(l) == [kind |-> "waiting", list |-> l]

Message(at, c, l, p) == [at |-> at, conn |-> c, list |-> l, peer |-> p]

Up == Start[starts]

\* New identities for the connections of some users; which ones is of no matter.
Fresh(users) ==
    LET unused == Conn \ ({ conn[u] : u \in User } \cup { m.conn : m \in net })
    IN  CHOOSE f \in [users -> unused] :
            \A u \in users : \A v \in users \ {u} : f[u] # f[v]

-----------------------------------------------------------------------------
(* Clients: fetch_list and send_list. *)

Ask(u, l) ==
    /\ session[u] = Idle
    /\ session' = [session EXCEPT ![u] = Waiting(l)]
    /\ net' = net \cup {Message("frontend", conn[u], l, NoPeer)}
    /\ UNCHANGED <<conn, starts, ready, ring, faults, proxyStarts>>

Receive(u) ==
    /\ session[u].kind = "waiting"
    /\ \E m \in net :
          /\ m.at = "client" /\ m.conn = conn[u]
          /\ net' = net \ {m}
    /\ session' = [session EXCEPT ![u] = Idle]
    /\ UNCHANGED <<conn, starts, ready, ring, faults, proxyStarts>>

Expected(u) == \E m \in net : m.conn = conn[u]

\* Mutant of GiveUp: the connection stays and forgets that it waits.
GiveUpRelaxed(u) ==
    /\ session[u].kind = "waiting"
    /\ \/ ~Expected(u) /\ UNCHANGED faults
       \/ Expected(u) /\ faults < MaxFaults /\ faults' = faults + 1
    /\ session' = [session EXCEPT ![u] = Idle]
    /\ UNCHANGED <<conn, net, starts, ready, ring, proxyStarts>>

\* The receive times out, which is a fault while an answer may come, and
\* reset_socket makes a new connection; the socket still waits (EFSM).
GiveUp(u) ==
    /\ session[u].kind = "waiting"
    /\ \/ ~Expected(u) /\ UNCHANGED faults
       \/ Expected(u) /\ faults < MaxFaults /\ faults' = faults + 1
    /\ session' = [session EXCEPT ![u] = Stuck]
    /\ conn' = [conn EXCEPT ![u] = Fresh({u})[u]]
    /\ UNCHANGED <<net, starts, ready, ring, proxyStarts>>

\* The user quits and starts the client again.
Reopen(u) ==
    /\ session[u] = Stuck
    /\ session' = [session EXCEPT ![u] = Idle]
    /\ conn' = [conn EXCEPT ![u] = Fresh({u})[u]]
    /\ UNCHANGED <<net, starts, ready, ring, faults, proxyStarts>>

-----------------------------------------------------------------------------
(* The proxy: the loop of start. *)

\* Mutant of Register: the message is not consumed.
RegisterAgain(p) ==
    /\ p \in ready
    /\ ring' = ring \cup {p}
    /\ UNCHANGED <<session, conn, net, starts, ready, faults, proxyStarts>>

Register(p) ==
    /\ p \in ready
    /\ ring' = ring \cup {p}
    /\ ready' = ready \ {p}
    /\ UNCHANGED <<session, conn, net, starts, faults, proxyStarts>>

\* A request without a coordinator is dropped, and so is one to a peer that is
\* no longer connected (the backend is a ROUTER).
Route(m) ==
    /\ m \in net /\ m.at = "frontend"
    /\ net' = (net \ {m}) \cup
              { Message("peer", m.conn, m.list, p) :
                    p \in IF ring = {} THEN {} ELSE {Coordinator[m.list][ring]} \cap Up }
    /\ UNCHANGED <<session, conn, starts, ready, ring, faults, proxyStarts>>

\* Mutant of Return: the frame that names the peer stays in front, and no client
\* has that identity.
ReturnKeepsFrame(m) ==
    /\ m \in net /\ m.at = "backend"
    /\ net' = net \ {m}
    /\ UNCHANGED <<session, conn, starts, ready, ring, faults, proxyStarts>>

\* The answer to a client that is no longer connected is dropped.
Return(m) ==
    /\ m \in net /\ m.at = "backend"
    /\ net' = (net \ {m}) \cup
              { Message("client", m.conn, m.list, NoPeer) :
                    u \in { v \in User : conn[v] = m.conn } }
    /\ UNCHANGED <<session, conn, starts, ready, ring, faults, proxyStarts>>

-----------------------------------------------------------------------------
(* Peers: handle_incoming_proxy answers with an acknowledgement or a Nack, *)
(* or returns an error and does not answer.                                *)

Serve(m) ==
    /\ m \in net /\ m.at = "peer"
    /\ \/ /\ net' = (net \ {m}) \cup {Message("backend", m.conn, m.list, NoPeer)}
          /\ UNCHANGED faults
       \/ /\ faults < MaxFaults /\ faults' = faults + 1
          /\ net' = net \ {m}
    /\ UNCHANGED <<session, conn, starts, ready, ring, proxyStarts>>

-----------------------------------------------------------------------------
(* Processes that are started again.  What was under way may be lost.      *)

\* Sockets connect again by themselves: with new identities to the new proxy
\* the clients, whose requests and answers may be in their own sockets, with
\* the same ones the peers, which do not send READY again.
RestartProxy ==
    /\ proxyStarts < MaxProxyStarts
    /\ proxyStarts' = proxyStarts + 1
    /\ ring' = {}
    /\ ready' \in SUBSET ready
    /\ conn' = Fresh(User)
    /\ \E kept \in SUBSET net :
          net' = { m \in kept : m.at \in {"peer", "backend"} } \cup
                 { [x[1] EXCEPT !.conn = conn'[x[2]]] :
                     x \in { y \in kept \X User : /\ y[1].at \in {"frontend", "client"}
                                                 /\ y[1].conn = conn[y[2]] } }
    /\ UNCHANGED <<session, starts, faults>>

\* The server is one process: all peers start again, with new ids.
RestartServers ==
    /\ starts < Len(Start)
    /\ starts' = starts + 1
    /\ \E kept \in SUBSET ready : ready' = kept \cup Start[starts + 1]
    /\ \E lost \in SUBSET { m \in net : m.at = "backend" } :
          net' = { m \in net \ lost : m.at # "peer" }
    /\ UNCHANGED <<session, conn, ring, faults, proxyStarts>>

-----------------------------------------------------------------------------
Init ==
    /\ session = [u \in User |-> Idle]
    /\ conn = CHOOSE f \in [User -> Conn] : \A u, v \in User : f[u] = f[v] => u = v
    /\ net = {}
    /\ starts = 1
    /\ ready = Start[1]
    /\ ring = {}
    /\ faults = 0
    /\ proxyStarts = 0

Client(u) == (\E l \in List : Ask(u, l)) \/ Receive(u) \/ GiveUp(u)

Forward(c) == \E m \in net : m.conn = c /\ (Route(m) \/ Return(m) \/ Serve(m))

Next == \/ \E u \in User : Client(u) \/ Reopen(u)
        \/ \E p \in ready : Register(p)
        \/ \E c \in Conn : Forward(c)
        \/ RestartProxy
        \/ RestartServers

Spec == Init /\ [][Next]_vars

\* Whatever is under way arrives (the sockets are read in turn), peers answer,
\* users keep refreshing, a timeout that is due occurs, and users start again a
\* client that gets no answers any more.
FairSpec == /\ Spec
            /\ \A p \in Peer : WF_vars(Register(p))
            /\ \A c \in Conn : WF_vars(Forward(c))
            /\ \A u \in User : WF_vars(Client(u)) /\ WF_vars(Reopen(u))

-----------------------------------------------------------------------------
(* Properties. *)

TypeOK == /\ session \in [User -> {Idle, Stuck} \cup { Waiting(l) : l \in List }]
          /\ conn \in [User -> Conn]
          /\ net \subseteq [at : {"frontend", "peer", "backend", "client"},
                             conn : Conn, list : List, peer : Peer \cup {NoPeer}]
          /\ starts \in DOMAIN Start
          /\ ready \subseteq Peer /\ ring \subseteq Peer /\ ready \cap ring = {}
          /\ faults \in 0 .. MaxFaults /\ proxyStarts \in 0 .. MaxProxyStarts

\* Whatever may reach a user belongs to the request the user waits for, and there
\* is one such thing at most: answers of requests that were given up, of other
\* users, or of before a restart are not taken for it.
AnswerIsToTheRequest ==
    \A u \in User, m \in net : m.conn = conn[u] =>
        /\ session[u] = Waiting(m.list)
        /\ \A k \in net : k.conn = conn[u] => k = m

\* "When connectivity exists, clients exchange complete shopping list CRDT states
\* with the server cluster" (README): users are answered again and again, however
\* the processes were restarted before, if in the end every list is routed to a
\* peer that runs.
Routed == ring # {} /\ \A l \in List : Coordinator[l][ring] \in Up

AnsweredOnceRouted ==
    <>[]Routed => \A u \in User : []<><<Receive(u)>>_vars
=============================================================================

---------------------------- MODULE Replication ----------------------------
(***************************************************************************)
(* One shopping list in the server cluster, from the clients' requests to  *)
(* the rows of the peers: Peer::handle_incoming_proxy and everything it    *)
(* awaits, the peers' answers, the hinted handoffs, and the two halves of  *)
(* a gossip that add a peer to the hash ring and to the membership table.  *)
(*                                                                         *)
(* A copy of the list is the number of edits of each client it contains,   *)
(* and a merge is the pointwise maximum.  LocalStore justifies this: two   *)
(* copies that contain the same edits are the same list.                   *)
(*                                                                         *)
(* The proxy knows every peer (each sends READY before the first starts),  *)
(* so it always routes the list to the same peer, Coordinator.             *)
(***************************************************************************)
EXTENDS Integers, Sequences, FiniteSets

CONSTANTS
    Client, Peer,
    NoClient, NoHint, NoRid,    \* stand for the absence of one
    Coordinator,        \* the peer the proxy routes the list to
    PrefList,           \* get_preference_list of a ring made of some peers
    Fallbacks,          \* get_next_available_node: none or one of the peers
    WriteNodes, ReadNodes,
    Ring0, Member0,     \* what the peers know of each other at the start
    Rid,                \* bound: request ids, one is reused once forgotten
    MaxEdits,           \* bound: edits of each client
    MaxFaults           \* bound: lost messages, early timeouts and restarts

ASSUME PeerAssumption == IsFiniteSet(Peer)
ASSUME CoordinatorAssumption == Coordinator \in Peer
ASSUME PrefListAssumption ==
    /\ DOMAIN PrefList = SUBSET Peer
    /\ \A S \in SUBSET Peer : Coordinator \in S =>
          /\ PrefList[S] \in Seq(S)
          /\ Len(PrefList[S]) >= 1
          /\ PrefList[S][1] = Coordinator
          /\ \A i, j \in DOMAIN PrefList[S] :
                PrefList[S][i] = PrefList[S][j] => i = j
ASSUME FallbacksAssumption ==
    \A S, available \in SUBSET Peer, start \in Peer :
        /\ Fallbacks[S, available, start] \subseteq Peer
        /\ \A n, m \in Fallbacks[S, available, start] : n = m
ASSUME AbsenceAssumption ==
    NoClient \notin Client /\ NoHint \notin Peer /\ NoRid \notin Rid
ASSUME QuorumAssumption == WriteNodes \in Nat \ {0} /\ ReadNodes \in Nat \ {0}
ASSUME StartAssumption ==
    /\ Ring0 \subseteq Peer /\ Coordinator \in Ring0
    /\ Member0 \in [Peer -> SUBSET Peer]
    /\ \A p \in Peer : p \in Member0[p]
ASSUME BoundAssumption == MaxEdits \in Nat /\ MaxFaults \in Nat

VARIABLES
    db,         \* what each client's own database holds
    session,    \* state of each client's REQ socket
    answer,     \* the answer on its way to a client
    queue,      \* requests for the coordinator, in the order it reads them
    pending,    \* the one request it is at, with its QuoromState
    net,        \* messages between peers; they may overtake each other
    row,        \* the list's row in each peer's table shopping_lists
    scan,       \* what each peer's hinted_handoff task is at
    ring,       \* the peers in the coordinator's hash ring
    member,     \* each peer's membership table
    locked,     \* peers whose membership table stays locked for ever
    faults,     \* how many faults there were
    accepted,   \* history: which peer served which part of a request
    made        \* history: the copies that resulted from each client's edits

vars == <<db, session, answer, queue, pending, net, row, scan, ring, member,
          locked, faults, accepted, made>>

-----------------------------------------------------------------------------
(* Data. *)

List == [Client -> Nat]

Empty == [c \in Client |-> 0]

JoinSums(l, m) == [c \in Client |-> l[c] + m[c]]     \* mutant of Join

Join(l, m) == [c \in Client |-> IF l[c] >= m[c] THEN l[c] ELSE m[c]]

Covers(l, m) == \A c \in Client : m[c] <= l[c]

None == [kind |-> "none"]

Stored(list, hint) == [kind |-> "row", list |-> list, hint |-> hint]

Request(c, kind, list) == [client |-> c, kind |-> kind, list |-> list]

Answer(list) == [kind |-> "ack", list |-> list]

Nack == [kind |-> "nack"]

-----------------------------------------------------------------------------
(* Clients: send_item_storage_request, retrieve_list, and the REQ socket,  *)
(* which after a timeout refuses every send until the session is restarted *)
(* (EFSM: disconnect and connect do not make it forget that it waits).     *)

Ask(c, kind, list) ==
    /\ session' = [session EXCEPT ![c] = kind]
    /\ queue' = Append(queue, Request(c, kind, list))

\* Mutant of Edit: the list is sent, and not stored first.
EditUnsaved(c) ==
    /\ session[c] = "idle" /\ db[c][c] < MaxEdits
    /\ Ask(c, "put", [db[c] EXCEPT ![c] = @ + 1])
    /\ UNCHANGED <<db, made, answer, pending, net, row, scan, ring, member,
                   locked, faults, accepted>>

\* Mutant of Edit: what is sent holds the client's own edits only (a delta).
EditSendsDelta(c) ==
    /\ session[c] = "idle" /\ db[c][c] < MaxEdits
    /\ db' = [db EXCEPT ![c][c] = @ + 1]
    /\ made' = [made EXCEPT ![c] = Append(@, db'[c])]
    /\ Ask(c, "put", [Empty EXCEPT ![c] = db'[c][c]])
    /\ UNCHANGED <<answer, pending, net, row, scan, ring, member, locked,
                   faults, accepted>>

Edit(c) ==
    /\ session[c] \in {"idle", "stuck"}
    /\ db[c][c] < MaxEdits
    /\ db' = [db EXCEPT ![c][c] = @ + 1]
    /\ made' = [made EXCEPT ![c] = Append(@, db'[c])]
    /\ \/ session[c] = "idle" /\ Ask(c, "put", db'[c])
       \/ session[c] = "stuck" /\ UNCHANGED <<session, queue>>
    /\ UNCHANGED <<answer, pending, net, row, scan, ring, member, locked,
                   faults, accepted>>

Refresh(c) ==
    /\ session[c] = "idle"
    /\ Ask(c, "get", db[c])
    /\ UNCHANGED <<db, made, answer, pending, net, row, scan, ring, member,
                   locked, faults, accepted>>

Receive(c) ==
    /\ answer[c] # None
    /\ db' = IF session[c] = "get" /\ answer[c].kind = "ack"
             THEN [db EXCEPT ![c] = Join(@, answer[c].list)]
             ELSE db
    /\ session' = [session EXCEPT ![c] = "idle"]
    /\ answer' = [answer EXCEPT ![c] = None]
    /\ UNCHANGED <<made, queue, pending, net, row, scan, ring, member, locked,
                   faults, accepted>>

\* The number of answers the request in progress waits for.
Needed == IF pending.kind = "put" THEN WriteNodes ELSE ReadNodes

\* Nothing that still comes can complete the request in progress: it ends when
\* the quorum times out, after 3000 ms.
Hopeless == /\ pending.kind # "none" /\ pending.received < Needed
            /\ \A m \in net : m.rid # pending.rid

\* An answer may still come for client c in time.
Expected(c) == \/ answer[c] # None
               \/ ~Hopeless /\ pending.kind # "none" /\ pending.client = c
               \/ \E i \in DOMAIN queue : queue[i].client = c

\* Mutant of GiveUp: what was asked for is still answered to the client.
GiveUpKeepsConnection(c) ==
    /\ session[c] \in {"put", "get"}
    /\ ~Expected(c)
    /\ session' = [session EXCEPT ![c] = "stuck"]
    /\ UNCHANGED <<db, made, answer, queue, pending, net, row, scan, ring,
                   member, locked, faults, accepted>>

\* recv_msg gives up after 100 ms; an answer that comes later is not for the
\* new connection.  Giving up on an answer that is coming is a fault, and a
\* request that waits in the queue counts as coming: this bounds the queue.
GiveUp(c) ==
    /\ session[c] \in {"put", "get"}
    /\ \/ ~Expected(c) /\ UNCHANGED faults
       \/ Expected(c) /\ faults < MaxFaults /\ faults' = faults + 1
    /\ session' = [session EXCEPT ![c] = "stuck"]
    /\ answer' = [answer EXCEPT ![c] = None]
    /\ queue' = [i \in DOMAIN queue |->
                    IF queue[i].client = c
                    THEN [queue[i] EXCEPT !.client = NoClient] ELSE queue[i]]
    /\ pending' = IF pending.kind # "none" /\ pending.client = c
                  THEN [pending EXCEPT !.client = NoClient] ELSE pending
    /\ UNCHANGED <<db, made, net, row, scan, ring, member, locked, accepted>>

Reopen(c) ==
    /\ session[c] = "stuck"
    /\ session' = [session EXCEPT ![c] = "idle"]
    /\ UNCHANGED <<db, made, answer, queue, pending, net, row, scan, ring,
                   member, locked, faults, accepted>>

-----------------------------------------------------------------------------
(* The coordinator: handle_incoming_proxy and handle_incoming_put up to    *)
(* the await of the quorum.                                                *)

\* get_replicas: the preference list without the coordinator.
Replicas == Tail(PrefList[ring])

Unused(r) == \A m \in net : m.rid # r

\* send_replicate: a replica the coordinator has no address for is replaced
\* by the next available node after the last replica; the first time there is
\* none, the rest of the replicas is not sent to.
Reachable(i) == Replicas[i] \in member[Coordinator]

Fallback == Fallbacks[ring, member[Coordinator], Replicas[Len(Replicas)]]

WriteFanOut(rid, list) ==
    LET tried == { i \in DOMAIN Replicas :
                      Fallback # {} \/ \A j \in 1 .. i : Reachable(j) }
    IN  { [type |-> "Replicate", rid |-> rid, to |-> Replicas[i],
           slot |-> Replicas[i], list |-> list] :
              i \in { j \in tried : Reachable(j) } }
        \cup
        { [type |-> "Handoff", rid |-> rid, to |-> n,
           slot |-> Replicas[i], list |-> list] :
              i \in { j \in tried : ~Reachable(j) }, n \in Fallback }

\* send_read_replicate: a replica without an address is skipped.
ReadFanOut(rid) ==
    { [type |-> "Read", rid |-> rid, to |-> Replicas[i], slot |-> Replicas[i]] :
          i \in { j \in DOMAIN Replicas : Reachable(j) } }

\* Mutant of InFlight: the id is left empty.
InFlightNoId(kind, request, rid, base) ==
    [kind |-> kind, client |-> request.client, rid |-> NoRid,
     list |-> request.list, base |-> base, received |-> 0,
     merged |-> request.list]

\* QuoromState; its lists are kept merged, and base is the coordinator's row.
InFlight(kind, request, rid, base) ==
    [kind |-> kind, client |-> request.client, rid |-> rid,
     list |-> request.list, base |-> base, received |-> 0,
     merged |-> request.list]

\* The next request is read only when the one before has been answered.
RequestWaits == pending.kind = "none" /\ queue # <<>>

\* A peer whose membership table stays locked gets stuck in its next send_to.
CanSend(p) == p \notin locked

\* Mutant of StartPut: a GET of a list that is not stored is not served.
StartPutOnlyPuts ==
    /\ RequestWaits /\ Replicas # <<>> /\ CanSend(Coordinator)
    /\ Head(queue).kind = "put"
    /\ \E rid \in Rid :
          /\ Unused(rid)
          /\ pending' = InFlight("put", Head(queue), rid, Empty)
          /\ net' = net \cup WriteFanOut(rid, Head(queue).list)
          /\ accepted' = {}
    /\ queue' = Tail(queue)
    /\ UNCHANGED <<db, made, session, answer, row, scan, ring, member, locked,
                   faults>>

\* A PUT, or a GET of a list that is not stored.
StartPut ==
    /\ RequestWaits /\ Replicas # <<>> /\ CanSend(Coordinator)
    /\ Head(queue).kind = "put" \/ row[Coordinator] = None
    /\ \E rid \in Rid :
          /\ Unused(rid)
          /\ pending' = InFlight("put", Head(queue), rid, Empty)
          /\ net' = net \cup WriteFanOut(rid, Head(queue).list)
          /\ accepted' = {}
    /\ queue' = Tail(queue)
    /\ UNCHANGED <<db, made, session, answer, row, scan, ring, member, locked,
                   faults>>

\* A GET of a stored list: the row is read now and written on completion.
StartRead ==
    /\ RequestWaits /\ Replicas # <<>> /\ CanSend(Coordinator)
    /\ Head(queue).kind = "get" /\ row[Coordinator] # None
    /\ \E rid \in Rid :
          /\ Unused(rid)
          /\ pending' = InFlight("read", Head(queue), rid, row[Coordinator].list)
          /\ net' = net \cup ReadFanOut(rid)
          /\ accepted' = {}
    /\ queue' = Tail(queue)
    /\ UNCHANGED <<db, made, session, answer, row, scan, ring, member, locked,
                   faults>>

\* Without replicas the handler returns an error and the client no answer.
NoReplicas ==
    /\ RequestWaits /\ Replicas = <<>>
    /\ queue' = Tail(queue)
    /\ UNCHANGED <<db, made, session, answer, pending, net, row, scan, ring,
                   member, locked, faults, accepted>>

-----------------------------------------------------------------------------
(* The peers: handle_incoming, for each message a task of its own.         *)

\* An answer goes to the coordinator if the peer has its address.
Reply(m, reply) ==
    net' = (net \ {m}) \cup
           (IF m.rid # NoRid /\ Coordinator \in member[m.to] /\ CanSend(m.to)
            THEN {reply} ELSE {})

Accept(m) ==
    accepted' = IF pending.kind # "none" /\ pending.rid = m.rid
                THEN accepted \cup {<<m.slot, m.to>>} ELSE accepted

\* ReplicateList, write: write_shopping_list replaces the row.
PeerWrite(m) ==
    /\ m.type = "Replicate"
    /\ row' = [row EXCEPT ![m.to] = Stored(m.list, NoHint)]
    /\ Reply(m, [type |-> "Ack", rid |-> m.rid, slot |-> m.slot])
    /\ Accept(m)
    /\ UNCHANGED <<db, made, session, answer, queue, pending, scan, ring,
                   member, locked, faults>>

\* ReplicateList, read: a peer that does not store the list does not answer.
PeerRead(m) ==
    /\ m.type = "Read"
    /\ \/ /\ row[m.to] # None
          /\ Reply(m, [type |-> "AckList", rid |-> m.rid, slot |-> m.slot,
                       list |-> row[m.to].list])
          /\ Accept(m)
       \/ row[m.to] = None /\ net' = net \ {m} /\ UNCHANGED accepted
    /\ UNCHANGED <<db, made, session, answer, queue, pending, row, scan, ring,
                   member, locked, faults>>

\* Handoff: write_shopping_list_handoff replaces the row and its hint.
PeerHandoff(m) ==
    /\ m.type = "Handoff"
    /\ row' = [row EXCEPT ![m.to] = Stored(m.list, m.slot)]
    /\ Reply(m, [type |-> "Ack", rid |-> m.rid, slot |-> m.slot])
    /\ Accept(m)
    /\ UNCHANGED <<db, made, session, answer, queue, pending, scan, ring,
                   member, locked, faults>>

\* Mutant of IsFor: the id of the request is not looked at.
IsForAny(m, kind) == pending.kind = kind

\* Ack and AckList at the coordinator: counted if their request is in flight.
IsFor(m, kind) == pending.kind = kind /\ pending.rid = m.rid

OnAck(m) ==
    /\ m.type = "Ack"
    /\ pending' = IF IsFor(m, "put") THEN [pending EXCEPT !.received = @ + 1]
                  ELSE pending
    /\ net' = net \ {m}
    /\ UNCHANGED <<db, made, session, answer, queue, row, scan, ring, member,
                   locked, faults, accepted>>

OnAckList(m) ==
    /\ m.type = "AckList"
    /\ pending' = IF IsFor(m, "read")
                  THEN [pending EXCEPT !.received = @ + 1,
                                       !.merged = Join(@, m.list)]
                  ELSE pending
    /\ net' = net \ {m}
    /\ UNCHANGED <<db, made, session, answer, queue, row, scan, ring, member,
                   locked, faults, accepted>>

-----------------------------------------------------------------------------
(* The coordinator, after the await.                                       *)

Send(c, a) == answer' = IF c = NoClient THEN answer ELSE [answer EXCEPT ![c] = a]

CompletePut ==
    /\ pending.kind = "put" /\ pending.received >= Needed
    /\ row' = [row EXCEPT ![Coordinator] = Stored(pending.list, NoHint)]
    /\ Send(pending.client, Answer(pending.list))
    /\ pending' = None /\ accepted' = {}
    /\ UNCHANGED <<db, made, session, queue, net, scan, ring, member, locked,
                   faults>>

CompleteRead ==
    /\ pending.kind = "read" /\ pending.received >= Needed
    /\ LET list == Join(pending.base, pending.merged)
       IN  /\ row' = [row EXCEPT ![Coordinator] = Stored(list, NoHint)]
           /\ Send(pending.client, Answer(list))
    /\ pending' = None /\ accepted' = {}
    /\ UNCHANGED <<db, made, session, queue, net, scan, ring, member, locked,
                   faults>>

\* The quorum times out.  Giving up on a message that is coming is a fault.
QuorumTimeout ==
    /\ pending.kind # "none" /\ pending.received < Needed
    /\ \/ Unused(pending.rid) /\ UNCHANGED faults
       \/ ~Unused(pending.rid) /\ faults < MaxFaults /\ faults' = faults + 1
    /\ Send(pending.client, Nack)
    /\ pending' = None /\ accepted' = {}
    /\ UNCHANGED <<db, made, session, queue, net, row, scan, ring, member,
                   locked>>

-----------------------------------------------------------------------------
(* hinted_handoff: the hints are read, each is sent to the peer it is for, *)
(* and the row is deleted by the list's id.                                *)

HandoffScan(p) ==
    /\ scan[p] = None
    /\ row[p] # None /\ row[p].hint # NoHint
    /\ scan' = [scan EXCEPT ![p] = [kind |-> "read", to |-> row[p].hint,
                                    list |-> row[p].list]]
    /\ UNCHANGED <<db, made, session, answer, queue, pending, net, row, ring,
                   member, locked, faults, accepted>>

HandoffSend(p) ==
    /\ scan[p].kind = "read" /\ CanSend(p)
    /\ \/ /\ scan[p].to \in member[p]
          /\ net' = net \cup {[type |-> "Replicate", rid |-> NoRid, from |-> p,
                               to |-> scan[p].to, slot |-> scan[p].to,
                               list |-> scan[p].list]}
          /\ scan' = [scan EXCEPT ![p].kind = "sent"]
       \/ /\ scan[p].to \notin member[p]
          /\ scan' = [scan EXCEPT ![p] = None]
          /\ UNCHANGED net
    /\ UNCHANGED <<db, made, session, answer, queue, pending, row, ring,
                   member, locked, faults, accepted>>

HandoffDelete(p) ==
    /\ scan[p].kind = "sent"
    /\ row' = [row EXCEPT ![p] = None]
    /\ scan' = [scan EXCEPT ![p] = None]
    /\ UNCHANGED <<db, made, session, answer, queue, pending, net, ring,
                   member, locked, faults, accepted>>

-----------------------------------------------------------------------------
(* A gossip: the handler adds the peers it names to the hash ring, waits   *)
(* for the membership table, and adds each to it.  A new peer that is a    *)
(* predecessor (with at most four peers they all are) is sent the rows     *)
(* that get_old_data returns, by a send_to that needs the table: the       *)
(* handler waits for itself, and every later send_to of the peer for it.   *)
(* get_old_data exchanges the ends of its interval: it returns every row   *)
(* without a hint, or none.                                                *)

JoinRing(q) ==
    /\ q \notin ring
    /\ ring' = ring \cup {q}
    /\ UNCHANGED <<db, made, session, answer, queue, pending, net, row, scan,
                   member, locked, faults, accepted>>

\* Whether the list is among the old data of p depends on hashes that are not in
\* the model, and change with the ring.
MayBeOldData(p) == row[p] # None /\ row[p].hint = NoHint

JoinMembership(p, q) ==
    /\ q \notin member[p] /\ p \notin locked
    /\ p = Coordinator => q \in ring
    /\ member' = [member EXCEPT ![p] = @ \cup {q}]
    /\ \/ locked' = locked
       \/ MayBeOldData(p) /\ locked' = locked \cup {p}
    /\ UNCHANGED <<db, made, session, answer, queue, pending, net, row, scan,
                   ring, faults, accepted>>

-----------------------------------------------------------------------------
(* Faults of the environment.                                              *)

\* A message between peers is lost: the receiving ROUTER drops what comes from
\* an identity that another of the sender's short-lived sockets still holds.
Lose(m) ==
    /\ faults < MaxFaults
    /\ faults' = faults + 1
    /\ net' = net \ {m}
    /\ UNCHANGED <<db, made, session, answer, queue, pending, row, scan, ring,
                   member, locked, accepted>>

\* The server process and the proxy are started again: the peers draw new ids,
\* so that none finds the database of its predecessor.
RestartServers ==
    /\ faults < MaxFaults
    /\ faults' = faults + 1
    /\ queue' = <<>> /\ pending' = None /\ net' = {} /\ accepted' = {}
    /\ row' = [p \in Peer |-> None]
    /\ scan' = [p \in Peer |-> None]
    /\ ring' = Ring0 /\ member' = Member0 /\ locked' = {}
    /\ UNCHANGED <<db, made, session, answer>>

-----------------------------------------------------------------------------
Init ==
    /\ db = [c \in Client |-> Empty]
    /\ session = [c \in Client |-> "idle"]
    /\ answer = [c \in Client |-> None]
    /\ queue = <<>> /\ pending = None /\ net = {}
    /\ row = [p \in Peer |-> None]
    /\ scan = [p \in Peer |-> None]
    /\ ring = Ring0 /\ member = Member0 /\ locked = {}
    /\ faults = 0 /\ accepted = {}
    /\ made = [c \in Client |-> <<>>]

ClientStep(c) == \/ Edit(c) \/ Refresh(c) \/ Receive(c)
                 \/ GiveUp(c) \/ Reopen(c)

CoordinatorStep == \/ StartPut \/ StartRead \/ NoReplicas
                   \/ CompletePut \/ CompleteRead \/ QuorumTimeout

Deliver(m) == \/ PeerWrite(m) \/ PeerRead(m) \/ PeerHandoff(m)
              \/ OnAck(m) \/ OnAckList(m)

HandoffStep(p) == HandoffScan(p) \/ HandoffSend(p) \/ HandoffDelete(p)

GossipStep == \/ \E q \in Peer : JoinRing(q)
              \/ \E p, q \in Peer : JoinMembership(p, q)

Next ==
    \/ \E c \in Client : ClientStep(c)
    \/ CoordinatorStep
    \/ \E m \in net : Deliver(m) \/ Lose(m)
    \/ \E p \in Peer : HandoffStep(p)
    \/ GossipStep
    \/ RestartServers

Spec == Init /\ [][Next]_vars

\* The runtime schedules every task, the network delivers, and users come back:
\* they wait for an answer or for the timeout, reopen a session that has timed
\* out, and look at the list again and again.
Session(c) == Refresh(c) \/ Receive(c) \/ GiveUp(c) \/ Reopen(c)

Fairness ==
    /\ \A c \in Client : WF_vars(Session(c))
    /\ WF_vars(CoordinatorStep)
    /\ WF_vars(\E m \in net : Deliver(m))

FairSpec == Spec /\ Fairness

-----------------------------------------------------------------------------
(* Properties. *)

Message(type) == { m \in net : m.type = type }

\* Every copy of the list in the system, wherever it is.
Lists ==
    { db[c] : c \in Client }
    \cup { answer[c].list : c \in { d \in Client : answer[d].kind = "ack" } }
    \cup { queue[i].list : i \in DOMAIN queue }
    \cup (IF pending.kind = "none" THEN {}
          ELSE {pending.list, pending.base, pending.merged})
    \cup { m.list : m \in Message("Replicate") \cup Message("Handoff")
                              \cup Message("AckList") }
    \cup { row[p].list : p \in { q \in Peer : row[q] # None } }
    \cup { scan[p].list : p \in { q \in Peer : scan[q] # None } }

Requests == [client : Client \cup {NoClient}, kind : {"put", "get"}, list : List]

Answers == {None, Nack} \cup [kind : {"ack"}, list : List]

InFlights == [kind : {"put", "read"}, client : Client \cup {NoClient}, rid : Rid,
              list : List, base : List, received : Nat, merged : List]

Rows == [kind : {"row"}, list : List, hint : Peer \cup {NoHint}]

Scans == [kind : {"read", "sent"}, to : Peer, list : List]

WellFormed(m) ==
    /\ m.type \in {"Replicate", "Read", "Handoff", "Ack", "AckList"}
    /\ m.rid \in Rid \cup {NoRid}
    /\ m.slot \in Peer
    /\ m.type \in {"Replicate", "Read", "Handoff"} => m.to \in Peer
    /\ m.type \in {"Replicate", "Handoff", "AckList"} => m.list \in List

\* Every variable has its type, and so has every copy of the list.
TypeOK ==
    /\ db \in [Client -> List]
    /\ made \in [Client -> Seq(List)]
    /\ session \in [Client -> {"idle", "put", "get", "stuck"}]
    /\ answer \in [Client -> Answers]
    /\ queue \in Seq(Requests)
    /\ pending \in {None} \cup InFlights
    /\ \A m \in net : WellFormed(m)
    /\ row \in [Peer -> {None} \cup Rows]
    /\ scan \in [Peer -> {None} \cup Scans]
    /\ ring \subseteq Peer /\ Coordinator \in ring
    /\ member \in [Peer -> SUBSET Peer]
    /\ locked \subseteq Peer
    /\ faults \in 0 .. MaxFaults
    /\ accepted \subseteq Peer \X Peer

\* Local first: an edit is nowhere in the system before it is in its author's
\* own database, so that losing all servers loses nothing.
LocalFirst == \A l \in Lists : \A c \in Client : l[c] <= db[c][c]

\* A request is answered at most once and only to who still waits for it.
OneAnswer ==
    \A c \in Client :
        LET waiting == { i \in DOMAIN queue : queue[i].client = c }
            at == IF pending.kind # "none" /\ pending.client = c THEN 1 ELSE 0
            sent == IF answer[c] # None THEN 1 ELSE 0
            total == Cardinality(waiting) + at + sent
        IN  total <= (IF session[c] \in {"put", "get"} THEN 1 ELSE 0)

\* What QuoromState has received are answers of different replicas (or of
\* their stand-ins) to this request, each sent after its peer did its part.
ReceivedIsServed ==
    pending.kind # "none" =>
        LET answers == { m \in net : m.type \in {"Ack", "AckList"}
                                     /\ m.rid = pending.rid }
            slots == { a[1] : a \in accepted }
        IN  /\ pending.received + Cardinality(answers) <= Cardinality(slots)
            /\ \A m \in answers : m.slot \in slots

\* The clients' databases, and the edits as they were made, are a causal list.
Causal == INSTANCE CausalList WITH known <- db

\* Every step of the system is an edit, a step in which a client learns whole
\* pasts of edits that were made, or invisible to the users (the merges of
\* retrieve_list and get_merged_list lose nothing, and rows and messages that
\* are lost or replaced take nothing from a client).
ImplementsCausalList == Causal!Spec

\* Every copy anywhere is a past: a row, a message or an answer that holds an
\* edit holds what its author knew, so that no merge of any of them shows an
\* effect without its cause (get_merged_list, crdt.rs merge).
ListsArePasts == \A l \in Lists : Causal!Past(l)

\* When the edits and the faults are over, all clients hold the same list.
Converges == <>[](\A c, d \in Client : db[c] = db[d])

\* "Both clients and servers persist CRDT state" (README): a write that the
\* coordinator stores and acknowledges takes nothing from what it persisted.
WritesCover ==
    [][ CompletePut /\ row[Coordinator] # None =>
           Covers(row'[Coordinator].list, row[Coordinator].list) ]_vars

\* "minimum number of nodes that must participate in a write" (hash_ring.rs:7): a
\* PUT is acknowledged only after WRITE_NODES peers, the coordinator among them, did
\* a part of it, be it as a replica or as a stand-in (handle_incoming_put).
EnoughNodesWrite ==
    [][ CompletePut =>
           Cardinality({Coordinator} \cup { part[2] : part \in accepted }) >= WriteNodes ]_vars
=============================================================================

----------------------------- MODULE Membership -----------------------------
(***************************************************************************)
(* How the peers of one server process come to know each other: main       *)
(* starts the seed, lets the others join through it one after the other,   *)
(* and then starts them; each started peer gossips its membership table to *)
(* a peer drawn from it.  A peer has two structures, the membership table  *)
(* (addresses) and the hash ring, which the handlers update one after the  *)
(* other.  Which tasks come to wait for each other's locks is in PeerLocks; *)
(* here a peer some of whose locks are held for ever is stuck.             *)
(***************************************************************************)
EXTENDS Integers, FiniteSets

CONSTANTS
    N,          \* number of peers at most; 1 is the seed
    Settings    \* how many peers the server starts, whether they send lists to
                \* each other and may have rows to hand over meanwhile, which have
                \* rows that cannot be read, and bounds: peers that are told to leave,
                \* gossips that are lost, gossips that are under way at a time

ASSUME NAssumption == N \in Nat \ {0}
ASSUME SettingsAssumption ==
    Settings \subseteq [peers : 1 .. N, traffic : BOOLEAN, rows : BOOLEAN,
                        unreadable : SUBSET (1 .. N), left : Nat, lost : Nat,
                        gossips : Nat \ {0}]

VARIABLES
    setting,    \* one of the settings
    status,     \* "new", "joining", "joined" (or given up), "started"
    member,     \* membership tables
    ring,       \* the nodes of the hash rings
    net,        \* messages between peers; they may overtake each other
    buf,        \* the last gossip each joining peer has received
    greets,     \* peers whose HELLO a peer is still to answer
    gossips,    \* tables that a peer has read and is to send to a peer it draws
    merging,    \* tables that are in a peer's ring and not yet in its table
    failure,    \* the peers in each failure table
    cut,        \* peers that only a gossip handler which ended early has met
    stuck,      \* the mutexes of each peer that are held for ever
    left,       \* peers that were told to leave
    faults      \* how many gossips were lost

vars == <<setting, status, member, ring, net, buf, greets, gossips, merging,
          failure, cut, stuck, left, faults>>

Peer == 1 .. N

Present == 1 .. setting.peers

Seed == 1

NoTable == {}

Started(p) == status[p] = "started"

\* The membership table can be locked.
Free(p) == "membership" \notin stuck[p]

\* Mutant of Hello: peer p is told the address of the peer before it.
HelloToPrevious(p) == [type |-> "Hello", from |-> p, to |-> p - 1]

Hello(p) == [type |-> "Hello", from |-> p, to |-> Seed]

Gossip(p, table) == [type |-> "Gossip", table |-> table, to |-> p]

\* Gossips on their way, and at a handler that is not done with them.
UnderWay == Cardinality({ m \in net : m.type = "Gossip" })
            + Cardinality({ h \in Peer \X SUBSET Peer : h[2] \in merging[h[1]] })

Room == UnderWay < setting.gossips

-----------------------------------------------------------------------------
(* main: join, one peer after the other, and start.                        *)

Join(p) ==
    /\ status[p] = "new"
    /\ \A q \in Present : q < p => status[q] \notin {"new", "joining"}
    /\ status' = [status EXCEPT ![p] = "joining"]
    /\ net' = net \cup {Hello(p)}
    /\ UNCHANGED <<setting, member, ring, buf, greets, gossips, merging, failure, cut,
                   stuck, left, faults>>

\* The loop of join takes every message there is until JOIN_TIMEOUT is over.
Buffer(m) ==
    /\ m.type = "Gossip" /\ status[m.to] = "joining"
    /\ net' = net \ {m}
    /\ buf' = [buf EXCEPT ![m.to] = m.table]
    /\ UNCHANGED <<setting, status, member, ring, greets, gossips, merging, failure,
                   cut, stuck, left, faults>>

\* Mutant of JoinEnd: what was received stays in the buffer.
JoinEndKeepsBuffer(p) ==
    /\ status[p] = "joining"
    /\ status' = [status EXCEPT ![p] = "joined"]
    /\ member' = IF buf[p] = NoTable THEN member
                 ELSE [member EXCEPT ![p] = buf[p]]
    /\ UNCHANGED <<setting, ring, net, buf, greets, gossips, merging, failure, cut,
                   stuck, left, faults>>

\* The last table received replaces the peer's own; main goes on either way.
JoinEnd(p) ==
    /\ status[p] = "joining"
    /\ status' = [status EXCEPT ![p] = "joined"]
    /\ member' = IF buf[p] = NoTable THEN member
                 ELSE [member EXCEPT ![p] = buf[p]]
    /\ buf' = [buf EXCEPT ![p] = NoTable]
    /\ UNCHANGED <<setting, ring, net, greets, gossips, merging, failure, cut, stuck,
                   left, faults>>

Start(p) ==
    /\ status[p] = "joined"
    /\ \A q \in Present : IF q < p THEN Started(q) ELSE status[q] = "joined"
    /\ status' = [status EXCEPT ![p] = "started"]
    /\ UNCHANGED <<setting, member, ring, net, buf, greets, gossips, merging, failure,
                   cut, stuck, left, faults>>

-----------------------------------------------------------------------------
(* The handlers of HELLO and GOSSIP, each in as many steps as it has       *)
(* critical sections that others can come between.                         *)

\* Mutant of HandleHello: the new peer is answered, and not remembered.
HandleHelloForgets(m) ==
    /\ m.type = "Hello" /\ Started(m.to) /\ Free(m.to)
    /\ net' = net \ {m}
    /\ greets' = [greets EXCEPT ![m.to] = @ \cup {m.from}]
    /\ UNCHANGED <<setting, status, member, ring, buf, gossips, merging, failure, cut,
                   stuck, left, faults>>

HandleHello(m) ==
    /\ m.type = "Hello" /\ Started(m.to) /\ Free(m.to)
    /\ net' = net \ {m}
    /\ member' = [member EXCEPT ![m.to] = @ \cup {m.from}]
    /\ cut' = [cut EXCEPT ![m.to] = @ \ {m.from}]
    /\ greets' = [greets EXCEPT ![m.to] = @ \cup {m.from}]
    /\ UNCHANGED <<setting, status, ring, buf, gossips, merging, failure, stuck, left,
                   faults>>

\* send_gossip_to, and the first half of the send_gossip that follows.
Greet(p, q) ==
    /\ q \in greets[p] /\ Free(p)
    /\ greets' = [greets EXCEPT ![p] = @ \ {q}]
    /\ net' = net \cup (IF q \in member[p] THEN {Gossip(q, member[p])} ELSE {})
    /\ gossips' = [gossips EXCEPT ![p] = @ \cup {member[p]}]
    /\ UNCHANGED <<setting, status, member, ring, buf, merging, failure, cut, stuck,
                   left, faults>>

HandleGossip(m) ==
    /\ m.type = "Gossip" /\ Started(m.to)
    /\ net' = net \ {m}
    /\ ring' = [ring EXCEPT ![m.to] = @ \cup m.table]
    /\ merging' = [merging EXCEPT ![m.to] = @ \cup {m.table}]
    /\ UNCHANGED <<setting, status, member, buf, greets, gossips, failure, cut, stuck,
                   left, faults>>

\* Mutant of InsertEntries: the filter lets the known peers through.
InsertEntriesKnown(p, table) ==
    /\ table \in merging[p] /\ Free(p)
    /\ merging' = [merging EXCEPT ![p] = @ \ {table}]
    /\ member' = [member EXCEPT ![p] = @ \cup (table \cap @)]
    /\ UNCHANGED <<setting, status, ring, net, buf, greets, gossips, failure, cut,
                   stuck, left, faults>>

InsertEntries(p, table) ==
    /\ table \in merging[p] /\ Free(p)
    /\ merging' = [merging EXCEPT ![p] = @ \ {table}]
    /\ member' = [member EXCEPT ![p] = @ \cup table]
    /\ cut' = [cut EXCEPT ![p] = @ \ table]
    /\ UNCHANGED <<setting, status, ring, net, buf, greets, gossips, failure, stuck,
                   left, faults>>

\* The handler comes to a new peer from which its own has taken over rows.
ReachesPredecessor(p, table, entered) ==
    /\ table \in merging[p] /\ Free(p)
    /\ entered # {} /\ entered \subseteq table \ member[p]
    /\ member' = [member EXCEPT ![p] = @ \cup entered]
    /\ UNCHANGED <<setting, status, ring, net, buf, greets, gossips, failure, left,
                   faults>>

\* A row cannot be read, and the handler ends with the peers it has come to.
EndEarly(p, table, entered) ==
    /\ p \in setting.unreadable /\ ReachesPredecessor(p, table, entered)
    /\ merging' = [merging EXCEPT ![p] = @ \ {table}]
    /\ cut' = [cut EXCEPT ![p] = (@ \cup table) \ member'[p]]
    /\ UNCHANGED stuck

\* There are rows to send, which needs the membership table that is held.
HandOver(p, table, entered) ==
    /\ setting.rows /\ ReachesPredecessor(p, table, entered)
    /\ stuck' = [stuck EXCEPT ![p] = @ \cup {"membership"}]
    /\ cut' = [cut EXCEPT ![p] = @ \ entered]
    /\ UNCHANGED merging

-----------------------------------------------------------------------------
(* send_gossip: the table is cloned, and the peer drawn from the table as  *)
(* it is afterwards.                                                       *)

ReadTable(p) ==
    /\ Started(p) /\ gossips[p] = {} /\ Free(p)
    /\ gossips' = [gossips EXCEPT ![p] = {member[p]}]
    /\ UNCHANGED <<setting, status, member, ring, net, buf, greets, merging, failure,
                   cut, stuck, left, faults>>

SendGossip(p, q) ==
    /\ q \in member[p] /\ Room /\ Free(p)
    /\ \E table \in gossips[p] :
          /\ gossips' = [gossips EXCEPT ![p] = @ \ {table}]
          /\ net' = IF q = p THEN net ELSE net \cup {Gossip(q, table)}
    /\ UNCHANGED <<setting, status, member, ring, buf, greets, merging, failure, cut,
                   stuck, left, faults>>

-----------------------------------------------------------------------------
(* send_to on behalf of a list: a node of the ring without an address is   *)
(* recorded as failed, the record of one that can be sent to is cleared.   *)

Replicate(p, q) ==
    /\ setting.traffic /\ Started(p) /\ q \in ring[p] \ {p} /\ stuck[p] = {}
    /\ failure' = [failure EXCEPT ![p] = IF q \in member[p] THEN @ \ {q} ELSE @ \cup {q}]
    /\ UNCHANGED <<setting, status, member, ring, net, buf, greets, gossips, merging,
                   cut, stuck, left, faults>>

\* failure_detection pings who is in the failure table while it holds it.  Each
\* task of the peer then stops when its next message is sent; here it may go on.
DetectFailures(p) ==
    /\ failure[p] # {}
    /\ stuck' = [stuck EXCEPT ![p] = @ \cup {"failure"}]
    /\ UNCHANGED <<setting, status, member, ring, net, buf, greets, gossips, merging,
                   failure, cut, left, faults>>

\* leave takes the peer out of its own ring; its process keeps running.  A row
\* that it sends while a gossip handler holds the membership table is never sent,
\* as the handler waits for the ring.
Leave(p) ==
    /\ Started(p) /\ p \notin left /\ Cardinality(left) < setting.left
    /\ ring' = [ring EXCEPT ![p] = @ \ {p}]
    /\ left' = left \cup {p}
    /\ \/ UNCHANGED stuck
       \/ /\ setting.rows /\ merging[p] # {}
          /\ stuck' = [stuck EXCEPT ![p] = @ \cup {"membership"}]
    /\ UNCHANGED <<setting, status, member, net, buf, greets, gossips, merging,
                   failure, cut, faults>>

\* A gossip is lost: the receiver drops what comes from an identity that another
\* of the sender's short-lived sockets still holds.
Lose(m) ==
    /\ m.type = "Gossip" /\ faults < setting.lost
    /\ faults' = faults + 1
    /\ net' = net \ {m}
    /\ UNCHANGED <<setting, status, member, ring, buf, greets, gossips, merging,
                   failure, cut, stuck, left>>

-----------------------------------------------------------------------------
Init ==
    /\ setting \in Settings
    /\ status = [p \in Peer |-> IF p = Seed THEN "started" ELSE "new"]
    /\ member = [p \in Peer |-> {p}]
    /\ ring = [p \in Peer |-> {p}]
    /\ net = {} /\ left = {} /\ faults = 0
    /\ buf = [p \in Peer |-> NoTable]
    /\ greets = [p \in Peer |-> {}]
    /\ gossips = [p \in Peer |-> {}]
    /\ merging = [p \in Peer |-> {}]
    /\ failure = [p \in Peer |-> {}]
    /\ cut = [p \in Peer |-> {}]
    /\ stuck = [p \in Peer |-> {}]

Main == \E p \in Present : Join(p) \/ JoinEnd(p) \/ Start(p)

Deliver(m) == Buffer(m) \/ HandleHello(m) \/ HandleGossip(m)

Handler(p) == \/ \E q \in Peer : Greet(p, q)
              \/ \E table \in merging[p] :
                    \/ InsertEntries(p, table)
                    \/ \E entered \in SUBSET table : EndEarly(p, table, entered)

Next ==
    \/ Main
    \/ \E m \in net : Deliver(m) \/ Lose(m)
    \/ \E p \in Peer : Handler(p) \/ ReadTable(p) \/ Leave(p) \/ DetectFailures(p)
    \/ \E p \in Peer, table, entered \in SUBSET Peer : HandOver(p, table, entered)
    \/ \E p, q \in Peer : SendGossip(p, q) \/ Replicate(p, q)

Spec == Init /\ [][Next]_vars

\* main goes on, the network delivers, and so do the handlers of peers that are not
\* stuck.  Each peer gossips every second to a peer drawn at random, so that it
\* draws each again and again; that the seed draws each other peer, and is drawn
\* by it, is all that is assumed.
Fairness ==
    /\ WF_vars(Main)
    /\ WF_vars(stuck[Seed] = {} /\ \E m \in net : HandleHello(m))
    /\ \A p \in Peer :
          /\ WF_vars(/\ stuck[p] = {}
                     /\ \E m \in net : m.to = p /\ (Buffer(m) \/ HandleGossip(m)))
          /\ WF_vars(stuck[p] = {} /\ Handler(p))
          /\ WF_vars(stuck[p] = {} /\ ReadTable(p))
    /\ \A p \in Peer \ {Seed} : /\ SF_vars(stuck[Seed] = {} /\ SendGossip(Seed, p))
                               /\ SF_vars(stuck[p] = {} /\ SendGossip(p, Seed))

FairSpec == Spec /\ Fairness

-----------------------------------------------------------------------------
(* Properties. *)

Messages == { Hello(p) : p \in Peer } \cup { Gossip(p, t) : p \in Peer, t \in SUBSET Peer }

\* Every variable has its type, and only a started peer runs handlers.
TypeOK ==
    /\ setting \in Settings
    /\ status \in [Peer -> {"new", "joining", "joined", "started"}]
    /\ member \in [Peer -> SUBSET Peer] /\ ring \in [Peer -> SUBSET Peer]
    /\ net \subseteq Messages
    /\ buf \in [Peer -> SUBSET Peer] /\ greets \in [Peer -> SUBSET Peer]
    /\ gossips \in [Peer -> SUBSET SUBSET Peer]
    /\ merging \in [Peer -> SUBSET SUBSET Peer]
    /\ failure \in [Peer -> SUBSET Peer] /\ cut \in [Peer -> SUBSET Peer]
    /\ stuck \in [Peer -> SUBSET {"membership", "failure"}]
    /\ left \subseteq { p \in Peer : Started(p) }
    /\ \A p \in Peer :
          /\ status[p] # "joining" => buf[p] = NoTable
          /\ ~Started(p) => greets[p] = {} /\ gossips[p] = {} /\ merging[p] = {}
    /\ faults \in 0 .. setting.lost

\* A node of a peer's hash ring is the peer itself, has an address in its table,
\* or is about to get one from a gossip handler that is under way (add_nodes
\* before the table): a preference list names nobody else who cannot be sent to,
\* but for the peers that a handler which could not read its rows has left out.
RingIsAddressable ==
    \A p \in Peer : ring[p] \subseteq {p} \cup member[p] \cup (UNION merging[p]) \cup cut[p]

\* Whom a started peer, or a gossip it is sent, knows of beside itself, the
\* seed knows: everything comes from a HELLO to the seed.  A peer that only
\* others knew would not be in the table the seed hands to the next one.
SeedKnowsAll ==
    /\ \A p \in Peer : member[p] \ {p} \subseteq member[Seed]
    /\ \A m \in net : m.type = "Gossip" => m.table \subseteq member[Seed]

\* Unless a peer gets stuck, every peer comes to know, by address and in its
\* ring, every peer that does not leave, even if its join has timed out, a gossip
\* is lost or a gossip handler ends early ("gossip-style membership propagation").
FormsCluster ==
    [](\A p \in Peer : stuck[p] = {}) =>
        <>[](\A p \in Present : Present \ left \subseteq member[p] \cap ring[p])
=============================================================================

----------------------------- MODULE PeerLocks -----------------------------
(***************************************************************************)
(* The mutexes of one peer and the tasks that take them: the periodic      *)
(* tasks (gossip, hinted handoff, failure detection, the requests of the   *)
(* proxy) and the handlers of messages, each a tokio task or a blocking    *)
(* thread of its own.                                                      *)
(*                                                                         *)
(* A task is its sequence of lock operations; what a function does is a    *)
(* set of such sequences, one for each way through it.  A lock that is     *)
(* taken and released with nothing in between that waits is one step,      *)
(* Touch.  A loop whose turns hold no lock in between, or hold the same    *)
(* locks throughout, has one turn.                                         *)
(***************************************************************************)
EXTENDS Naturals, Sequences, FiniteSets

CONSTANTS
    Task,       \* tasks, each runs once
    Nobody,
    Kinds       \* the kinds of task that are looked at

ASSUME NobodyAssumption == Nobody \notin Task

VARIABLES
    kind,       \* what each task is: "idle" before it starts
    todo,       \* the lock operations it has before it
    holder,     \* which task holds each mutex
    failures    \* whether the failure table has an entry

vars == <<kind, todo, holder, failures>>

Lock == {"membership", "hashring", "failure", "storage", "in_flight", "proxy_dealer"}

-----------------------------------------------------------------------------
(* Lock operations, and ways through functions.                            *)

Take(l) == {<< <<"take", l>> >>}

Give(l) == {<< <<"give", l>> >>}

Touch(l) == {<< <<"touch", l>> >>}

Nothing == {<<>>}

Then(A, B) == { a \o b : a \in A, b \in B }

Then3(A, B, C) == Then(A, Then(B, C))

HoldingForEver(l, A) == Then(Take(l), A)      \* mutant of Holding

Holding(l, A) == Then3(Take(l), A, Give(l))

-----------------------------------------------------------------------------
(* Sending to a peer.                                                      *)

Marked == {<< <<"mark", "failure">> >>}

Cleared == {<< <<"clear", "failure">> >>}

\* connect_to_peer finds the address, or fails; close_conn looks it up again.
SendSucceeds == Then3(Touch("membership"), Cleared, Touch("membership"))

SendFails == Then(Touch("membership"), Marked)

SendTo == SendSucceeds \cup SendFails

\* The table is cloned, then read again to choose a peer; not to itself.
SendGossip == Then3(Touch("membership"), Touch("membership"), SendTo \cup Nothing)

SendGossipTo == Then3(Touch("membership"), Touch("membership"), SendTo)

-----------------------------------------------------------------------------
(* The handlers of messages between peers.                                 *)

HandleLeave == Holding("hashring", Holding("storage", SendTo \cup Nothing))

\* For a new peer that is a predecessor the old data is looked for, and sent.
HandleGossip ==
    LET handOver == Then3(Touch("hashring"), Touch("storage"), SendTo \cup Nothing)
    IN  Then(Touch("hashring"),
             Holding("membership", Then(Touch("hashring"), Nothing \cup handOver)))

\* Mutant of HandleHello: the guard lives to the end of the handler.
HandleHelloNoBrackets == Holding("membership", Then(SendGossipTo, SendGossip))

HandleHello == Then3(Touch("membership"), SendGossipTo, SendGossip)

\* A write, or a read of a stored list, is answered.
HandleReplicateList == Then(Touch("storage"), Nothing \cup SendTo)

HandleAck == Touch("in_flight")

HandleHandoff == Then(Touch("storage"), SendTo)

HandleMergeList == Touch("storage")

-----------------------------------------------------------------------------
(* The requests of clients.                                                *)

IsPeerAvailable == Then(Touch("membership"), Touch("failure") \cup Nothing)

GetNextAvailableNode == Then(Touch("hashring"), IsPeerAvailable)

SendReplicate ==
    LET standIn == Then3(SendFails, GetNextAvailableNode, SendTo \cup Nothing)
    IN  Then3(Touch("in_flight"), SendSucceeds \cup standIn, Touch("in_flight"))

SendReadReplicate == Then3(Touch("in_flight"), SendTo, Touch("in_flight"))

\* get_replicas; the list is stored, and the answer sent under the same guard.
HandleIncomingPut ==
    Then(Touch("hashring"),
         Nothing \cup
         Then(SendReplicate, Holding("storage", Touch("proxy_dealer"))
                             \cup Touch("proxy_dealer")))

HandleGet ==
    LET stored == Then3(SendReadReplicate, Touch("storage") \cup Nothing,
                        Touch("proxy_dealer"))
    IN  Then(Touch("storage"),
             HandleIncomingPut \cup Then(Touch("hashring"), Nothing \cup stored))

\* The dealer is locked while the request is waited for.
ListenProxy == Then(Touch("proxy_dealer"), HandleIncomingPut \cup HandleGet)

-----------------------------------------------------------------------------
(* The periodic tasks.                                                     *)

HintedHandoff ==
    Then(Touch("storage"),
         Nothing \cup Then(SendSucceeds, Touch("storage")) \cup SendFails)

\* Pings are sent to the peers in the failure table, if any, while the table is
\* locked: what they do depends on the table when it is read.
FailureDetection == Holding("failure", {<< <<"ping", "failure">> >>})

Ways == [Leave |-> HandleLeave,
         Gossip |-> HandleGossip,
         Hello |-> HandleHello,
         ReplicateList |-> HandleReplicateList,
         Ack |-> HandleAck,
         Handoff |-> HandleHandoff,
         MergeList |-> HandleMergeList,
         listen_proxy |-> ListenProxy,
         send_gossip |-> SendGossip,
         hinted_handoff |-> HintedHandoff,
         failure_detection |-> FailureDetection]

\* Of each of these there is one task in a peer.
Periodic == {"listen_proxy", "send_gossip", "hinted_handoff", "failure_detection"}

ASSUME KindsAssumption == Kinds \subseteq DOMAIN Ways

-----------------------------------------------------------------------------
Start(t) ==
    /\ kind[t] = "idle"
    /\ \E k \in Kinds :
          /\ k \in Periodic => \A u \in Task : kind[u] # k
          /\ kind' = [kind EXCEPT ![t] = k]
          /\ \E way \in Ways[k] : todo' = [todo EXCEPT ![t] = way]
    /\ UNCHANGED <<holder, failures>>

Running(t) == todo[t] # <<>>

Op(t) == Head(todo[t])[1]

Mutex(t) == Head(todo[t])[2]

\* The next step of t, if it needs a lock that it does not yet hold.
Needs(t) == Op(t) \in {"take", "touch", "mark", "clear"}

Advance(t) == todo' = [todo EXCEPT ![t] = Tail(@)]

TakeStep(t) ==
    /\ Running(t) /\ Op(t) = "take" /\ holder[Mutex(t)] = Nobody
    /\ holder' = [holder EXCEPT ![Mutex(t)] = t]
    /\ Advance(t)
    /\ UNCHANGED <<kind, failures>>

GiveStep(t) ==
    /\ Running(t) /\ Op(t) = "give"
    /\ holder' = [holder EXCEPT ![Mutex(t)] = Nobody]
    /\ Advance(t)
    /\ UNCHANGED <<kind, failures>>

\* mark_peer_failed, clear_peer_failure (another peer's entry may remain), and
\* sections that do not concern the failure table.
TouchStep(t) ==
    /\ Running(t) /\ holder[Mutex(t)] = Nobody
    /\ \/ Op(t) = "touch" /\ UNCHANGED failures
       \/ Op(t) = "mark" /\ failures' = TRUE
       \/ Op(t) = "clear" /\ failures' \in {FALSE, failures}
    /\ Advance(t)
    /\ UNCHANGED <<kind, holder>>

PingStep(t) ==
    /\ Running(t) /\ Op(t) = "ping"
    /\ \E way \in (IF failures THEN SendTo ELSE Nothing) :
          todo' = [todo EXCEPT ![t] = way \o Tail(@)]
    /\ UNCHANGED <<kind, holder, failures>>

Step(t) == TakeStep(t) \/ GiveStep(t) \/ TouchStep(t) \/ PingStep(t)

Init == /\ kind = [t \in Task |-> "idle"]
        /\ todo = [t \in Task |-> <<>>]
        /\ holder = [l \in Lock |-> Nobody]
        /\ failures = FALSE

Next == \E t \in Task : Start(t) \/ Step(t)

Spec == Init /\ [][Next]_vars

\* The runtime runs every task that does not wait for a mutex.
FairSpec == Spec /\ \A t \in Task : WF_vars(Step(t))

-----------------------------------------------------------------------------
(* Properties. *)

\* Every mutex is held by a task that is to release it, or by nobody.
TypeOK ==
    /\ kind \in [Task -> Kinds \cup {"idle"}]
    /\ failures \in BOOLEAN
    /\ holder \in [Lock -> Task \cup {Nobody}]
    /\ \A l \in Lock : holder[l] # Nobody =>
          \E i \in DOMAIN todo[holder[l]] : todo[holder[l]][i] = <<"give", l>>

WaitsFor(t, u) == Running(t) /\ Needs(t) /\ holder[Mutex(t)] = u

Circle(S) == S # {} /\ \A t \in S : \E u \in S : WaitsFor(t, u)

\* No tasks of a peer wait for each other in a circle, and none for itself:
\* "do operations with locks inside brackets, to be sure that the lock is
\* released" (the handler of HELLO).  The code does not keep to it.
NoCircularWait == \A S \in SUBSET Task : ~Circle(S)

\* What send_to locks.
Sending == {"membership", "failure"}

\* leave, a gossip handler that hands lists over, or failure_detection waits for
\* what send_to needs, with the ring, the membership table or the failure table
\* still locked.
SendsUnderGuard(t) ==
    /\ kind[t] \in {"Leave", "Gossip", "failure_detection"}
    /\ Running(t) /\ Needs(t) /\ Mutex(t) \in Sending
    /\ \E l \in Lock : holder[l] = t

\* Every circle of waits is made by one of the three that send under a guard: the
\* order in which all the other tasks, and these before they send, take the
\* mutexes is free of circles.
CirclesAreGuardedSends ==
    \A S \in SUBSET Task : Circle(S) => \E t \in S : SendsUnderGuard(t)

\* Every message a peer takes up, and every turn of a periodic task, is done
\* with in the end, unless tasks wait for each other in a circle.
TasksEnd ==
    \A t \in Task : Running(t) ~> (~Running(t) \/ \E S \in SUBSET Task : Circle(S))
=============================================================================

# Verification of the local-first shopping list

TLA+ modules, TLC configurations and TLAPS proofs about the program in `src/`
(Rust; the code is in `src/src/*.rs`). Line references are to that tree.

## 1. The system

A user edits shopping lists in a terminal client. The client stores every list in
its own SQLite database first, and then exchanges complete copies of it with a
cluster of peers behind a proxy. A list is a map from item names to items; an
item's quantity is a PN-counter and its acquired flag a last-writer-wins register,
so that copies can be merged in any order.

```
 CLI / Client --REQ--> Proxy --ROUTER--> coordinator Peer --DEALER--> replica Peers
   |                     |                   |                            |
 client.db          hash ring          ring, membership,             the same
                                       in_flight, server.db
```

| component | state it keeps | operations | where it is hard |
|---|---|---|---|
| CRDT types, `crdt.rs` | counters, registers, the map | `inc_by`, `dec_by`, `should_update`, `merge` | merges happen in any order and repeatedly; ties between register writes |
| Client storage, `storage.rs` 29-552 | `local_lists`, `awormap_items`, counter tables | `handle_item_storage_request`, `ensure_list`, `read_shopping_list`, `write_shopping_list` | an edit is read, changed, merged and written; quantities are differences, with casts at either end of 64 bits |
| Client, `client.rs` | REQ socket | `send_item_storage_request`, `retrieve_list` | gives up after 100 ms; the socket then refuses to send; late answers |
| CLI, `cli.rs` | the screen | new item, quantity, toggle, refresh | edits what the screen showed |
| Proxy, `proxy.rs` | its own hash ring | READY, route a request, return an answer | learns of a peer once only |
| Peer as coordinator, `server.rs` 649-723, 974-1247 | `in_flight` quorum states | PUT, GET, replicate, read, stand-ins | awaits in the middle of a request, 3000 ms timeout, one request at a time, acknowledgements that come late |
| Peer as replica, `server.rs` 725-972 | rows of `shopping_lists` | ReplicateList, Handoff, Ack, AckList, MergeList | one task per message, so messages overtake each other; rows are replaced |
| Hinted handoff, `server.rs` 1012-1065 | rows with a hint | every 3 s: scan, send, delete | three steps under separate locks |
| Membership and gossip, `server.rs` 281-348, 505-645, 732-821 | membership table, hash ring | Hello, Gossip, join, leave | two tables updated one after the other; locks held while sending |
| Failure table, `server.rs` 48-88, 1256-1307 | failed peers | mark, clear, ping | lock order with `send_to` |
| Hash ring, `hash_ring.rs` | positions of virtual nodes | preference list, next node, predecessors | wrap-around, cycles of the walk |

What makes each correct:

* *CRDT and client storage*: no copy is ahead of a client about that client's own
  entries; a register write has one value; copies with the same edits are equal;
  nothing is taken back from a database; an edit sets what was typed in.
* *Client and coordinator*: an edit is in the author's database before it is
  anywhere else; a request gets at most one answer, and nobody takes the answer to
  another request for it; a quorum counts each replica once, for this request, and
  after its part was done; enough peers take part in a write; whoever holds an edit
  holds what its author knew; users who keep refreshing converge.
* *Membership*: ring and table agree in the end, no peer waits for itself, and all
  come to know each other.
* *Ring*: a preference list has the nearest peers, and changes only by the peer that
  comes or goes.
* *Proxy*: an answer reaches who asked, for what was asked, whatever is restarted.

All hazards found in the code, with the line where they bite and the property
that would catch them, are listed under `hazards` in `PROJECT.json`.

## 2. Modules

| module | what it is |
|---|---|
| `CRDT` | `crdt.rs` as operators: `GMerge`, `ShouldUpdate`, `RegMerge`, `ItemMerge`, `MapMerge`, ... A counter is a total function, since an absent entry reads as 0 in the code. |
| `CRDTProofs` | theorems about them |
| `CausalList` | the abstract specification: clients edit alone, and learn whole pasts |
| `LocalStore` | state machine of the clients' databases for one list: one action per CLI command (`AddItem`, `ChangeAmount`, `ToggleAcquired`) and the two outcomes of a refresh (`RetrieveList`, `RetrieveListTimeout`). The cluster is the set of copies it was ever given or answered with. |
| `LocalStoreHistory` | `LocalStore` with the versions each edit made, and its refinement of `CausalList` |
| `LocalStoreProofs` | theorems about them, the refinement among them |
| `Sessions` | sessions of one user on one item, statement by statement: reads, edit, write-back, refresh |
| `SessionsProofs` | theorems about them |
| `Replication` | clients, coordinator and replicas for one list: sockets, request queue, quorums, messages, rows, hints, what a gossip changes, faults; its refinement of `CausalList` |
| `ReplicationProofs` | theorems about it, the refinement among them |
| `HashRing` | `hash_ring.rs` as operators: preference lists, next node, adding and removing nodes |
| `RingChanges` | the ring of one peer, while gossips name others and it is told to leave |
| `RingWalk` | the search for a stand-in, turn by turn, while gossips change ring and table |
| `RingProofs` | theorems about these three |
| `Membership` | `main`, join, Hello, Gossip, the periodic gossip, the failure table, leave; gossip handlers that end early or never |
| `PeerLocks` | the mutexes of one peer and the tasks that take them |
| `Proxy` | registration, routing, answers, restarts of proxy and servers |
| `MembershipProofs`, `PeerLocksProofs`, `ProxyProofs` | theorems about the last three |
| `MC...` | instances for TLC (`MCReplication` and `MCProxy` with the rings of `HashRing`) |

How they fit: `LocalStore` looks at what lists contain, and justifies that everything
else may look only at which edits they contain. `Replication` is the protocol for one
list behind a coordinator, given who knows whom; `Membership` is how peers get to know
each other; `RingChanges`, `RingWalk` and `HashRing` say which peers a list belongs to;
`Proxy` is what is in front of the coordinator, `Sessions` what is behind the client,
and `PeerLocks` which tasks of a peer can stop each other (they can: `Membership` and
`Replication` have states for peers that are stuck). Modules share operators (`CRDT`, `HashRing`) and the
abstract specification (`CausalList`).

**CRDT to LocalStore.** `db[c]` is what `read_shopping_list` builds from client
`c`'s tables. An item edit is `handle_item_storage_request`: the screen's quantity is
turned into a difference, recorded in the client's own counter entry, the register
gets `clock + 1` and the client's id if the flag changed, and the result is merged
into the stored item. `seen` is a history variable: how many edits of each client a
copy contains. A quantity is what the input line can be parsed to, a u64 other than 0.

Integers have the width they have in the program, with `Half` for 2^63. `AsU64`, `AsI64` and
`Wrapped` are the casts and the arithmetic of an `i64` in a release build; where an edit
overflows, a debug build panics instead, which is `EditPanics` (the list is entered in
`local_lists`, the item stays). `Amount` is `PNCounter::value_total`, which casts two sums of
`u64` and subtracts. A count is written as an `i64` and read as a `u64`: `Readable` says of a list that
it has no count from 2^63 on. A list that is not readable can be neither shown nor edited nor
sent (`RetrieveListError`), and an edit that makes it so is stored and not sent.
`ItemMerge` works on counts of `u64`, as the counts of a list that is read fit in one. The
merged list of a refresh is written; a write that fails is in `Sessions`.

**LocalStore to Replication.** `LocalStore` shows that two copies with the same
edits are the same list (`SameEditsSameList`, and `CopiesAreExplained`, which says what
that list is). `Replication` relies on it: there a copy of the list *is* the vector of
how many edits of each client it contains, and a merge is the pointwise maximum.

**CausalList.** `known[c]` is the vector of edits client `c` knows, `made[c][k]` what it
knew when it had made its `k`-th. A client learns vectors that are closed: who knows an
edit knows what its author knew. Both refinements map `known` to the databases (`seen`,
`db`) and `made` to the history variable. Nothing the servers do is visible in it.

**Sessions.** `ClientStorage` reads an item in three statements and writes it back in a
transaction of its own, as absolute values; a refresh reads the list, waits, and
writes absolute values too. `held[s]` is what the session `s` has read. Counters here
are rows (partial functions), because a write-back leaves rows alone that it does not
have. `cloud` is the set of copies the cluster was given or answered with, any of which it
may answer with, and `other` the database of another user, whose steps are atomic. Any write of
a merged list may fail (`client.rs:175` ignores it), so that the screen shows what is not stored. An
edit's difference to what is stored is therefore any amount either way (`Wishes`), small
ones, as the ends of 64 bits are the subject of `LocalStore`.

**Replication.** State and code:

| variable | in the code |
|---|---|
| `db` | the clients' databases |
| `session` | the REQ socket: `idle`, waiting for a `put` or `get`, or `stuck` after a timeout. `reset_socket` disconnects and connects again, which does not make a REQ socket forget that it waits: every later send fails until the session is opened again. |
| `queue`, `answer` | requests on their way through the proxy to the coordinator, answers on their way back |
| `pending` | the one request `listen_proxy` is at, with its `QuoromState` |
| `net` | messages between peers; a set, since each is handled by a task of its own. Two undelivered copies of one hint are one message. |
| `row` | the list's row in each peer's `shopping_lists`, with `hinted_handoff` |
| `scan` | what each hinted-handoff task has read or sent |
| `ring`, `member` | the coordinator's hash ring, each peer's membership table |
| `locked` | peers whose membership lock is never released: a gossip handler that finds old data for a new peer sends while it holds the lock that sending takes. Which rows `get_old_data` finds depends on hashes, so it may be any. |
| `faults` | counts lost messages, early timeouts, restarts |
| `accepted` | history: which peer did its part of the current request for which replica |
| `made` | history: the copies that resulted from each client's edits |

`StartPut` and `StartRead` are the handler up to the `await` (all sends included),
`CompletePut`, `CompleteRead` and `QuorumTimeout` the rest of it; the handlers of the
peers are one action each, since each holds the storage lock once. A `send_to` fails
exactly if the peer is not in the membership table (sending to a dead ZeroMQ peer
succeeds), and `is_peer_available` amounts to membership as well: `is_available` returns the
flag `failed`, which is TRUE in every entry of the failure table. The coordinator is constant, because the
proxy knows all peers before the first of them is started, and the ring's first node
for a list is also first in every smaller ring that contains it
(`PartsOfARingAgree` in `RingProofs`). Left out is that a coordinator whose send has failed
once is stopped by its own `failure_detection` sooner or later (section 3); a stopped
coordinator takes no more steps, which the safety properties allow at any time, and in a formed
cluster, which `Converges` is about, no send fails.

Assumptions about time: a client's 100 ms pass before the coordinator's 3000 ms.
Giving up on an answer that can still come is a fault, and so is the quorum's timeout
while messages of the request are under way; giving up on what cannot come any more is
not. A request that waits in the queue counts as one whose answer can still come,
which bounds the queue.

**Membership.** `status` is how far `main` is with each peer, `member` and `ring` are the
two structures of a peer, `buf` is what a joining peer received last, `greets`, `gossips`
and `merging` are handlers between two critical sections: the Hello handler that is to
answer, a gossip whose table was cloned and whose target is not yet drawn, the Gossip
handler that has extended the ring and waits for the table. `failure` is the failure
table. A peer whose `join` times out is started all the same (`main.rs:122-136`).

The Gossip handler need not come to its end. At a new peer that is a predecessor it looks for rows
to hand over: a row that cannot be read ends it at the `?` (`EndEarly`, `server.rs:781`), and
the peers it has not come to are in the ring and not in the table, which `cut` remembers; a row that
is found is sent while the table is locked, which sending needs (`HandOver`, `server.rs:790`).
`stuck` has the mutexes of a peer that are held for ever: the membership table after that, or
after a `leave` that sends a row while a gossip handler waits for the ring; the failure table once
`failure_detection` has found an entry in it. Which new peers are predecessors and which rows are found is
left open. A task of a stuck peer goes on until it needs the mutex or, if that is the failure
table, perhaps further than in the code, but fairness asks nothing of a stuck peer.

**PeerLocks.** `Ways` gives, for each kind of task, the set of its sequences of lock
operations, one for each way through the code; a task is started as one of its ways
and performs it operation by operation. `failures` is the one piece of data kept: whether the
failure table has an entry decides what `failure_detection` does while it holds it.

**RingChanges and RingWalk.** Positions are numbers, finitely many for each node and no two
nodes' the same: they are MD5 hashes of the node's id and an index, and a collision is not
modelled. In `RingChanges` `ring` is the hash ring of one peer: gossips add nodes to it, `leave`
removes the peer itself, which later gossips put back. In `RingWalk` one
coordinator's ring and table are apart, and `walk` is the loop of
`get_next_available_node`: its start, where it is, how it ended.

**Proxy.** `conn` is the identity under which the proxy knows a client's connection, `net`
has each request with how far it is (`frontend`, `peer`, `backend`, `client`), `ready`
the READY messages under way, `Start` the ids the peers draw at each start of the
server. A restart may lose what is under way; sockets reconnect by themselves, and
peers do not send READY again.

## 3. Runs

All in `PROJECT.json`, with the mutant of the code that violates each property.

| run | instance | shows |
|---|---|---|
| `local_store` | 2 clients, 1 item name, integers of 4 bits (`Half` = 8), quantities 1, 7, 8 and 9, 2 edits each, 34 392 states | `TypeOK`, `OwnEntriesDominate`, `WritesAreUnique`, `SameEditsSameList`, `CopiesAreExplained`, `DatabasesGrow`, `EditsMeanWhatTheySay`, refinement of `CausalList` |
| `one_session` | 1 session, 2 edits of it and of another user, 920 031 states | `OwnEditsAreStored` |
| `cluster` | 2 clients with 1 edit each, 3 peers that know each other, 1 fault of any kind, with fairness, 305 288 states | `TypeOK`, `LocalFirst`, `OneAnswer`, `ReceivedIsServed`, `ListsArePasts`, `Converges`, refinement of `CausalList` |
| `startup` | the same, no fault, the coordinator starts with a ring and a table of itself alone, 4.3 million states | `LocalFirst`, `OneAnswer`, `ListsArePasts` hold through stand-ins, hinted handoffs and locked tables |
| `membership` | 3 peers, one with rows it cannot read, one gossip under way at a time; 2 peers with two, a lost one, replicated lists, rows to hand over and peers that leave; with fairness, 351 855 states | `TypeOK`, `RingIsAddressable`, `SeedKnowsAll`, `FormsCluster` |
| `peer_locks` | 2 tasks of any kinds, with fairness, 70 647 states | `TypeOK`, `CirclesAreGuardedSends`, `TasksEnd` |
| `ring_changes` | 4 nodes with 2 positions each in all 105 arrangements, all 9 places for the list, 60 480 states | `TypeOK`, `PreferenceListIsNearest`, `PreferenceListIsStable` |
| `ring_walk` | the same arrangements, 2 gossip handlers at a time, with fairness, 562 666 states | `TypeOK`, `WalkEnds` |
| `proxy` | 2 users, 1 list, a peer at each of two starts, 1 fault, 1 restart of the proxy, with fairness, 179 109 states | `TypeOK`, `AnswerIsToTheRequest`, `AnsweredOnceRouted` |
| `writes_cover` | as `cluster`, no fault | `WritesCover` violated: see below |
| `own_stand_in` | as `startup`, 1 client | `EnoughNodesWrite` violated: see below |
| `failure_detection` | 2 tasks, `failure_detection` and the requests of the proxy | `NoCircularWait` violated: see below |

**Bounds.** Two edits per client let a client overwrite its own register write and
meet concurrent ones of the other. With 4 bits the quantities 1, 7, 8 and 9 are one, the largest
and the smallest `i64` and the one after it: totals go below zero, differences wrap around (and
would panic), quantities are shown from 2^63 on, and lists become unreadable. In `Replication` one edit per
client is enough, because a copy is only compared with others by which edits it
contains: what matters is that some copies lack an edit that others have. Two request
ids suffice, since an id is used again only when no message carries it. Three peers
are a full preference list (`REPLICAS` = 3), with `WRITE_NODES` = `READ_NODES` = 2.
With two faults of any kind (3.8 million states) the safety properties and the refinement
of `cluster` hold as well, and with three clients and no fault (668 thousand)
`ListsArePasts` and the refinement; these instances differ from the run's cfg by
`MaxFaults` and `Client`. Two virtual nodes per peer are what makes `next_node`, which looks at a
node's smallest position, go around in parts of the ring. Six identities of connections
are enough for two users with a given-up connection each and messages under way. A
third peer in `Membership` is one that neither joins through nor gossips with itself or
the seed alone.

Two tasks of every pair of kinds are in the run `peer_locks`; circles of more tasks are the subject of
`PeerLocksCirclesAreGuardedSends`, which is about any number, and three tasks of five kinds (932
thousand states) satisfy the run's properties too.

`Converges` is checked for a formed cluster only. While the cluster forms, the replicas may never
get the list, do not answer reads then, and no GET completes.

Deadlock is not checked where the system may stop: `Replication` with the edits and
faults used up and a coordinator that holds all requests, `PeerLocks` when every task has
run or waits in a circle, `RingWalk` when the walk is over, `Membership` when all peers are stuck.

**Fairness.** The tokio runtime runs every task that does not wait for a mutex:
`CoordinatorStep`, `HandoffStep`, `Step` of a task or of the walk, `Handler`,
`InsertEntries`. `Membership` assumes it of peers that are not stuck, and `FormsCluster` is about runs
without any; `RingWalk` assumes that its gossip handlers end, which those do not that hand rows
over (`server.rs:790`). ZeroMQ delivers what it accepted (`Deliver`, `Forward`, `Register`);
losses are counted as faults. Gossip is periodic (`GossipStep`, `ReadTable`), to a
peer drawn at random: strong fairness for the seed drawing each peer, and each peer
drawing the seed, is all that `Membership` assumes of the draws. Users come back: they
wait for the answer or for the timeout, open a stuck session again, and refresh
(`Session`, `Client`, `Reopen`). Nobody is assumed to edit. Losses, early timeouts and restarts
are not fair and bounded.

### What the violated properties say

* `WritesCover`: the server computes the merge of the stored and the incoming list and
  then stores the incoming one (`storage.rs:630`). An acknowledged PUT erases acknowledged
  edits of others from all servers, until their authors refresh.
* `EnoughNodesWrite`: a coordinator looks for a stand-in for a replica that it has no address of, and
  `get_next_available_node` may come to the coordinator itself. It hands the list off to itself,
  acknowledges that to itself, and counts it (`server.rs:1142`): a PUT is acknowledged with the list
  on one peer, where `WRITE_NODES` is the "minimum number of nodes that must participate in a write"
  (`hash_ring.rs:7`). `ReceivedIsServed` is about replicas' parts, not about different peers.
* `NoCircularWait` in the run `failure_detection`: `failure_detection` sends pings while it holds the
  failure table, and every `send_to` ends in locking it (`server.rs:1264`). In the trace a PUT
  is sent to a replica that is in the ring and not yet in the table, which fails and is recorded;
  the next round of failure detection waits for itself, and with it all later sends.

### Where the code departs from what one may expect, and the models follow it

No run claims anything else of these; they are what the models say because the code does.

* A count from 2^63 on makes a list unreadable for everybody who gets it (`storage.rs:237`, 379):
  the quantities 9223372036854775807, 1 and 10, typed in one after the other, do. `Readable` is the
  premise of `EditsMeanWhatTheySay`.
* If the merged list cannot be written, the screen shows it all the same (`client.rs:175`). An edit that
  sends the shown quantity back then counts the others' edits again, as its own.
* Two sessions of one user overwrite each other's counts and registers (`storage.rs:133`):
  the run is for one. With a second, TLC finds the cluster ahead of the database.
* The gossip handler sends under the lock that sending takes (`server.rs:790`): `locked` in
  `Replication`, `stuck` in `Membership`, `SendsUnderGuard` in `PeerLocks`.
* `leave` and the gossip handler take the hash ring and the membership table in opposite
  orders (`server.rs:600`): `SendsUnderGuard`, `stuck`.
* The gossip handler ends at a row that it cannot read (`server.rs:781`), and leaves peers out of its
  table that are in its ring: `cut`.
* `is_available` returns `failed` (`server.rs:83`): peers whose sends have failed are available, and
  the failure table excludes nobody.
* A peer that left is put back into its own ring by the next gossip, and is in the others' rings
  and the proxy's all the time.
* The handoff task deletes a row whatever it holds by then (`server.rs:1043`): `HandoffDelete`. What was written
  between its scan and its deletion is not delivered.
* A coordinator may deliver itself a hint during a read, and the read writes the older row back.
* A replica without the list does not answer a read (`server.rs:857`): a list that only the coordinator
  has cannot be read.
* `get_predecessors` starts at the top of the ring, whoever asks. With the five peers that `main`
  starts, a peer that takes a list over need not be among them.
* The proxy never forgets a peer, and peers register once: `Routed` is the premise of
  `AnsweredOnceRouted`.
* A list opened by UUID is stored and not listed (`listed` in `LocalStore`).

## 4. Proofs

TLAPS proves what follows for all values of the constants. The assumptions are those
the modules declare (clients are a finite set of ordered ids, peers are a finite
set, quantities are 64-bit, nodes have disjoint sets of positions, bounds are numbers), and where a theorem needs more
it says so by name. Each inductive invariant was checked by TLC on the run's instance
first.

**CRDTProofs.** A merge of lists is an upper bound of both (`MapMergeUpper`), is
associative, and is commutative provided the lists agree on register writes.
`RegMerge` breaks ties by actor only, so the proviso is needed. `ValueTotalCounts`: an
increment by n raises the counter's total by n. A total is a fold over the clients, and the proof
is an induction: `Smallest` (a nonempty set of numbers has a least element) gives
`AllNumbers`, which takes a set where the library's induction theorems take an operator;
with it `SumIsDefined` shows that the fold's recursive function exists, and `SumsDiffer` that
the totals of two counters that differ in one entry differ by as much.

**LocalStoreProofs.** `TypeOK`, `OwnEntriesDominate`, `WritesAreUnique`,
`DatabasesGrow`, and the two groups below. The inductive invariant `IInv` is the
conjunction of the first three. Every new copy is the result of merging copies (*derived*
from them: each counter entry and each register of it is one of theirs), or of an edit that
changes only the author's own entries, upwards. Derived copies stay below what their sources stay below
(`DerivedDominated`) and agree where they agree (`DerivedAgree`). An edit's new
register write is unique because nobody holds a newer write of its author: uniqueness
needs dominance, which is why the two are proved together. That no step takes anything
back then follows from `MapMergeUpper` and the shape of an edit.

`EditsMeanWhatTheySay` is about the arithmetic of an edit, all of it modulo 2 `Half`: the screen shows the
total cast to a `u64`; the typed quantity is cast to an `i64`, and its difference to the stored total,
wrapped around if need be, is recorded in the author's entry of one of the two counters. The casts keep a number's
residue (`Casts`), a total is known up to its residue, and the total of the stored item, merged
with the edit, changes by the residue of the difference (`ValueTotalCounts`); so the screen shows the
quantity that was typed in, after a negative total, from 2^63 on, and after an overflow. The premise,
that the list can be read after the edit, cannot be dropped (section 3).

For `CopiesAreExplained`, `SameEditsSameList` and the refinement of `CausalList`, `HInv`
adds to `IInv` that a client's versions grow (`VersionsGrow`) and are all below its database. The second makes the version an edit produces the largest of its
client; the first lets a merge of two copies take, of each client, the version of the
copy that has seen more of its edits; and `IInv` makes the merge of two registers the larger
one. So the merge of two explained copies is explained (`MergeSound`) and the copy an
edit produces is (`EditSound`); versions of the past do not change (`VersionsStay`).
What explains a copy is its `seen` alone, up to the order of lists, which is antisymmetric:
copies with the same edits are the same list. In the refinement an edit is an edit, a
refresh learns the past of the copy it was answered with, a timeout is a stutter.

**ReplicationProofs.** For any clients, peers, hash ring, edits and faults:

* `LocalFirst`, `ListsArePasts` and the refinement of `CausalList`, from `CausalInv`.
  `StepShape` says that every step of the protocol is an edit or leaves only copies that
  were there and merges of two of them. A merge of pasts is one. A copy that
  a client is answered with leaves its own edits alone because of `LocalFirst`, and the edit
  it makes next is the one after its last because of `EditsAreMade`.
* `OneAnswer`, from `AnswerInv`: a client's request is in one place only (`OnePlace`):
  queue, coordinator, or answer. The queue alone or the coordinator alone
  would not do, as the request moves between them.
* `ReceivedIsServed`, from `ServedInv` (`Counted`): a replica's part is asked or done, not
  both, nobody is asked twice for it, and what was counted and what is on its way to be
  are no more than the parts that are done. It rests on an assumption about the ring,
  `FallbacksAssumption` (there is at most one stand-in for a replica), and on ids of
  requests not being used twice at a time.

**MembershipProofs.** For any number of peers, losses, leaves and gossips, and whatever handlers end
early or never: `TypeOK`, `RingIsAddressable` (from `RingInv`: a peer that was not started has at
most itself in its ring, so that the table `join` puts in place of its own loses no
address), `SeedKnowsAll` (from `SeedInv`: whatever names a peer, be it under way, in the join buffer
or at a handler, and whoever has heard of another peer, is known to the seed;
and the seed alone answers Hellos).

**PeerLocksProofs.** `CirclesAreGuardedSends` for any number of tasks, without a premise: every circle of
waits has a task in it that waits to send under a guard, as `leave`, a gossip handler that hands rows over and
`failure_detection` do. So these three are the only causes of deadlock, and each is one (the runs show
them; section 3). The mutexes get a rank: membership table, hash ring, storage, dealer. All ways of all
tasks are `Nested`, that is, what is taken is given back, and until then only mutexes of higher
rank are waited for, or else the wait is one of a guarded send; `LocksInv` keeps this for what each
task has before it, and a circle without a guarded send would climb the ranks for ever.
`PeerLocksSomeTaskGoesOn` follows: if every task that has something left to do waited, none of them to
send under a guard, each would wait for a task that has something left to do, namely to release,
and these would form a circle. What `TasksEnd` adds to it, that every task ends unless there is a circle,
needs fairness and stays with TLC.

**ProxyProofs.** `TypeOK` and `AnswerIsToTheRequest` under `Identities`: there is always an
identity that no finite set of connections uses. (ZeroMQ draws them anew; the run has a
finite supply.) The peers of different starts have different ids, as `Uuid::new_v4`
draws them (`StartAssumption`). `AnswerInv` adds that no two users have a connection in
common.

**SessionsProofs.** `OwnEditsAreStored` under `OneSession`: at most one session is open under a name.
With two, TLC finds it violated, as the code does it. `SessionInv` relates the database to the other user's and
to each copy of the cluster (the database is the first to know the session's own entries and
writes), and what a session has read to what is stored, statement by statement: what it is going
to write back is nowhere behind the database about its own entries, although an answer of the
cluster, however old, was merged into it, and although writes may fail.

**RingProofs.** For any nodes, positions, replicas and lists. A preference list is defined
on the way along the ring, which goes around once from the list's hash and then once more
from the start; the proofs take it apart in three steps:

* `Ranks` and `AscendingShape`: in a finite set of numbers, how many are up to an element grows
  with the element and takes every value once, so that `Ascending` lists a set in its order.
* `NewShape` and `FirstMetShape`: the places of a way where a node is met first are as many as the
  nodes, and `FirstMet` has the node of the k-th such place as its k-th.
* `WayShape` and `PreferenceOrder`: these places are in the order of `Nearer` (a node
  has a position that is met before all of the other's). `Nearer` only depends on the positions of the
  two nodes, not on the rest of the ring; the k-th node of the preference list is the one with
  `RankOf` k in this order.

So a node that is added leaves the order of the others as it is and moves those after it
by one place (`AddedRanks`, `AddedNode`), and of any part of the ring the coordinator is the
same (`CoordinatorStays`). The state machine's invariant is `RingInv`: the ring has
exactly the positions of its members, with their owners. It needs that no two nodes have
a position in common, as otherwise the one that enters would take the other's, and take it away
for good when it leaves. `EnterAdds` and `LeaveRemoves` show that it is kept and that the
larger ring is the smaller one with a node added; the theorems are `TypeOK`,
`PreferenceListIsNearest` (`Distances` gives the order its numbers) and
`PreferenceListIsStable`.

`PartsOfARingAgree` and `OneFallback` are what `Replication` and `Proxy` assume of their
constants (`PrefListAssumption`, `FallbacksAssumption`, `CoordinatorAssumption`), shown of the
operators of `HashRing` for every ring: a part of the ring that has the coordinator has it
first, preference lists have nodes of the ring and none twice, and the walk of
`NextAvailable`, whose recursive function exists by `WalkIsDefined`, is at one node at a time.

`WalkTypeCorrect` is about an instance of `RingWalk` with the same nodes: `WalkInv` is its
`TypeOK` and the same fact about the ring, which a gossip keeps although it adds the
positions of nodes that are already there. It needs finitely many nodes.

### Only model-checked

* Liveness: `Converges`, `FormsCluster`, `TasksEnd`, `WalkEnds`, `AnsweredOnceRouted`. Fairness and
  `ENABLED` are out of the prover's reach.

## 5. Not modelled, and what comes next

Not modelled: JSON and SQL as such (a failing statement ends an operation with an error
message and no change), drawing and input validation, `DeltaAWORMap`, `VClock` and
`Metadata` (commented out in `crdt.rs`), `MergeList`, `ListResponse`, `Request`, `Response`
(sent by nobody), item deletion (`todo!()`), the predecessors and the interval of `get_old_data` (any peer may be
one, and any rows may be found; they are never sent), where `leave` sends its rows (three attempts for
each, then the next), several lists in one cluster, the register's clock as a `u32`.

What is left:

1. Action properties of `Replication` beside its invariants (what a replica's row may
   lose and when), and their proofs from `CausalInv` and `ServedInv`.
2. `Replication` with the coordinator stopped by its own failure detection, for liveness while the cluster
   forms.

---------------------------- MODULE MCPeerLocks ----------------------------
(***************************************************************************)
(* Instances of PeerLocks for TLC.                                         *)
(***************************************************************************)
EXTENDS PeerLocks

AllKinds == DOMAIN Ways

\* Requests of clients, and the task that looks after failed peers.
Detecting == {"listen_proxy", "failure_detection"}
=============================================================================

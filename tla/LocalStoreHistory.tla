-------------------------- MODULE LocalStoreHistory --------------------------
(***************************************************************************)
(* LocalStore with a history of the versions each client's edits made, and *)
(* what that history explains: clients implement CausalList, and a copy is *)
(* determined by the edits it contains.                                    *)
(***************************************************************************)
EXTENDS LocalStore, Sequences

VARIABLE made       \* history: the copies that resulted from each edit

historyVars == <<vars, made>>

Record == made' = [c \in Actor |->
                      IF seen'[c][c] > seen[c][c] THEN Append(made[c], Copy(c)')
                      ELSE made[c]]

HistoryInit == Init /\ made = [c \in Actor |-> <<>>]

HistoryNext == Next /\ Record

HistorySpec == HistoryInit /\ [][HistoryNext]_historyVars

Causal == INSTANCE CausalList WITH
              Client <- Actor,
              known <- seen,
              made <- [c \in Actor |-> [k \in DOMAIN made[c] |-> made[c][k].seen]]

\* With respect to the edits they contain the databases are a causal list: an
\* edit (handle_item_storage_request) adds one, a refresh (retrieve_list, with
\* an answer however old) learns whole pasts, and a timeout changes nothing.
ImplementsCausalList == Causal!Spec

\* The version a copy has of client c's edits.
Version(x, c) == made[c][x.seen[c]].list

Authors(x) == { c \in Actor : x.seen[c] > 0 }

\* Copy x is the merge of the versions it contains, and nothing else.
Explained(x) ==
    /\ DOMAIN x.list = UNION { DOMAIN Version(x, c) : c \in Authors(x) }
    /\ \A n \in DOMAIN x.list :
          LET holders == { c \in Authors(x) : n \in DOMAIN Version(x, c) } IN
          /\ \A c \in Actor :
                IF c \in holders
                THEN /\ x.list[n].p[c] = Version(x, c)[n].p[c]
                     /\ x.list[n].n[c] = Version(x, c)[n].n[c]
                ELSE x.list[n].p[c] = 0 /\ x.list[n].n[c] = 0
          /\ \E c \in holders : x.list[n].acquired = Version(x, c)[n].acquired
          /\ \A c \in holders :
                RegLeq(Version(x, c)[n].acquired, x.list[n].acquired)

\* Every copy, a client's or one of the cluster's, has of each client's counter
\* entries exactly what that client had at the last of its edits in the copy,
\* and of the acquired flag the newest write (crdt.rs merge: each edit counts
\* once, however often and in whatever order it was merged).
CopiesAreExplained ==
    \A x \in Copies : /\ Causal!Past(x.seen)
                      /\ Explained(x)
=============================================================================

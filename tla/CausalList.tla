----------------------------- MODULE CausalList -----------------------------
(***************************************************************************)
(* What a replicated list promises its users, without servers, messages,   *)
(* merges or rows.  Each client edits alone, and what it knows of the      *)
(* others' edits grows by whole pasts: who knows an edit knows everything  *)
(* its author knew when it was made.  Nothing that is known is forgotten,  *)
(* and no edit is known that was not made.                                 *)
(***************************************************************************)
EXTENDS Integers, Sequences

CONSTANT Client

VARIABLES
    known,      \* how many edits of each client each client knows
    made        \* made[c][k]: what c knew when it had made its k-th edit

vars == <<known, made>>

\* A vector of numbers of edits is a past if it holds no edit that was not
\* made and none without what its author knew.
Past(v) == \A d \in Client :
              /\ v[d] <= Len(made[d])
              /\ v[d] > 0 => \A e \in Client : made[d][v[d]][e] <= v[e]

Counts == UNION { 0 .. Len(made[c]) : c \in Client }

Edit(c) ==
    /\ known' = [known EXCEPT ![c][c] = @ + 1]
    /\ made' = [made EXCEPT ![c] = Append(@, known'[c])]

Learn(c) ==
    /\ \E v \in [Client -> Counts] :
          /\ Past(v)
          /\ \A d \in Client : known[c][d] <= v[d]
          /\ known' = [known EXCEPT ![c] = v]
    /\ UNCHANGED made

Init == /\ known = [c \in Client |-> [d \in Client |-> 0]]
        /\ made = [c \in Client |-> <<>>]

Next == \E c \in Client : Edit(c) \/ Learn(c)

Spec == Init /\ [][Next]_vars
=============================================================================

--------------------------- MODULE InOrderDelivery ---------------------------
(***************************************************************************)
(* What a reliability layer promises to its owner: every message handed to *)
(* Send reaches the other side's owner, in the order of sending and once.  *)
(* Messages are numbered by the order in which Send was called.            *)
(***************************************************************************)
EXTENDS Naturals, Sequences

CONSTANT Peers

VARIABLES sent,   \* sent[p]: how many messages p's owner has handed over
          got     \* got[p]: the messages handed to p's owner, in order

vars == <<sent, got>>

Init == /\ sent = [p \in Peers |-> 0]
        /\ got = [p \in Peers |-> <<>>]

Send(p) == /\ sent' = [sent EXCEPT ![p] = @ + 1]
           /\ UNCHANGED got

(* A message that was waited for may release others that arrived early.    *)
Deliver(p, q) ==
    /\ \E n \in (Len(got[q]) + 1)..sent[p] :
          got' = [got EXCEPT ![q] = [i \in 1..n |-> i]]
    /\ UNCHANGED sent

Next == \E p, q \in Peers : p # q /\ (Send(p) \/ Deliver(p, q))

Spec == Init /\ [][Next]_vars
=============================================================================

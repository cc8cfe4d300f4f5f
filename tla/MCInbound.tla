----------------------------- MODULE MCInbound ------------------------------
(* Inbound on small instances. *)
EXTENDS Inbound

CONSTANTS w1, w2, p1

\* Both workers on one replica.
OneReplica == [w \in {w1, w2} |-> p1]

BudgetThenTools == <<"budget", "tools">>

\* The workers of a replica are alike, and so are attempts and deliveries.
Alike(P, Q) == P \cup Q \cup {p @@ q : p \in P, q \in Q}

InboundSymmetry ==
  Alike(Alike(Permutations(Attempts), Permutations(Deliveries)), Permutations(Workers))
=============================================================================

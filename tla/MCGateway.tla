----------------------------- MODULE MCGateway -----------------------------
(* Gateway on a small instance. *)
EXTENDS Gateway, TLC

CONSTANTS pay, look

\* Both tools are on the allowlist; one has a standing constraint.
SmallPayments == [t \in {pay} |-> {"small"}]

Small == [tool |-> pay, args |-> "small"]
Large == [tool |-> pay, args |-> "large"]
Look == [tool |-> look, args |-> "small"]

AnyMessage == {[method |-> "relayed", key |-> Look]}
              \cup {[method |-> "call", key |-> k] : k \in {Small, Large, Look}}

Waiting == Cardinality({c \in Calls : pc[c] = "idle"})

\* Two messages and a grant they may share; one message with a verb-level
\* grant behind it; or two turns and one message.
ThreeScenes ==
  /\ Init
  /\ \A g \in Grants : covers[g] = {} => left[g] = None
  /\ \/ /\ expired = {} /\ \A r \in Runs : run[r] # None
        /\ \/ Waiting = 2 /\ \A g \in Grants : covers[g] = {}
           \/ Waiting = 1 /\ \E g \in Grants : covers[g] = Verb(pay) /\ \A h \in Grants \ {g} : covers[h] = {}
     \/ /\ expired = Grants /\ Waiting = 1 /\ \A g \in Grants : covers[g] = {}
        /\ \A r \in Runs : run[r] = None

MCSpec == ThreeScenes /\ [][Next]_vars

Symmetry == Permutations(Calls) \cup Permutations(Runs) \cup Permutations(Grants) \cup Permutations(People)
=============================================================================

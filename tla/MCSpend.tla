------------------------------ MODULE MCSpend ------------------------------
(* Spend on a small instance. *)
EXTENDS Spend, TLC

CONSTANTS c1, c2, c3, g1

CapPair(cents, tokens) == [k \in Kinds |-> IF k = "cents" THEN cents ELSE tokens]

\* A budget an operator changes and in the end lifts, while two calls race and
\* a third is in flight; or a budget that stays, and grants over it.
ChangingBudgets == {CapPair(1, 2), CapPair(None, 1), CapPair(None, None)}
FixedBudget == CapPair(1, 1)
SomeBudgets == ChangingBudgets \cup {FixedBudget}

VARIABLE family
Holding ==
  /\ grant' = grant /\ cap' \in ChangingBudgets
  /\ cap = CapPair(None, None) => cap' = cap
  /\ pc'[c1] # "idle" => pc[c3] \notin {"idle", "waiting"}
Granting ==
  /\ cap' = FixedBudget /\ now' < MaxTime /\ month' = 0
  /\ \A g \in GrantIds : grant'[g] # None =>
       grant'[g].expires # MaxTime /\ (g # g1 => grant'[g1] # None)

\* The priced calls are alike, and so are the grants.
InOrder == pc'[c2] # "idle" => pc'[c1] # "idle"

MCInit == Init /\ \/ family = "holding" /\ cap = CapPair(1, 2)
                  \/ family = "granting" /\ cap = FixedBudget
MCNext ==
  /\ Next /\ UNCHANGED family
  /\ IF family = "holding" THEN Holding ELSE Granting
  /\ InOrder
MCSpec == MCInit /\ [][MCNext]_<<vars, family>> /\ \A c \in Calls : WF_vars(AdmitStep(c))
=============================================================================

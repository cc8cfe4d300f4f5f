---------------------------- MODULE MCApprovals ----------------------------
(* Approvals on a small instance. *)
EXTENDS Approvals, TLC

Tool(digest) == [kind |-> "tool", subject |-> "pay", digest |-> digest]
Verb == Tool("none")
Hook == [kind |-> "inbound", subject |-> "hook", digest |-> "none"]
Budget == [kind |-> "budget", subject |-> "cents", digest |-> "none"]

\* Two calls of one tool, the request that names no call, and a hook; or one
\* call and a budget.
UseKeys == {Verb, Tool("a"), Tool("b"), Hook}
MixedKeys == {Verb, Tool("a"), Budget}
MCKeys == UseKeys \cup MixedKeys

\* Two people decide three requests while the agent refiles; or two tool
\* calls or events race for the uses of an old verb-level grant and of a new
\* one, which one person approves meanwhile.
VARIABLE family
Admin == CHOOSE d \in Deciders : TRUE
Last == CHOOSE r \in ReqIds \ {OldReq} : TRUE

\* Rows that are alike come in one order.
Deciding ==
  /\ UNCHANGED <<now, upc>>
  /\ \A g \in GrantIds : grant'[g] # None => grant'[OldGrant] # None
  /\ req'[Last] # None => \A r \in ReqIds : req'[r] # None
  /\ \A r \in ReqIds : req'[r] # None => req'[r].key \in MixedKeys
  /\ \A d \in Deciders : verdict'[d] # None =>
       (verdict'[d].terms # None => verdict'[d].terms.maxUses = 1 /\ verdict'[d].terms.expires = None)
Using ==
  /\ req'[Last] = None
  /\ \A r \in ReqIds : req'[r] # None => req'[r].key \in UseKeys
  /\ \A d \in Deciders \ {Admin} : dpc'[d] = "idle"
  /\ \A d \in Deciders : verdict'[d] # None =>
       (verdict'[d].terms # None => ~verdict'[d].terms.amount)
  /\ \A u \in Uses : use'[u] # None => use'[u].key \in UseKeys

MCInit ==
  /\ Init
  /\ \/ family = "deciding" /\ grant[OldGrant] = None
     \/ family = "using" /\ req[OldReq].by = Admin
MCNext ==
  /\ Next /\ UNCHANGED family
  /\ IF family = "deciding" THEN Deciding ELSE Using
MCSpec == MCInit /\ [][MCNext]_<<vars, family>>

UseSymmetry == Permutations(Uses)
=============================================================================

------------------------------ MODULE Delivery ------------------------------
(***************************************************************************)
(* What the inbound door promises.  An event is admitted by taking one use *)
(* of what a human granted; an admitted event reaches its agent at most    *)
(* once and is reported at most once; nothing else takes a use.            *)
(***************************************************************************)
EXTENDS Naturals

CONSTANTS Events

VARIABLES
  stage,   \* how far each event has come
  left     \* uses of the grant nobody has taken

Stages == {"new", "admitted", "invoked", "reported"}

Init == stage = [e \in Events |-> "new"] /\ left \in Nat

Advance(e, to) == stage' = [stage EXCEPT ![e] = to]

Grant == left' \in Nat /\ left' > left /\ UNCHANGED stage

Admit(e) == stage[e] = "new" /\ left > 0 /\ left' = left - 1 /\ Advance(e, "admitted")

Invoke(e) == stage[e] = "admitted" /\ Advance(e, "invoked") /\ UNCHANGED left

\* An event may be reported failed without having reached the agent.
Report(e) == stage[e] \in {"admitted", "invoked"} /\ Advance(e, "reported") /\ UNCHANGED left

Next == Grant \/ \E e \in Events : Admit(e) \/ Invoke(e) \/ Report(e)

Spec == Init /\ [][Next]_<<stage, left>>
=============================================================================

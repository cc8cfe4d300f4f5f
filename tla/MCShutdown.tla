----------------------------- MODULE MCShutdown -----------------------------
(***************************************************************************)
(* A small instance of Shutdown, and of the Notifier it composes, for TLC. *)
(***************************************************************************)
EXTENDS Shutdown

\* Everything an attempt can come to but a connection refused, which the
\* listener decides.
AnyAnswer == Happenings \ {"undialled"}

\* One answer of each classification, and all three errors of the client.
AnyClass == {"unsent", "lost", "result", "rpcError"}

\* The notifier by itself with three posts: answered by anything but drained
\* by nobody; or drained, and answered by one of each class.  Or two posts and
\* the replica that goes down around it.
VARIABLE family

\* The posts are numbered as they are filed.
InOrder == \A p, q \in Posts : p < q /\ fate'[q] # "new" => fate'[p] # "new"
AnswersInClass == worker = "calling" /\ worker' # "calling" => \E h \in AnyClass : Answered(h)

\* What main does is what the notifier sees of it: its listener closed, its
\* poster stopped.
Alone ==
  /\ Next
  /\ server' = [server EXCEPT !["mcp"] = IF listening' THEN "up" ELSE "closing"]
  /\ phase' = IF stopped' THEN "join" ELSE "serving"
  /\ UNCHANGED <<bridge, busy>>
Answering == Alone /\ UNCHANGED draining
Drained == Alone /\ AnswersInClass
Composed == SNext /\ AnswersInClass /\ fate'[3] = "new"

MCInit == SInit /\ family \in {"answering", "drained", "composed"}
MCNext ==
  /\ UNCHANGED family
  /\ \/ family = "answering" /\ Answering
     \/ family = "drained" /\ Drained
     \/ family = "composed" /\ Composed
  /\ InOrder
MCSpec ==
  /\ MCInit /\ [][MCNext]_<<svars, family>>
  /\ WF_svars(MainStep) /\ WF_svars(BudgetEnds)
  /\ WF_svars(WorkerStep /\ UNCHANGED life)
=============================================================================

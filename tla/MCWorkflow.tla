---------------------------- MODULE MCWorkflow ----------------------------
(* Workflow on a small instance. *)
EXTENDS Workflow

\* Two calls whose text is the same, and one inside a standing bound.
Number == [tool |-> "queue", text |-> "4", form |-> "number"]
String == [tool |-> "queue", text |-> "4", form |-> "string"]
Tag == [tool |-> "tag", text |-> "v1", form |-> "string"]

CallKeys == {Number, String, Tag}
TagBounds == {Tag}

Turn1 == [kind |-> "turn", key |-> None, exec |-> FALSE, captures |-> TRUE, reads |-> FALSE]
Poll1 == [Turn1 EXCEPT !.kind = "poll", !.captures = FALSE, !.reads = TRUE]
Bounded1 == [kind |-> "bounded", key |-> Tag, exec |-> FALSE, captures |-> FALSE, reads |-> FALSE]
Queue == [kind |-> "consequential", key |-> Number, exec |-> FALSE, captures |-> FALSE, reads |-> FALSE]
Act == [Queue EXCEPT !.exec = TRUE]

\* Draft, watch, tag, queue, release.
FiveSteps == <<Turn1, Poll1, Bounded1, Queue, Act>>

\* A whole run, or one governed step alone.
AnyOptions ==
  {[dry |-> d, only |-> 0, approver |-> None] : d \in BOOLEAN}
  \cup {[dry |-> FALSE, only |-> 3, approver |-> None], [dry |-> FALSE, only |-> 4, approver |-> None],
        [dry |-> FALSE, only |-> 5, approver |-> "ann"]}

\* Once the last run is over, or a run has done something, nothing more; one
\* step is run again.
Resumed ==
  pc # "ended" \/ (runs < MaxRuns /\ acted = {} /\ reported = {} /\ opt.only # 0 /\ opt'.only # 0)

MCInit == Init /\ (opt.only = 0 => order = <<>> /\ table = "declared")

\* A whole run is alone with its agent and the people who decide; a single
\* step has everyone else too, and a row less.
Quiet ==
  /\ opt.only = 0 => UNCHANGED <<table, lapsed>> /\ (rows' # rows => Turning)
  /\ opt.only # 0 => rows' < MaxRows
  /\ opt.dry => UNCHANGED order

MCNext == Next /\ Resumed /\ Quiet

MCSpec == MCInit /\ [][MCNext]_vars /\ WF_vars(Prompt)
=============================================================================

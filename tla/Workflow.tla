------------------------------ MODULE Workflow ------------------------------
(***************************************************************************)
(* The workflow driver, kmx workflow run (kmx/app/workflow_run.go), on the *)
(* machine of an operator, against one credential of the plane.            *)
(*                                                                         *)
(* The driver has no authority of its own: it asks the agent for turns,    *)
(* files a request for each consequential call, waits for a human, and     *)
(* reads the plane's record to say what happened.  Everything it reads is  *)
(* moving: other callers use the credential, other people decide requests, *)
(* grants lapse, the upstream table is rolled, and the driver itself is    *)
(* interrupted and run again.  The plane is what modules Gateway and       *)
(* Approvals promise, reduced to what its admin views show.                *)
(***************************************************************************)
EXTENDS Naturals, Sequences, FiniteSets

CONSTANTS
  Steps,        \* the rendered steps, a sequence of StepRecord
  Keys,         \* calls: [tool, text, form], form what text does not show
  Bounds,       \* calls inside a standing constraint
  Allowlist,    \* tools callable without one
  ReqIds, People, Options,
  GrantUses,    \* what an approver may give
  Page,         \* how many grants the grants view shows (limit=200)
  MaxPolls,     \* polls of the pending list, and turns of a poll step
  MaxRows, MaxRuns, \* bounds on audit rows and on how often the driver is run
  None

Kinds == {"turn", "poll", "bounded", "consequential"}
StepRecord == [kind : Kinds, key : Keys \cup {None}, exec : BOOLEAN, captures : BOOLEAN,
               reads : BOOLEAN]

Tools == {k.tool : k \in Keys}

\* What an approval binds and its summary shows: every declared field, as
\* the blueprint requires, or only the tool when the table's list was narrowed.
Tables == {"declared", "narrowed"}
BindingOf(k, table) == IF table = "declared" THEN k ELSE [tool |-> k.tool, text |-> "", form |-> ""]
Bindings == {BindingOf(k, t) : k \in Keys, t \in Tables}
SummaryOf(b) == [tool |-> b.tool, text |-> b.text]

ASSUME WorkflowAssumption ==
  /\ Steps \in Seq(StepRecord) /\ Steps # <<>>
  /\ \A i \in DOMAIN Steps : Steps[i].kind \in {"bounded", "consequential"} => Steps[i].key # None
  /\ \A i \in DOMAIN Steps : Steps[i].exec => Steps[i].kind = "consequential"
  /\ Bounds \subseteq Keys /\ Allowlist \subseteq Tools
  /\ Options \subseteq [dry : BOOLEAN, only : {0} \cup DOMAIN Steps, approver : People \cup {None}]
  /\ None \notin Keys /\ None \notin People /\ None \notin ReqIds
  /\ ReqIds # {} /\ ReqIds \cap {"", "constraint", "allowlist"} = {}
  /\ GrantUses \subseteq Nat \cup {None}
  /\ Page \in Nat /\ MaxPolls \in Nat /\ MaxRows \in Nat /\ MaxRuns \in Nat

VARIABLES
  opt,      \* the options of this run
  pc, at,   \* where the driver is, in which step
  view,     \* the table its summaries are rendered from
  waited,   \* polls so far
  captured, \* is the text of the capturing step at hand?
  req,      \* the request it waits for
  before,   \* the newest audit row of the tool, before the call
  old,      \* requests that had their approval when this step looked (history)
  runs,     \* how often it was started
  request,  \* [binding, status, by] of each request
  left,     \* uses left on the grant a request produced, None if unbounded
  lapsed,   \* requests whose grant has expired
  order,    \* approved requests, oldest grant first
  newest,   \* the newest audit row of each tool
  rows,     \* rows so far
  table,    \* the policy fields the plane declares
  acted,    \* local actions performed (history)
  reported  \* calls reported as done (history)

driver == <<opt, view, captured, req, before, old, runs>>
plane == <<request, left, lapsed, order, newest, rows, table>>
history == <<acted, reported>>
vars == <<pc, at, waited, driver, plane, history>>

-----------------------------------------------------------------------------
(* The plane: what a call of the credential and a human's decision do. *)

NoRow == [n |-> 0, decision |-> "", why |-> "", key |-> None, mine |-> FALSE]

Pending(b) == {r \in ReqIds : request[r].status = "pending" /\ request[r].binding = b}

LiveGrant(r) == request[r].status = "approved" /\ left[r] # 0 /\ r \notin lapsed

Usable(k) == {r \in ReqIds : LiveGrant(r) /\ request[r].binding = BindingOf(k, table)}

\* A request is filed once for what it binds.
Unused == {r \in ReqIds : request[r].status = "none"}
Filed(b) ==
  IF Pending(b) # {} \/ Unused = {} THEN request
  ELSE [request EXCEPT ![CHOOSE r \in Unused : TRUE] = [binding |-> b, status |-> "pending", by |-> None]]

Recorded(k, decision, why, mine) ==
  /\ rows' = rows + 1
  /\ newest' = [newest EXCEPT ![k.tool] =
                  [n |-> rows + 1, decision |-> decision, why |-> why, key |-> k, mine |-> mine]]

\* What lets a call in without a grant.
Standing(k) ==
  IF k \in Bounds THEN "constraint"
  ELSE IF k.tool \in Allowlist /\ \A b \in Bounds : b.tool # k.tool THEN "allowlist" ELSE ""

\* The gateway's answer to one call.
Call(k, mine) ==
  /\ rows < MaxRows
  /\ \/ /\ Standing(k) # ""
        /\ Recorded(k, "allowed", Standing(k), mine)
        /\ UNCHANGED <<request, left>>
     \/ /\ Standing(k) = ""
        /\ \E r \in Usable(k) :
             /\ left' = [left EXCEPT ![r] = IF @ = None THEN None ELSE @ - 1]
             /\ Recorded(k, "allowed", r, mine)
        /\ UNCHANGED request
     \/ /\ Standing(k) = "" /\ Usable(k) = {}
        /\ Recorded(k, "denied", "", mine)
        /\ request' \in {request, Filed(BindingOf(k, table))}
        /\ UNCHANGED left
  /\ UNCHANGED <<lapsed, order, table>>

rest == <<pc, at, waited, driver, history>>

OtherCall(k) == Call(k, FALSE) /\ UNCHANGED rest

\* Whoever may decide, on Slack or the admin listener.
Approve(r, who) ==
  /\ request[r].status = "pending"
  /\ request' = [request EXCEPT ![r].status = "approved", ![r].by = who]
  /\ left' \in {[left EXCEPT ![r] = n] : n \in GrantUses}
  /\ order' = Append(order, r)
  /\ UNCHANGED <<lapsed, newest, rows, table, rest>>

DenyRequest(r) ==
  /\ request[r].status = "pending"
  /\ request' = [request EXCEPT ![r].status = "denied"]
  /\ UNCHANGED <<left, lapsed, order, newest, rows, table, rest>>

Lapse(r) ==
  /\ LiveGrant(r)
  /\ lapsed' = lapsed \cup {r}
  /\ UNCHANGED <<request, left, order, newest, rows, table, rest>>

\* An operator rolls the proxy on another table.
RollTable ==
  /\ table' \in Tables
  /\ UNCHANGED <<request, left, lapsed, order, newest, rows, rest>>

-----------------------------------------------------------------------------
(* The driver's frame. *)

step == Steps[at]

\* The step the driver goes to, and nothing else of it changes.
Goes(p) ==
  /\ pc' = p
  /\ UNCHANGED <<at, waited, driver, plane, history>>

\* The process is gone, with all it held.
Exits ==
  /\ pc' = "ended" /\ at' = 1 /\ waited' = 0
  /\ view' = "declared" /\ captured' = FALSE /\ req' = None /\ before' = 0 /\ old' = {}
  /\ UNCHANGED <<opt, runs>>

\* The run stops, with an error or on a dry run.
Stops == Exits /\ UNCHANGED <<plane, history>>

\* The step is over: the next one, or the end of the run.
Advances(text) ==
  IF at = Len(Steps) \/ opt.only # 0 THEN Exits
  ELSE /\ pc' = "step" /\ at' = at + 1 /\ captured' = text
       /\ UNCHANGED <<waited, opt, view, req, before, old, runs>>

\* Fault: the declared fields are read, not compared.
BeginUnchecked ==
  /\ pc = "begin"
  /\ view' = table
  /\ at' = IF opt.only = 0 THEN 1 ELSE opt.only
  /\ pc' = "step"
  /\ UNCHANGED <<waited, opt, captured, req, before, old, runs, plane, history>>

\* RunWorkflow renders its summaries from the running table, which has to
\* declare what the blueprint requires.
Begin ==
  /\ pc = "begin"
  /\ table = "declared"
  /\ view' = table
  /\ at' = IF opt.only = 0 THEN 1 ELSE opt.only
  /\ pc' = "step"
  /\ UNCHANGED <<waited, opt, captured, req, before, old, runs, plane, history>>

\* Parameters, the plane, its overlay, the table or every step refuses.
Refuse == pc = "begin" /\ Stops

\* do: credentials are refreshed first; a dry run stops before the first
\* step with consequences.
StartStep ==
  /\ pc = "step"
  /\ CASE step.kind = "turn" -> Goes("ask")
       [] step.kind = "poll" -> /\ pc' = "ask" /\ waited' = 0
                                /\ UNCHANGED <<at, driver, plane, history>>
       [] opt.dry /\ step.kind \notin {"turn", "poll"} -> Stops
       [] ~opt.dry /\ step.kind = "bounded" -> Goes("mark")
       [] OTHER -> Goes("look")

\* A token that was minted cannot be stored in the plane's custody.
RefreshFails == pc \in {"step"} \cup (IF step.kind = "poll" THEN {"ask"} ELSE {}) /\ Stops

-----------------------------------------------------------------------------
(* Agent turns. *)

Turning == pc \in {"turn", "log"}

\* turn: the prompt may read what an earlier step of this run captured.
Ask ==
  /\ pc = "ask"
  /\ ~step.reads \/ captured
  /\ pc' = "turn"
  /\ UNCHANGED <<at, waited, driver, plane, history>>

\* A turn that ends without a reply, or cannot be asked for.
TurnFailed == pc = "turn" \/ (pc = "ask" /\ step.reads /\ ~captured)

AgentCalls(k) ==
  /\ Turning
  /\ Call(k, TRUE)
  /\ UNCHANGED <<pc, at, waited, driver, history>>

\* A read or a draft: a turn without a reply is an error.
Replies ==
  /\ pc = "turn" /\ step.kind = "turn"
  /\ Advances(captured \/ step.captures)
  /\ UNCHANGED <<plane, history>>

TurnLost ==
  /\ TurnFailed
  /\ step.kind = "turn"
  /\ Stops

\* A governed call: only the record says what the turn did.
TurnOver ==
  /\ TurnFailed
  /\ step.kind \in {"bounded", "consequential"}
  /\ Goes("verify")

\* pollStep: every build finished, or one failed and its log is read, or
\* neither and the driver sleeps until its deadline.
PollDone ==
  /\ pc = "turn" /\ step.kind = "poll"
  /\ Advances(captured)
  /\ UNCHANGED <<plane, history>>

PollFailed ==
  /\ pc = "turn" /\ step.kind = "poll"
  /\ pc' = "log"
  /\ UNCHANGED <<at, waited, driver, plane, history>>

LogRead == pc = "log" /\ Stops

\* Fault: the deadline is computed again at each poll.
PollAgainForever ==
  /\ TurnFailed
  /\ step.kind = "poll"
  /\ pc' = "ask"
  /\ UNCHANGED <<at, waited, driver, plane, history>>

PollAgain ==
  /\ TurnFailed
  /\ step.kind = "poll"
  /\ IF waited < MaxPolls
     THEN /\ waited' = waited + 1 /\ pc' = "ask"
          /\ UNCHANGED <<at, driver, plane, history>>
     ELSE Stops

-----------------------------------------------------------------------------
(* consequentialStep *)

\* The grants view: the newest Page of them.
Shown == {order[i] : i \in {j \in DOMAIN order : j + Page > Len(order)}}

\* liveGrant: an earlier approval of the tool would be spent by this run.
Look ==
  /\ pc = "look"
  /\ \A r \in Shown : request[r].binding.tool = step.key.tool => ~LiveGrant(r)
  /\ old' = {r \in ReqIds : request[r].status = "approved"}
  /\ pc' = IF step.exec THEN "preview" ELSE "file"
  /\ UNCHANGED <<at, waited, opt, view, captured, req, before, runs, plane, history>>

StopsLooking ==
  /\ pc = "look"
  /\ \E r \in Shown : request[r].binding.tool = step.key.tool /\ LiveGrant(r)
  /\ Stops

Preview == pc = "preview" /\ Goes("file")

\* The request is filed, for what the table binds now, or already was.
FileRequest ==
  /\ pc = "file"
  /\ Pending(BindingOf(step.key, table)) # {} \/ Unused # {}
  /\ request' = Filed(BindingOf(step.key, table))
  /\ pc' = "find"
  /\ UNCHANGED <<at, waited, driver, left, lapsed, order, newest, rows, table, history>>

\* pendingRequest, selectRequest: by the whole summary.
Find ==
  /\ pc = "find"
  /\ \E r \in ReqIds :
       /\ request[r].status = "pending"
       /\ SummaryOf(request[r].binding) = SummaryOf(BindingOf(step.key, view))
       /\ req' = r
  /\ pc' = "await" /\ waited' = 0
  /\ UNCHANGED <<at, opt, view, captured, before, old, runs, plane, history>>

\* awaitApproval: the request has left the pending list, or not yet.
StillPending ==
  /\ pc = "await" /\ request[req].status = "pending" /\ waited < MaxPolls
  /\ waited' = waited + 1
  /\ UNCHANGED <<pc, at, driver, plane, history>>

NobodyDecided ==
  /\ pc = "await" /\ request[req].status = "pending" /\ waited = MaxPolls
  /\ Stops

Decided == pc = "await" /\ request[req].status # "pending" /\ Goes("confirm")

\* confirmDecision, selectGrant: the grant of this very request, live, by
\* the person this run requires.
Confirm ==
  /\ pc = "confirm"
  /\ req \in Shown /\ LiveGrant(req)
  /\ opt.approver \in {None, request[req].by}
  /\ Goes("mark")

NotConfirmed ==
  /\ pc = "confirm"
  /\ \/ req \notin Shown \/ ~LiveGrant(req)
     \/ opt.approver \notin {None, request[req].by}
  /\ Stops

\* newestFor, before the call.
Mark ==
  /\ pc = "mark"
  /\ before' = newest[step.key.tool].n
  /\ pc' = IF step.exec THEN "exec" ELSE "ask"
  /\ UNCHANGED <<at, waited, opt, view, captured, req, old, runs, plane, history>>

\* The action itself, on this machine; it may fail half way.
Exec ==
  /\ pc = "exec"
  /\ acted' = acted \cup {[key |-> step.key, req |-> req, approver |-> opt.approver]}
  /\ Exits \/ Advances(captured)
  /\ UNCHANGED <<plane, reported>>

-----------------------------------------------------------------------------
(* newestAudit, and what the driver says of the call. *)

Reports(row) ==
  /\ reported' = reported \cup
       {[kind |-> step.kind, key |-> step.key, row |-> row, req |-> req, before |-> before, old |-> old]}
  /\ Advances(captured)
  /\ UNCHANGED <<plane, acted>>

\* Fault: a row that was there before the call will do.
VerifyAnyRow ==
  LET row == newest[step.key.tool] IN
  /\ pc = "verify"
  /\ row.decision = "allowed"
  /\ IF step.kind = "bounded" THEN row.why = "constraint" ELSE row.why \in ReqIds
  /\ Reports(row)

Verify ==
  LET row == newest[step.key.tool] IN
  /\ pc = "verify"
  /\ row.n # before /\ row.decision = "allowed"
  /\ IF step.kind = "bounded" THEN row.why = "constraint" ELSE row.why \in ReqIds
  /\ Reports(row)

NotVerified ==
  LET row == newest[step.key.tool] IN
  /\ pc = "verify"
  /\ \/ row.n = before \/ row.decision # "allowed"
     \/ step.kind = "bounded" /\ row.why # "constraint"
     \/ step.kind = "consequential" /\ row.why \notin ReqIds
  /\ Stops

\* A view that cannot be read, an action that fails: the run stops there.
StepFails == pc \in {"look", "preview", "file", "find", "await", "confirm", "mark", "verify"} /\ Stops

\* The operator interrupts the driver, between any two steps.
Interrupt == pc \notin {"begin", "ended"} /\ Stops

\* Run again: nothing of the earlier run is left but the plane's record.
Restart ==
  /\ pc = "ended" /\ runs < MaxRuns
  /\ opt' \in Options
  /\ pc' = "begin" /\ runs' = runs + 1
  /\ UNCHANGED <<at, waited, view, captured, req, before, old, plane, history>>

-----------------------------------------------------------------------------
NoRequest == [binding |-> None, status |-> "none", by |-> None]

\* A grant from before, or none.
Init ==
  /\ opt \in Options
  /\ pc = "begin" /\ at = 1 /\ view = "declared" /\ waited = 0
  /\ captured = FALSE /\ req = None /\ before = 0 /\ old = {} /\ runs = 1
  /\ \/ request = [r \in ReqIds |-> NoRequest] /\ order = <<>>
     \/ LET r == CHOOSE r \in ReqIds : TRUE IN
        /\ \E k \in Keys, who \in People : request = [q \in ReqIds |->
             IF q = r THEN [binding |-> k, status |-> "approved", by |-> who] ELSE NoRequest]
        /\ order = <<r>>
  /\ left = [r \in ReqIds |-> None] /\ lapsed = {}
  /\ newest = [t \in Tools |-> NoRow] /\ rows = 0
  /\ table \in Tables
  /\ acted = {} /\ reported = {}

Turn == Ask \/ Replies \/ TurnLost \/ TurnOver \/ PollDone \/ PollFailed \/ LogRead \/ PollAgain

Govern == Look \/ StopsLooking \/ Preview \/ FileRequest \/ Find \/ StillPending \/ NobodyDecided
          \/ Decided \/ Confirm \/ NotConfirmed \/ Mark \/ Exec \/ Verify \/ NotVerified

Drive == Begin \/ Refuse \/ StartStep \/ RefreshFails \/ Turn \/ Govern \/ StepFails

Others ==
  \/ \E k \in Keys : AgentCalls(k) \/ OtherCall(k)
  \/ \E r \in ReqIds : DenyRequest(r) \/ Lapse(r) \/ \E who \in People : Approve(r, who)
  \/ RollTable

Next == Drive \/ Others \/ Interrupt \/ Restart

Spec == Init /\ [][Next]_vars

\* Where the driver waits for a program it started, kubectl, kagent, the
\* command that mints a token or a step's own action, which has no deadline.
Commands == {"begin", "step", "ask", "turn", "log", "preview", "exec"}

\* The driver is one goroutine, and the plane's answers have a time limit.
Prompt == pc \notin Commands /\ Drive

FairSpec == Spec /\ WF_vars(Prompt)

-----------------------------------------------------------------------------
(* Properties. *)

Row == [n : Nat, decision : {"", "allowed", "denied"},
        why : ReqIds \cup {"", "constraint", "allowlist"}, key : Keys \cup {None}, mine : BOOLEAN]

Report == [kind : {"bounded", "consequential"}, key : Keys, row : Row, req : ReqIds \cup {None},
           before : Nat, old : SUBSET ReqIds]

\* Type invariant.
TypeOK ==
  /\ opt \in Options
  /\ pc \in {"begin", "step", "ask", "turn", "log", "look", "preview", "file", "find", "await",
             "confirm", "mark", "exec", "verify", "ended"}
  /\ at \in DOMAIN Steps /\ view \in Tables /\ table \in Tables
  /\ waited \in 0..MaxPolls /\ rows \in 0..MaxRows
  /\ captured \in BOOLEAN
  /\ req \in ReqIds \cup {None} /\ before \in Nat /\ old \subseteq ReqIds /\ runs \in Nat
  /\ request \in [ReqIds -> [binding : Bindings \cup {None}, by : People \cup {None},
                             status : {"none", "pending", "approved", "denied"}]]
  /\ left \in [ReqIds -> Nat \cup {None}]
  /\ lapsed \subseteq ReqIds /\ order \in Seq(ReqIds)
  /\ newest \in [Tools -> Row]
  /\ acted \subseteq [key : Keys, req : ReqIds, approver : People \cup {None}]
  /\ reported \subseteq Report

\* What runs on the operator's machine outside the gateway was approved: the
\* request the run waited for shows every declared field of this very call,
\* and the person the run requires approved it.  Not a colleague's request,
\* not a narrower one after the table was rolled, not a denial.
ActedUnderItsApproval ==
  \A a \in acted :
    /\ SummaryOf(request[a.req].binding) = SummaryOf(a.key)
    /\ request[a.req].status = "approved"
    /\ a.approver \in {None, request[a.req].by}

\* A call is reported done only on a row the plane wrote after the driver
\* took its mark, saying allowed, and admitted the way the step declares: by
\* a bound, or by an approval, and never one that was live before the step
\* looked, which an interrupted run may have left behind.
ReportedWasRecorded ==
  \A x \in reported :
    /\ x.row.n > x.before /\ x.row.decision = "allowed" /\ x.row.key.tool = x.key.tool
    /\ IF x.kind = "bounded" THEN x.row.key \in Bounds
       ELSE /\ x.row.why \in ReqIds /\ request[x.row.why].status = "approved"
            /\ x.row.why \notin x.old

\* Every run ends, whoever answers or does not, unless one of the programs it
\* started never returns: it waits for no one for ever, neither for a human
\* nor for builds, and no poll is repeated past its deadline.
RunEnds ==
  \/ []<>(pc = "ended")
  \/ <>[](pc \in Commands) /\ <>[][FALSE]_<<pc, at, waited>>
=============================================================================

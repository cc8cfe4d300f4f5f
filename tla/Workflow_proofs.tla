--------------------------- MODULE Workflow_proofs ---------------------------
(***************************************************************************)
(* What the workflow driver acts under and what it reports, for any        *)
(* workflow, and any number of runs, requests, approvers and other callers *)
(* of the credential.                                                      *)
(***************************************************************************)
EXTENDS Workflow, TLAPS

\* A step of the driver makes a governed call.
Governs == step.kind \in {"bounded", "consequential"}
Seeking == {"look", "preview", "file", "find", "await", "confirm"}
Asking == {"ask", "turn", "verify"}

\* Where the driver is, in a step of which kind.  What it shows is rendered
\* from the declared table.
OnTrack ==
  /\ pc \in Seeking \cup {"exec"} => step.kind = "consequential"
  /\ pc \in {"mark", "verify"} => Governs
  /\ pc = "log" => ~Governs
  /\ view = "declared"

\* The request the driver waits for, and then acts under, is for its call.
ForThisCall ==
  pc \in {"await", "confirm"} \/ (pc \in {"mark", "exec"} /\ step.kind = "consequential") =>
    /\ req \in ReqIds /\ request[req].status # "none"
    /\ SummaryOf(request[req].binding) = SummaryOf(step.key)

ByThisPerson ==
  pc \in {"mark", "exec"} /\ step.kind = "consequential" =>
    request[req].status = "approved" /\ opt.approver \in {None, request[req].by}

\* What was acted on stays approved.
ActedInv ==
  \A a \in acted :
    /\ a.req \in ReqIds /\ request[a.req].status = "approved"
    /\ SummaryOf(request[a.req].binding) = SummaryOf(a.key)
    /\ a.approver \in {None, request[a.req].by}

ApprovalInv == OnTrack /\ ForThisCall /\ ByThisPerson /\ ActedInv

-----------------------------------------------------------------------------
\* A step of the plane that others take: the driver does not move.
Elsewhere == UNCHANGED <<pc, at, waited, driver, history>>

\* The driver is between steps, or over.
Between == pc \in {"begin", "step", "ended"}

LEMMA Exiting ==
  ASSUME Exits
  PROVE  /\ pc' = "ended" /\ at' = 1 /\ waited' = 0 /\ view' = "declared" /\ captured' = FALSE
         /\ req' = None /\ before' = 0 /\ old' = {} /\ opt' = opt /\ runs' = runs
BY DEF Exits

LEMMA Advancing ==
  ASSUME NEW text, Advances(text), OnTrack
  PROVE  /\ Between' /\ view' = "declared" /\ opt' = opt /\ runs' = runs
         /\ old' \in {old, {}} /\ req' \in {req, None} /\ before' \in {before, 0}
         /\ at' = 1 \/ (at' = at + 1 /\ at # Len(Steps))
         /\ captured' \in {text, FALSE} /\ waited' \in {waited, 0}
BY DEF Advances, Exits, Between, OnTrack

\* The step at hand is one of the rendered ones; a governed one has a call.
LEMMA StepHere ==
  ASSUME at \in DOMAIN Steps
  PROVE  /\ step \in StepRecord
         /\ Governs => step.key \in Keys /\ step.key.tool \in Tools
         /\ step.exec => step.kind = "consequential"
         /\ step.kind \in Kinds
<1>0. Steps \in Seq(StepRecord)
  BY WorkflowAssumption
<1>1. step \in StepRecord
  BY <1>0 DEF step
<1>2. Governs => step.key # None
  BY WorkflowAssumption DEF step, Governs
<1>3. step.exec => step.kind = "consequential"
  BY WorkflowAssumption DEF step
<1> QED
  BY <1>1, <1>2, <1>3 DEF StepRecord, Governs, Tools

LEMMA FirstStep == 1 \in DOMAIN Steps /\ Len(Steps) \in Nat /\ DOMAIN Steps = 1..Len(Steps)
<1>1. Steps \in Seq(StepRecord) /\ Steps # <<>>
  BY WorkflowAssumption
<1>2. Len(Steps) \in Nat /\ DOMAIN Steps = 1..Len(Steps) /\ Len(Steps) # 0
  BY <1>1
<1> QED
  BY <1>2

-----------------------------------------------------------------------------
(* Types. *)

RequestRow == [binding : Bindings \cup {None}, by : People \cup {None},
               status : {"none", "pending", "approved", "denied"}]

DriverTypes ==
  /\ opt \in Options
  /\ pc \in {"begin", "step", "ask", "turn", "log", "look", "preview", "file", "find", "await",
             "confirm", "mark", "exec", "verify", "ended"}
  /\ at \in DOMAIN Steps /\ view \in Tables
  /\ waited \in 0..MaxPolls /\ captured \in BOOLEAN
  /\ req \in ReqIds \cup {None} /\ before \in Nat /\ old \subseteq ReqIds /\ runs \in Nat

PlaneTypes ==
  /\ table \in Tables /\ rows \in 0..MaxRows
  /\ request \in [ReqIds -> RequestRow]
  /\ left \in [ReqIds -> Nat \cup {None}]
  /\ lapsed \subseteq ReqIds /\ order \in Seq(ReqIds)
  /\ newest \in [Tools -> Row]

HistoryTypes ==
  /\ acted \subseteq [key : Keys, req : ReqIds, approver : People \cup {None}]
  /\ reported \subseteq Report

WorkTypes == DriverTypes /\ PlaneTypes /\ HistoryTypes

LEMMA SameTypes == TypeOK <=> WorkTypes
BY DEF TypeOK, WorkTypes, DriverTypes, PlaneTypes, HistoryTypes, RequestRow

LEMMA BindingKinds ==
  ASSUME NEW k \in Keys, NEW t \in Tables
  PROVE  BindingOf(k, t) \in Bindings /\ k \in Bindings
<1>1. BindingOf(k, t) \in Bindings
  BY DEF Bindings
<1>2. BindingOf(k, "declared") = k /\ "declared" \in Tables
  BY DEF BindingOf, Tables
<1>3. k \in Bindings
  BY <1>2 DEF Bindings
<1> QED
  BY <1>1, <1>3

\* A filing takes an unused request, and touches no other.
LEMMA Filing ==
  ASSUME PlaneTypes, NEW b \in Bindings
  PROVE  /\ Filed(b) \in [ReqIds -> RequestRow]
         /\ \A r \in ReqIds : request[r].status # "none" => Filed(b)[r] = request[r]
         /\ \A r \in ReqIds : Filed(b)[r] = request[r] \/ Filed(b)[r].status = "pending"
<1>1. CASE Pending(b) # {} \/ Unused = {}
  <2>1. Filed(b) = request
    BY <1>1 DEF Filed
  <2> QED
    BY <1>1, <2>1 DEF PlaneTypes, Pending
<1>2. CASE Pending(b) = {} /\ Unused # {}
  <2> DEFINE u == CHOOSE r \in Unused : TRUE
  <2> DEFINE new == [binding |-> b, status |-> "pending", by |-> None]
  <2>1. u \in Unused
    BY <1>2
  <2>2. u \in ReqIds /\ request[u].status = "none"
    BY <2>1 DEF Unused
  <2>3. Filed(b) = [request EXCEPT ![u] = new]
    BY <1>2 DEF Filed
  <2>4. new \in RequestRow
    BY DEF RequestRow
  <2> HIDE DEF u, new
  <2>5. Filed(b) \in [ReqIds -> RequestRow]
    BY <2>2, <2>3, <2>4 DEF PlaneTypes
  <2>6. \A r \in ReqIds : Filed(b)[r] = IF r = u THEN new ELSE request[r]
    BY <2>2, <2>3 DEF PlaneTypes
  <2>7. new.status = "pending" /\ new.binding = b
    BY DEF new
  <2> QED
    BY <2>2, <2>5, <2>6, <2>7
<1> QED
  BY <1>1, <1>2

\* What a call of the credential leaves in the plane.
LEMMA CallTypes ==
  ASSUME PlaneTypes, NEW k \in Keys, NEW mine \in BOOLEAN, Call(k, mine)
  PROVE  PlaneTypes'
<1>0. rows \in Nat /\ MaxRows \in Nat /\ rows < MaxRows /\ rows + 1 \in Nat /\ rows + 1 \in 0..MaxRows
  <2>1. MaxRows \in Nat
    BY WorkflowAssumption
  <2>2. rows \in 0..MaxRows /\ rows < MaxRows
    BY DEF PlaneTypes, Call
  <2> QED
    BY <2>1, <2>2
<1>1. k.tool \in Tools /\ BindingOf(k, table) \in Bindings
  BY BindingKinds DEF Tools, PlaneTypes
<1>2. UNCHANGED <<lapsed, order, table>>
  BY DEF Call
<1>3. ASSUME NEW decision \in {"", "allowed", "denied"},
             NEW why \in ReqIds \cup {"", "constraint", "allowlist"},
             Recorded(k, decision, why, mine)
      PROVE  rows' \in 0..MaxRows /\ newest' \in [Tools -> Row]
  <2>1. rows' = rows + 1
    BY <1>3 DEF Recorded
  <2>2. rows' \in 0..MaxRows
    BY <1>0, <2>1
  <2> DEFINE new == [n |-> rows + 1, decision |-> decision, why |-> why, key |-> k, mine |-> mine]
  <2>3. new \in Row
    BY <1>0 DEF Row
  <2>4. newest' = [newest EXCEPT ![k.tool] = new]
    BY <1>3 DEF Recorded
  <2> HIDE DEF new
  <2> QED
    BY <1>1, <2>2, <2>3, <2>4 DEF PlaneTypes
<1>4. CASE Standing(k) # "" /\ Recorded(k, "allowed", Standing(k), mine) /\ UNCHANGED <<request, left>>
  <2>1. Standing(k) \in {"constraint", "allowlist", ""}
    BY DEF Standing
  <2>2. rows' \in 0..MaxRows /\ newest' \in [Tools -> Row]
    BY <1>3, <1>4, <2>1
  <2> QED
    BY <1>2, <1>4, <2>2 DEF PlaneTypes
<1>5. ASSUME NEW r \in Usable(k), left' = [left EXCEPT ![r] = IF @ = None THEN None ELSE @ - 1],
             Recorded(k, "allowed", r, mine), UNCHANGED request
      PROVE  PlaneTypes'
  <2>1. r \in ReqIds /\ left[r] # 0
    BY <1>5 DEF Usable, LiveGrant
  <2>2. left[r] = None \/ left[r] - 1 \in Nat
    BY <2>1 DEF PlaneTypes
  <2>3. left' \in [ReqIds -> Nat \cup {None}]
    BY <1>5, <2>1, <2>2 DEF PlaneTypes
  <2>4. rows' \in 0..MaxRows /\ newest' \in [Tools -> Row]
    BY <1>3, <1>5, <2>1
  <2> QED
    BY <1>2, <1>5, <2>3, <2>4 DEF PlaneTypes
<1>6. CASE Recorded(k, "denied", "", mine) /\ request' \in {request, Filed(BindingOf(k, table))} /\ UNCHANGED left
  <2>1. request' \in [ReqIds -> RequestRow]
    BY <1>1, <1>6, Filing DEF PlaneTypes
  <2>2. rows' \in 0..MaxRows /\ newest' \in [Tools -> Row]
    BY <1>3, <1>6
  <2> QED
    BY <1>2, <1>6, <2>1, <2>2 DEF PlaneTypes
<1> QED
  BY <1>4, <1>5, <1>6 DEF Call

\* What people and an operator do to the plane.
Decides ==
  \/ \E r \in ReqIds : DenyRequest(r) \/ Lapse(r) \/ \E who \in People : Approve(r, who)
  \/ RollTable

LEMMA DecidesTypes ==
  ASSUME PlaneTypes, Decides
  PROVE  PlaneTypes'
<1>1. ASSUME NEW r \in ReqIds, DenyRequest(r) PROVE PlaneTypes'
  <2>1. request' \in [ReqIds -> RequestRow]
    BY <1>1 DEF DenyRequest, PlaneTypes, RequestRow
  <2> QED
    BY <1>1, <2>1 DEF DenyRequest, PlaneTypes
<1>2. ASSUME NEW r \in ReqIds, Lapse(r) PROVE PlaneTypes'
  BY <1>2 DEF Lapse, PlaneTypes
<1>3. ASSUME NEW r \in ReqIds, NEW who \in People, Approve(r, who) PROVE PlaneTypes'
  <2>1. request' \in [ReqIds -> RequestRow]
    <3> DEFINE new == [request[r] EXCEPT !.status = "approved", !.by = who]
    <3>1. request \in [ReqIds -> RequestRow] /\ request[r] \in RequestRow
      BY DEF PlaneTypes
    <3>2. new \in RequestRow
      BY <3>1 DEF RequestRow
    <3>3. request' = [request EXCEPT ![r] = new]
      BY <1>3, <3>1 DEF Approve
    <3> HIDE DEF new
    <3> QED
      BY <3>1, <3>2, <3>3
  <2>2. PICK n \in GrantUses : left' = [left EXCEPT ![r] = n]
    BY <1>3 DEF Approve
  <2>5. n \in Nat \cup {None}
    <3>1. GrantUses \subseteq Nat \cup {None}
      BY WorkflowAssumption
    <3> QED
      BY <3>1
  <2>3. left' \in [ReqIds -> Nat \cup {None}]
    BY <2>2, <2>5 DEF PlaneTypes
  <2>4. order' \in Seq(ReqIds)
    BY <1>3 DEF Approve, PlaneTypes
  <2> QED
    BY <1>3, <2>1, <2>3, <2>4 DEF Approve, PlaneTypes
<1>4. CASE RollTable
  BY <1>4 DEF RollTable, PlaneTypes
<1> QED
  BY <1>1, <1>2, <1>3, <1>4 DEF Decides

\* The driver leaves the plane alone, but for the request it files.
OwnSteps == Drive \/ Interrupt \/ Restart

LEMMA PlaneAlone ==
  ASSUME OwnSteps
  PROVE  UNCHANGED plane \/ (FileRequest /\ UNCHANGED <<left, lapsed, order, newest, rows, table>>)
<1>1. ASSUME Stops PROVE UNCHANGED plane
  BY <1>1 DEF Stops
<1>2. CASE Begin \/ Refuse \/ StartStep \/ RefreshFails
  BY <1>1, <1>2 DEF Begin, Refuse, StartStep, RefreshFails, Goes
<1>3. CASE Turn
  BY <1>1, <1>3 DEF Turn, Ask, Replies, TurnLost, TurnOver, PollDone, PollFailed, LogRead, PollAgain, Goes
<1>4. CASE Look \/ StopsLooking \/ Preview \/ FileRequest \/ Find \/ StillPending \/ NobodyDecided
  BY <1>1, <1>4 DEF Look, StopsLooking, Preview, FileRequest, Find, StillPending, NobodyDecided, Goes
<1>5. CASE Decided \/ Confirm \/ NotConfirmed \/ Mark \/ Exec \/ Verify \/ NotVerified
  BY <1>1, <1>5 DEF Decided, Confirm, NotConfirmed, Mark, Exec, Verify, NotVerified, Goes, Reports
<1>6. CASE StepFails \/ Interrupt \/ Restart
  BY <1>1, <1>6 DEF StepFails, Interrupt, Restart
<1> QED
  BY <1>2, <1>3, <1>4, <1>5, <1>6 DEF OwnSteps, Drive, Govern

LEMMA OwnPlane == ASSUME DriverTypes, OnTrack, PlaneTypes, OwnSteps PROVE PlaneTypes'
<1>1. CASE UNCHANGED plane
  BY <1>1 DEF plane, PlaneTypes
<1>2. CASE FileRequest /\ UNCHANGED <<left, lapsed, order, newest, rows, table>>
  <2>1. Governs
    BY <1>2 DEF FileRequest, OnTrack, Seeking, Governs
  <2>2. step.key \in Keys
    BY <2>1, StepHere DEF DriverTypes
  <2>3. BindingOf(step.key, table) \in Bindings
    BY <2>2, BindingKinds DEF PlaneTypes
  <2>4. request' \in [ReqIds -> RequestRow]
    BY <1>2, <2>3, Filing DEF FileRequest
  <2> QED
    BY <1>2, <2>4 DEF PlaneTypes
<1> QED
  BY <1>1, <1>2, PlaneAlone

-----------------------------------------------------------------------------
(* The driver's own state. *)

LEMMA Fixed ==
  /\ {"declared"} \subseteq Tables /\ 0 \in 0..MaxPolls /\ MaxPolls \in Nat
  /\ 0 \in 0..MaxRows
  /\ None \notin ReqIds /\ None \notin Keys
<1>1. MaxPolls \in Nat /\ MaxRows \in Nat /\ None \notin ReqIds /\ None \notin Keys
  BY WorkflowAssumption
<1> QED
  BY <1>1 DEF Tables

LEMMA ExitTypes == ASSUME DriverTypes, Exits PROVE DriverTypes'
BY Exiting, FirstStep, Fixed DEF DriverTypes

LEMMA AdvanceTypes ==
  ASSUME DriverTypes, OnTrack, NEW text \in BOOLEAN, Advances(text)
  PROVE  DriverTypes'
<1>1. CASE Exits
  BY <1>1, ExitTypes
<1>2. CASE ~Exits
  <2>1. /\ pc' = "step" /\ at' = at + 1 /\ at # Len(Steps) /\ captured' = text
        /\ UNCHANGED <<waited, opt, view, req, before, old, runs>>
    BY <1>2 DEF Advances
  <2>2. at \in DOMAIN Steps
    BY DEF DriverTypes
  <2>3. at' \in DOMAIN Steps
    BY <2>1, <2>2, FirstStep
  <2> QED
    BY <2>1, <2>3 DEF DriverTypes
<1> QED
  BY <1>1, <1>2

\* A step that only moves the driver on within its step.
LEMMA GoesTypes ==
  ASSUME DriverTypes, NEW p \in {"ask", "turn", "log", "look", "file", "confirm", "mark", "verify"}, Goes(p)
  PROVE  DriverTypes'
BY DEF Goes, driver, DriverTypes

LEMMA DriverStep ==
  ASSUME WorkTypes, ApprovalInv, OwnSteps
  PROVE  DriverTypes'
<1>0. DriverTypes /\ OnTrack /\ at \in DOMAIN Steps
  BY DEF WorkTypes, DriverTypes, ApprovalInv
<1>1. ASSUME Stops PROVE DriverTypes'
  BY <1>0, <1>1, ExitTypes DEF Stops
<1>2. CASE Begin
  <2>1. opt.only = 0 \/ opt.only \in DOMAIN Steps
    <3>1. Options \subseteq [dry : BOOLEAN, only : {0} \cup DOMAIN Steps, approver : People \cup {None}]
      BY WorkflowAssumption
    <3> QED
      BY <1>0, <3>1 DEF DriverTypes
  <2>2. /\ view' = "declared" /\ pc' = "step" /\ UNCHANGED <<waited, opt, captured, req, before, old, runs>>
        /\ at' = IF opt.only = 0 THEN 1 ELSE opt.only
    BY <1>2 DEF Begin
  <2>3. at' \in DOMAIN Steps
    BY <2>1, <2>2, FirstStep
  <2> QED
    BY <1>0, <2>2, <2>3, Fixed DEF DriverTypes
<1>3. CASE StartStep
  <2>1. CASE step.kind = "poll"
    <3>1. pc' = "ask" /\ waited' = 0 /\ UNCHANGED <<at, driver>>
      BY <1>3, <2>1 DEF StartStep
    <3> QED
      BY <1>0, <3>1, Fixed DEF DriverTypes, driver
  <2>2. CASE step.kind # "poll"
    <3>1. Goes("ask") \/ Goes("mark") \/ Goes("look") \/ Stops
      BY <1>0, <1>3, <2>2, StepHere DEF StartStep, Kinds
    <3> QED
      BY <1>0, <1>1, <3>1, GoesTypes
  <2> QED
    BY <2>1, <2>2
<1>4. CASE Ask \/ PollFailed
  BY <1>0, <1>4 DEF Ask, PollFailed, DriverTypes, driver
<1>5. CASE Replies \/ PollDone
  <2>1. captured \in BOOLEAN /\ step.captures \in BOOLEAN
    BY <1>0, StepHere DEF DriverTypes, StepRecord
  <2>2. Advances(captured) \/ Advances(captured \/ step.captures)
    BY <1>5 DEF Replies, PollDone
  <2> QED
    BY <1>0, <2>1, <2>2, AdvanceTypes
<1>6. CASE TurnOver \/ Preview \/ Decided \/ Confirm
  BY <1>0, <1>6, GoesTypes DEF TurnOver, Preview, Decided, Confirm
<1>7. CASE PollAgain
  <2>1. CASE waited < MaxPolls
    <3>1. pc' = "ask" /\ waited' = waited + 1 /\ UNCHANGED <<at, driver>>
      BY <1>7, <2>1 DEF PollAgain
    <3>2. waited' \in 0..MaxPolls
      BY <1>0, <2>1, <3>1, Fixed DEF DriverTypes
    <3> QED
      BY <1>0, <3>1, <3>2 DEF DriverTypes, driver
  <2>2. CASE ~(waited < MaxPolls)
    BY <1>1, <1>7, <2>2 DEF PollAgain
  <2> QED
    BY <2>1, <2>2
<1>8. CASE Look
  <2>1. /\ old' = {r \in ReqIds : request[r].status = "approved"} /\ pc' \in {"preview", "file"}
        /\ UNCHANGED <<at, waited, opt, view, captured, req, before, runs>>
    BY <1>8 DEF Look
  <2> QED
    BY <1>0, <2>1 DEF DriverTypes
<1>9. CASE FileRequest
  BY <1>0, <1>9 DEF FileRequest, driver, DriverTypes
<1>10. CASE Find
  <2>1. /\ req' \in ReqIds /\ pc' = "await" /\ waited' = 0
        /\ UNCHANGED <<at, opt, view, captured, before, old, runs>>
    BY <1>10 DEF Find
  <2> QED
    BY <1>0, <2>1, Fixed DEF DriverTypes
<1>11. CASE StillPending
  <2>1. waited' = waited + 1 /\ waited < MaxPolls /\ UNCHANGED <<pc, at, driver>>
    BY <1>11 DEF StillPending
  <2>2. waited' \in 0..MaxPolls
    BY <1>0, <2>1, Fixed DEF DriverTypes
  <2> QED
    BY <1>0, <2>1, <2>2 DEF DriverTypes, driver
<1>12. CASE Mark
  <2>1. /\ before' = newest[step.key.tool].n /\ pc' \in {"exec", "ask"}
        /\ UNCHANGED <<at, waited, opt, view, captured, req, old, runs>>
    BY <1>12 DEF Mark
  <2>2. step.key.tool \in Tools
    BY <1>0, <1>12, StepHere DEF Mark, OnTrack
  <2>3. before' \in Nat
    BY <2>1, <2>2 DEF WorkTypes, PlaneTypes, Row
  <2> QED
    BY <1>0, <2>1, <2>3 DEF DriverTypes
<1>13. CASE Exec
  <2>1. captured \in BOOLEAN /\ (Exits \/ Advances(captured))
    BY <1>0, <1>13 DEF Exec, DriverTypes
  <2> QED
    BY <1>0, <2>1, AdvanceTypes, ExitTypes
<1>14. CASE Verify
  <2>1. captured \in BOOLEAN /\ Advances(captured)
    BY <1>0, <1>14 DEF Verify, Reports, DriverTypes
  <2> QED
    BY <1>0, <2>1, AdvanceTypes
<1>15. CASE Restart
  <2>1. /\ opt' \in Options /\ pc' = "begin" /\ runs' = runs + 1
        /\ UNCHANGED <<at, waited, view, captured, req, before, old>>
    BY <1>15 DEF Restart
  <2> QED
    BY <1>0, <2>1 DEF DriverTypes
<1>16. CASE Refuse \/ RefreshFails \/ TurnLost \/ LogRead \/ StopsLooking \/ NobodyDecided
            \/ NotConfirmed \/ NotVerified \/ StepFails \/ Interrupt
  BY <1>1, <1>16 DEF Refuse, RefreshFails, TurnLost, LogRead, StopsLooking, NobodyDecided,
                     NotConfirmed, NotVerified, StepFails, Interrupt
<1> QED
  BY <1>2, <1>3, <1>4, <1>5, <1>6, <1>7, <1>8, <1>9, <1>10, <1>11, <1>12, <1>13, <1>14, <1>15, <1>16
     DEF OwnSteps, Drive, Turn, Govern

\* What a run leaves behind it.
LEMMA HistoryKept ==
  ASSUME OwnSteps
  PROVE  UNCHANGED history \/ Exec \/ Verify
<1>1. ASSUME Stops PROVE UNCHANGED history
  BY <1>1 DEF Stops
<1>2. CASE Begin \/ Refuse \/ StartStep \/ RefreshFails
  BY <1>1, <1>2 DEF Begin, Refuse, StartStep, RefreshFails, Goes
<1>3. CASE Turn
  BY <1>1, <1>3 DEF Turn, Ask, Replies, TurnLost, TurnOver, PollDone, PollFailed, LogRead, PollAgain, Goes
<1>4. CASE Look \/ StopsLooking \/ Preview \/ FileRequest \/ Find \/ StillPending \/ NobodyDecided
  BY <1>1, <1>4 DEF Look, StopsLooking, Preview, FileRequest, Find, StillPending, NobodyDecided, Goes
<1>5. CASE Decided \/ Confirm \/ NotConfirmed \/ Mark \/ NotVerified
  BY <1>1, <1>5 DEF Decided, Confirm, NotConfirmed, Mark, NotVerified, Goes
<1>6. CASE StepFails \/ Interrupt \/ Restart
  BY <1>1, <1>6 DEF StepFails, Interrupt, Restart
<1> QED
  BY <1>2, <1>3, <1>4, <1>5, <1>6 DEF OwnSteps, Drive, Govern

LEMMA HistoryStep ==
  ASSUME WorkTypes, ApprovalInv, OwnSteps
  PROVE  HistoryTypes'
<1>0. HistoryTypes /\ OnTrack /\ at \in DOMAIN Steps /\ opt.approver \in People \cup {None}
  <2>1. Options \subseteq [dry : BOOLEAN, only : {0} \cup DOMAIN Steps, approver : People \cup {None}]
    BY WorkflowAssumption
  <2> QED
    BY <2>1 DEF WorkTypes, DriverTypes, ApprovalInv
<1>1. CASE UNCHANGED history
  BY <1>0, <1>1 DEF history, HistoryTypes
<1>2. CASE Exec
  <2>1. step.key \in Keys /\ step.kind = "consequential"
    BY <1>0, <1>2, StepHere DEF Exec, OnTrack, Governs
  <2>2. req \in ReqIds
    BY <1>2, <2>1 DEF Exec, ApprovalInv, ForThisCall
  <2>3. acted' = acted \cup {[key |-> step.key, req |-> req, approver |-> opt.approver]} /\ UNCHANGED reported
    BY <1>2 DEF Exec
  <2> QED
    BY <1>0, <2>1, <2>2, <2>3 DEF HistoryTypes
<1>3. CASE Verify
  <2> DEFINE row == newest[step.key.tool]
             new == [kind |-> step.kind, key |-> step.key, row |-> row, req |-> req, before |-> before, old |-> old]
  <2>1. step.key \in Keys /\ step.key.tool \in Tools /\ step.kind \in {"bounded", "consequential"}
    BY <1>0, <1>3, StepHere DEF Verify, OnTrack, Governs
  <2>2. row \in Row
    BY <2>1 DEF WorkTypes, PlaneTypes
  <2>3. req \in ReqIds \cup {None} /\ before \in Nat /\ old \subseteq ReqIds
    BY DEF WorkTypes, DriverTypes
  <2>4. reported' = reported \cup {new} /\ UNCHANGED acted
    BY <1>3 DEF Verify, Reports
  <2> HIDE DEF row
  <2>5. new \in Report
    BY <2>1, <2>2, <2>3 DEF Report
  <2> QED
    BY <1>0, <2>4, <2>5 DEF HistoryTypes
<1> QED
  BY <1>1, <1>2, <1>3, HistoryKept

\* Calls beside the driver's, decisions, and a table rolled.
LEMMA BesideTypes ==
  ASSUME WorkTypes, Others
  PROVE  WorkTypes' /\ Elsewhere
<1>1. ASSUME NEW k \in Keys, AgentCalls(k) PROVE PlaneTypes' /\ Elsewhere
  BY <1>1, CallTypes DEF AgentCalls, Elsewhere, WorkTypes
<1>2. ASSUME NEW k \in Keys, OtherCall(k) PROVE PlaneTypes' /\ Elsewhere
  BY <1>2, CallTypes DEF OtherCall, rest, Elsewhere, WorkTypes
<1>3. ASSUME Decides PROVE PlaneTypes' /\ Elsewhere
  <2>1. ASSUME rest' = rest PROVE Elsewhere
    BY <2>1 DEF rest, Elsewhere
  <2>2. rest' = rest
    BY <1>3 DEF Decides, DenyRequest, Lapse, Approve, RollTable
  <2> QED
    BY <1>3, <2>1, <2>2, DecidesTypes DEF WorkTypes
<1>4. ASSUME PlaneTypes', Elsewhere PROVE WorkTypes'
  <2>1. DriverTypes'
    BY <1>4 DEF Elsewhere, driver, WorkTypes, DriverTypes
  <2>2. HistoryTypes'
    BY <1>4 DEF Elsewhere, history, WorkTypes, HistoryTypes
  <2> QED
    BY <1>4, <2>1, <2>2 DEF WorkTypes
<1> QED
  BY <1>1, <1>2, <1>3, <1>4 DEF Others, Decides

-----------------------------------------------------------------------------
(* What is approved stays so: requests are filed in rows nobody used, and    *)
(* decided once.                                                             *)

\* A grant that is used up or has lapsed does not come back.
Keep ==
  \A r \in ReqIds :
    /\ request[r].status # "none" =>
         request'[r].status # "none" /\ request'[r].binding = request[r].binding
    /\ request[r].status = "approved" => request'[r] = request[r]
    /\ request[r].status = "approved" /\ ~LiveGrant(r) => ~LiveGrant(r)'

LEMMA CallKeeps ==
  ASSUME PlaneTypes, NEW k \in Keys, NEW mine \in BOOLEAN, Call(k, mine)
  PROVE  Keep
<1>0. lapsed' = lapsed /\ BindingOf(k, table) \in Bindings
  BY BindingKinds DEF Call, PlaneTypes
<1>1. CASE UNCHANGED <<request, left>>
  BY <1>0, <1>1 DEF Keep, LiveGrant
<1>2. ASSUME NEW r \in Usable(k), left' = [left EXCEPT ![r] = IF @ = None THEN None ELSE @ - 1],
             UNCHANGED request
      PROVE  Keep
  <2>1. \A q \in ReqIds : left'[q] = left[q] \/ LiveGrant(q)
    BY <1>2 DEF PlaneTypes, Usable
  <2> QED
    BY <1>0, <1>2, <2>1 DEF Keep, LiveGrant
<1>3. CASE request' \in {request, Filed(BindingOf(k, table))} /\ UNCHANGED left
  <2>1. \A r \in ReqIds : request[r].status # "none" => request'[r] = request[r]
    BY <1>0, <1>3, Filing
  <2> QED
    BY <1>0, <1>3, <2>1 DEF Keep, LiveGrant
<1> QED
  BY <1>1, <1>2, <1>3 DEF Call

LEMMA DecidesKeeps == ASSUME PlaneTypes, Decides PROVE Keep
<1>1. ASSUME NEW r \in ReqIds, DenyRequest(r) PROVE Keep
  <2>1. /\ request[r].status = "pending" /\ UNCHANGED <<left, lapsed>>
        /\ request' = [request EXCEPT ![r].status = "denied"]
    BY <1>1 DEF DenyRequest
  <2>2. \A q \in ReqIds : q # r => request'[q] = request[q]
    BY <2>1 DEF PlaneTypes
  <2>3. request'[r].binding = request[r].binding /\ request'[r].status = "denied"
    BY <2>1 DEF PlaneTypes, RequestRow
  <2> QED
    BY <2>1, <2>2, <2>3 DEF Keep, LiveGrant
<1>2. ASSUME NEW r \in ReqIds, Lapse(r) PROVE Keep
  <2>1. UNCHANGED <<request, left>> /\ lapsed \subseteq lapsed'
    BY <1>2 DEF Lapse
  <2> QED
    BY <2>1 DEF Keep, LiveGrant
<1>3. ASSUME NEW r \in ReqIds, NEW who \in People, Approve(r, who) PROVE Keep
  <2>1. /\ request[r].status = "pending" /\ lapsed' = lapsed
        /\ request' = [request EXCEPT ![r].status = "approved", ![r].by = who]
    BY <1>3 DEF Approve
  <2>2. \A q \in ReqIds : q # r => request'[q] = request[q] /\ left'[q] = left[q]
    BY <1>3, <2>1 DEF PlaneTypes, Approve
  <2>3. request'[r].binding = request[r].binding /\ request'[r].status = "approved"
    BY <2>1 DEF PlaneTypes, RequestRow
  <2> QED
    BY <2>1, <2>2, <2>3 DEF Keep, LiveGrant
<1>4. CASE RollTable
  BY <1>4 DEF RollTable, Keep, LiveGrant
<1> QED
  BY <1>1, <1>2, <1>3, <1>4 DEF Decides

LEMMA OwnKeeps == ASSUME WorkTypes, ApprovalInv, OwnSteps PROVE Keep
<1>1. CASE UNCHANGED plane
  BY <1>1 DEF plane, Keep, LiveGrant
<1>2. CASE FileRequest /\ UNCHANGED <<left, lapsed, order, newest, rows, table>>
  <2>1. step.key \in Keys
    BY <1>2, StepHere DEF FileRequest, ApprovalInv, OnTrack, Seeking, Governs, WorkTypes, DriverTypes
  <2>2. BindingOf(step.key, table) \in Bindings
    BY <2>1, BindingKinds DEF WorkTypes, PlaneTypes
  <2>3. \A r \in ReqIds : request[r].status # "none" => request'[r] = request[r]
    BY <1>2, <2>2, Filing DEF FileRequest, WorkTypes
  <2> QED
    BY <1>2, <2>3 DEF Keep, LiveGrant
<1> QED
  BY <1>1, <1>2, PlaneAlone

LEMMA BesideKeeps == ASSUME WorkTypes, Others PROVE Keep
BY CallKeeps, DecidesKeeps DEF Others, AgentCalls, OtherCall, Decides, WorkTypes

-----------------------------------------------------------------------------
(* The driver acts under the approval it waited for. *)

LEMMA ActedKept == ASSUME ActedInv, Keep, UNCHANGED acted PROVE ActedInv'
<1>1. \A a \in acted : request'[a.req] = request[a.req]
  BY DEF ActedInv, Keep
<1> QED
  BY <1>1 DEF ActedInv

\* Whoever else acts, the request the driver waits for is the same.
LEMMA ApprovalBeside ==
  ASSUME ApprovalInv, Keep, Elsewhere
  PROVE  ApprovalInv'
<1>1. UNCHANGED <<pc, at, view, req, opt, acted>> /\ step' = step
  BY DEF Elsewhere, driver, history, step
<1>2. OnTrack'
  BY <1>1 DEF ApprovalInv, OnTrack, Governs
<1>3. ForThisCall'
  BY <1>1 DEF ApprovalInv, ForThisCall, Keep
<1>4. ByThisPerson'
  <2>1. pc \in {"mark", "exec"} /\ step.kind = "consequential" => request'[req] = request[req]
    BY DEF ApprovalInv, ForThisCall, ByThisPerson, Keep
  <2> QED
    BY <1>1, <2>1 DEF ApprovalInv, ByThisPerson
<1> QED
  BY <1>1, <1>2, <1>3, <1>4, ActedKept DEF ApprovalInv

\* A driver between steps holds no request.
LEMMA AtRest ==
  ASSUME Between', view' = "declared"
  PROVE  OnTrack' /\ ForThisCall' /\ ByThisPerson'
BY DEF Between, OnTrack, ForThisCall, ByThisPerson, Seeking

LEMMA StopsApproved ==
  ASSUME ApprovalInv, Stops
  PROVE  ApprovalInv'
<1>1. OnTrack' /\ ForThisCall' /\ ByThisPerson'
  BY Exiting, AtRest DEF Stops, Between
<1>2. ActedInv'
  BY DEF Stops, plane, history, ApprovalInv, ActedInv
<1> QED
  BY <1>1, <1>2 DEF ApprovalInv

LEMMA ApprovalOwn ==
  ASSUME WorkTypes, ApprovalInv, OwnSteps
  PROVE  ApprovalInv'
<1>0. OnTrack /\ ForThisCall /\ ByThisPerson /\ ActedInv /\ view = "declared" /\ at \in DOMAIN Steps
  BY DEF ApprovalInv, OnTrack, WorkTypes, DriverTypes
<1>k. Keep
  BY OwnKeeps
<1>1. ASSUME OnTrack', ForThisCall', ByThisPerson', UNCHANGED acted PROVE ApprovalInv'
  BY <1>0, <1>1, <1>k, ActedKept DEF ApprovalInv
<1>2. CASE Begin \/ Restart
  BY <1>0, <1>1, <1>2, AtRest DEF Begin, Restart, Between, history
<1>3. CASE StartStep
  <2>1. CASE pc' \in {"ask", "look", "mark"} /\ UNCHANGED <<at, driver, history>>
    <3>1. pc' = "look" => step.kind = "consequential"
      BY <1>0, <1>3, StepHere DEF StartStep, Goes, Kinds, Stops, Exits
    <3>2. pc' = "mark" => step.kind = "bounded"
      BY <1>0, <1>3, StepHere DEF StartStep, Goes, Kinds, Stops, Exits
    <3>3. view' = "declared" /\ step' = step
      BY <1>0, <2>1 DEF driver, step
    <3> QED
      BY <1>1, <2>1, <3>1, <3>2, <3>3 DEF OnTrack, ForThisCall, ByThisPerson, Seeking, Governs, history
  <2>2. (pc' \in {"ask", "look", "mark"} /\ UNCHANGED <<at, driver, history>>) \/ Stops
    BY <1>0, <1>3, StepHere DEF StartStep, Goes, Kinds
  <2> QED
    BY <2>1, <2>2, StopsApproved
<1>4. CASE Ask
  <2>1. pc' = "turn" /\ UNCHANGED <<at, driver, history>>
    BY <1>4 DEF Ask
  <2> QED
    BY <1>0, <1>1, <2>1 DEF OnTrack, ForThisCall, ByThisPerson, Seeking, driver, history
<1>5. CASE Replies \/ PollDone
  <2>1. PICK text : Advances(text) /\ UNCHANGED history
    BY <1>5 DEF Replies, PollDone
  <2> QED
    BY <1>0, <1>1, <2>1, Advancing, AtRest DEF history
<1>6. CASE TurnOver
  <2>1. pc' = "verify" /\ Governs /\ UNCHANGED <<at, driver, history>>
    BY <1>6 DEF TurnOver, Goes, Governs
  <2> QED
    BY <1>0, <1>1, <2>1 DEF OnTrack, ForThisCall, ByThisPerson, Seeking, driver, history, Governs, step
<1>7. CASE PollFailed
  <2>1. pc' = "log" /\ ~Governs /\ UNCHANGED <<at, driver, history>>
    BY <1>7 DEF PollFailed, Governs
  <2> QED
    BY <1>0, <1>1, <2>1 DEF OnTrack, ForThisCall, ByThisPerson, Seeking, driver, history, Governs, step
<1>8. CASE PollAgain
  <2>1. CASE pc' = "ask" /\ UNCHANGED <<at, driver, history>>
    BY <1>0, <1>1, <2>1 DEF OnTrack, ForThisCall, ByThisPerson, Seeking, driver, history
  <2> QED
    BY <1>8, <2>1, StopsApproved DEF PollAgain
<1>9. CASE Look \/ Preview
  <2>1. /\ step.kind = "consequential" /\ pc' \in {"preview", "file"}
        /\ UNCHANGED <<at, view, history>>
    BY <1>0, <1>9 DEF Look, Preview, Goes, driver, OnTrack, Seeking
  <2> QED
    BY <1>0, <1>1, <2>1 DEF OnTrack, ForThisCall, ByThisPerson, history, step
<1>10. CASE FileRequest
  <2>1. /\ step.kind = "consequential" /\ pc' = "find" /\ UNCHANGED <<at, view, history>>
    BY <1>0, <1>10 DEF FileRequest, driver, OnTrack, Seeking
  <2> QED
    BY <1>0, <1>1, <2>1 DEF OnTrack, ForThisCall, ByThisPerson, history, step
<1>11. CASE Find
  <2>1. step.kind = "consequential" /\ pc' = "await" /\ UNCHANGED <<at, view, history, plane>>
    BY <1>0, <1>11 DEF Find, OnTrack, Seeking
  <2>2. /\ req' \in ReqIds /\ request[req'].status = "pending"
        /\ SummaryOf(request[req'].binding) = SummaryOf(BindingOf(step.key, view))
    BY <1>11 DEF Find
  <2>3. BindingOf(step.key, view) = step.key
    BY <1>0 DEF BindingOf
  <2>4. ForThisCall'
    BY <2>1, <2>2, <2>3 DEF ForThisCall, step, plane
  <2> QED
    BY <1>0, <1>1, <2>1, <2>4 DEF OnTrack, ByThisPerson, history, step
<1>12. CASE StillPending
  BY <1>12, <1>k, <1>0, <1>1 DEF StillPending, OnTrack, ForThisCall, ByThisPerson, Governs, driver, history,
                                plane, step
<1>13. CASE Decided
  <2>1. pc = "await" /\ pc' = "confirm" /\ UNCHANGED <<at, driver, history, plane>>
    BY <1>13 DEF Decided, Goes
  <2> QED
    BY <1>0, <1>1, <2>1 DEF OnTrack, ForThisCall, ByThisPerson, Seeking, driver, history, plane, step
<1>14. CASE Confirm
  <2>1. /\ pc = "confirm" /\ pc' = "mark" /\ UNCHANGED <<at, driver, history, plane>>
        /\ request[req].status = "approved" /\ opt.approver \in {None, request[req].by}
    BY <1>14 DEF Confirm, Goes, LiveGrant
  <2>2. step.kind = "consequential"
    BY <1>0, <2>1 DEF OnTrack, Seeking
  <2>3. UNCHANGED <<view, req, opt, request, acted>> /\ step' = step
    BY <2>1 DEF driver, plane, history, step
  <2>4. ForThisCall'
    BY <1>0, <2>1, <2>3 DEF ForThisCall
  <2> QED
    BY <1>0, <1>1, <2>1, <2>2, <2>3, <2>4 DEF OnTrack, ByThisPerson, Seeking, Governs
<1>15. CASE Mark
  <2>1. /\ pc = "mark" /\ pc' = (IF step.exec THEN "exec" ELSE "ask")
        /\ UNCHANGED <<at, view, req, opt, history, plane>>
    BY <1>15 DEF Mark
  <2>2. step.exec => step.kind = "consequential"
    BY <1>0, StepHere
  <2>3. UNCHANGED <<view, req, opt, request, acted>> /\ step' = step
    BY <2>1 DEF plane, history, step
  <2> QED
    BY <1>0, <1>1, <2>1, <2>2, <2>3 DEF OnTrack, ForThisCall, ByThisPerson, Seeking
<1>16. CASE Exec
  <2> DEFINE new == [key |-> step.key, req |-> req, approver |-> opt.approver]
  <2>1. pc = "exec" /\ acted' = acted \cup {new} /\ UNCHANGED plane /\ (Exits \/ Advances(captured))
    BY <1>16 DEF Exec
  <2>2. OnTrack' /\ ForThisCall' /\ ByThisPerson'
    BY <1>0, <2>1, Exiting, Advancing, AtRest DEF Between
  <2>3. step.kind = "consequential"
    BY <1>0, <2>1 DEF OnTrack
  <2>4. /\ new.req \in ReqIds /\ request[new.req].status = "approved"
        /\ SummaryOf(request[new.req].binding) = SummaryOf(new.key)
        /\ new.approver \in {None, request[new.req].by}
    BY <1>0, <2>1, <2>3 DEF ForThisCall, ByThisPerson
  <2>5. request' = request
    BY <2>1 DEF plane
  <2> HIDE DEF new
  <2>6. ActedInv'
    BY <1>0, <2>1, <2>4, <2>5 DEF ActedInv
  <2> QED
    BY <2>2, <2>6 DEF ApprovalInv
<1>17. CASE Verify
  <2>1. Advances(captured) /\ UNCHANGED acted
    BY <1>17 DEF Verify, Reports
  <2> QED
    BY <1>0, <1>1, <2>1, Advancing, AtRest
<1>18. CASE Refuse \/ RefreshFails \/ TurnLost \/ LogRead \/ StopsLooking \/ NobodyDecided
            \/ NotConfirmed \/ NotVerified \/ StepFails \/ Interrupt
  <2>1. Stops
    BY <1>18 DEF Refuse, RefreshFails, TurnLost, LogRead, StopsLooking, NobodyDecided,
                 NotConfirmed, NotVerified, StepFails, Interrupt
  <2> QED
    BY <2>1, StopsApproved
<1> QED
  BY <1>2, <1>3, <1>4, <1>5, <1>6, <1>7, <1>8, <1>9, <1>10, <1>11, <1>12, <1>13, <1>14, <1>15, <1>16,
     <1>17, <1>18 DEF OwnSteps, Drive, Turn, Govern

-----------------------------------------------------------------------------
\* The driver's types hold, and what it acts under.
LEMMA WorkInit == Init => WorkTypes /\ ApprovalInv
<1> SUFFICES ASSUME Init PROVE WorkTypes /\ ApprovalInv
  OBVIOUS
<1>0. 1 \in DOMAIN Steps /\ "declared" \in Tables /\ 0 \in 0..MaxPolls /\ 0 \in 0..MaxRows
  BY FirstStep, Fixed
<1>1. NoRequest \in RequestRow
  BY DEF NoRequest, RequestRow
<1>2. request \in [ReqIds -> RequestRow] /\ order \in Seq(ReqIds)
  <2>1. CASE request = [r \in ReqIds |-> NoRequest] /\ order = <<>>
    BY <1>1, <2>1
  <2>2. CASE ~(request = [r \in ReqIds |-> NoRequest] /\ order = <<>>)
    <3> DEFINE r == CHOOSE r \in ReqIds : TRUE
    <3>1. r \in ReqIds
      BY WorkflowAssumption
    <3>2. /\ \E k \in Keys, who \in People : request = [q \in ReqIds |->
               IF q = r THEN [binding |-> k, status |-> "approved", by |-> who] ELSE NoRequest]
          /\ order = <<r>>
      BY <2>2 DEF Init
    <3> HIDE DEF r
    <3>3. PICK k \in Keys, who \in People : request = [q \in ReqIds |->
               IF q = r THEN [binding |-> k, status |-> "approved", by |-> who] ELSE NoRequest]
      BY <3>2
    <3>4. k \in Bindings
      BY <1>0, BindingKinds
    <3>5. [binding |-> k, status |-> "approved", by |-> who] \in RequestRow
      BY <3>4 DEF RequestRow
    <3> QED
      BY <1>1, <3>1, <3>2, <3>3, <3>5
  <2> QED
    BY <2>1, <2>2
<1>3. NoRow \in Row
  BY DEF NoRow, Row
<1>4. PlaneTypes
  BY <1>0, <1>2, <1>3 DEF Init, PlaneTypes
<1>5. DriverTypes
  BY <1>0 DEF Init, DriverTypes
<1>6. HistoryTypes
  BY DEF Init, HistoryTypes
<1>7. ApprovalInv
  BY DEF Init, ApprovalInv, OnTrack, ForThisCall, ByThisPerson, ActedInv, Seeking
<1> QED
  BY <1>4, <1>5, <1>6, <1>7 DEF WorkTypes

LEMMA WorkStill == ASSUME WorkTypes, ApprovalInv, UNCHANGED vars PROVE WorkTypes' /\ ApprovalInv'
<1>1. Elsewhere /\ UNCHANGED plane
  BY DEF vars, Elsewhere
<1>2. Keep
  BY <1>1 DEF plane, Keep, LiveGrant
<1>3. PlaneTypes'
  BY <1>1 DEF plane, WorkTypes, PlaneTypes
<1>4. DriverTypes'
  BY <1>1 DEF Elsewhere, driver, WorkTypes, DriverTypes
<1>5. HistoryTypes'
  BY <1>1 DEF Elsewhere, history, WorkTypes, HistoryTypes
<1> QED
  BY <1>1, <1>2, <1>3, <1>4, <1>5, ApprovalBeside DEF WorkTypes

LEMMA WorkNext == WorkTypes /\ ApprovalInv /\ [Next]_vars => WorkTypes' /\ ApprovalInv' /\ Keep
<1> SUFFICES ASSUME WorkTypes, ApprovalInv, [Next]_vars PROVE WorkTypes' /\ ApprovalInv' /\ Keep
  OBVIOUS
<1>1. CASE OwnSteps
  <2>1. PlaneTypes'
    BY <1>1, OwnPlane DEF WorkTypes, ApprovalInv
  <2> QED
    BY <1>1, <2>1, DriverStep, HistoryStep, ApprovalOwn, OwnKeeps DEF WorkTypes
<1>2. CASE Others
  BY <1>2, BesideTypes, BesideKeeps, ApprovalBeside
<1>3. CASE UNCHANGED vars
  <2>1. Keep
    BY <1>3 DEF vars, plane, Keep, LiveGrant
  <2> QED
    BY <1>3, <2>1, WorkStill
<1> QED
  BY <1>1, <1>2, <1>3 DEF Next, OwnSteps

\* The driver's types; a row, a request and a report are what the plane's
\* views can show.
LEMMA WorkSafe == Spec => [](WorkTypes /\ ApprovalInv)
BY WorkInit, WorkNext, PTL DEF Spec

THEOREM WorkflowTypes == Spec => []TypeOK
BY WorkSafe, SameTypes, PTL

\* Whatever the plane's table, its other users and those who decide do between
\* the driver's steps, and however often it is interrupted, an action on the
\* operator's machine has the approval of the request that shows this call,
\* by the person the run requires (consequentialStep).
THEOREM ActsUnderApproval == Spec => []ActedUnderItsApproval
<1>1. ApprovalInv => ActedUnderItsApproval
  BY DEF ApprovalInv, ActedInv, ActedUnderItsApproval
<1> QED
  BY <1>1, WorkSafe, PTL

-----------------------------------------------------------------------------
(* What the driver reports is on the plane's record.                         *)

\* The newest row of a tool says truly why it was let in.
RecordInv ==
  \A t \in Tools :
    /\ newest[t].n <= rows
    /\ newest[t].n > 0 => newest[t].key.tool = t
    /\ newest[t].why = "constraint" => newest[t].key \in Bounds
    /\ newest[t].why \in ReqIds => request[newest[t].why].status = "approved"

\* Every grant is listed.
ListInv ==
  \A r \in ReqIds : request[r].status = "approved" => \E i \in DOMAIN order : order[i] = r

\* The mark is of an earlier row, or of the same one.
MarkInv == pc \in Asking /\ Governs => before <= newest[step.key.tool].n

\* None of the approvals from before this step can let its call in.
Looked ==
  \/ pc \in Seeking \ {"look"}
  \/ pc \in {"mark"} \cup Asking /\ step.kind = "consequential"

OldInv ==
  /\ \A r \in old : request[r].status = "approved"
  /\ Looked => \A r \in old : request[r].binding.tool = step.key.tool => ~LiveGrant(r)

NewRowInv ==
  pc \in Asking /\ step.kind = "consequential" =>
    LET row == newest[step.key.tool]
    IN row.n # before /\ row.why \in ReqIds => row.why \notin old

StepInv == MarkInv /\ OldInv /\ NewRowInv

ReportedInv ==
  \A x \in reported :
    /\ x.row.n > x.before /\ x.row.decision = "allowed" /\ x.row.key.tool = x.key.tool
    /\ x.kind = "bounded" => x.row.key \in Bounds
    /\ x.kind # "bounded" =>
         /\ x.row.why \in ReqIds /\ request[x.row.why].status = "approved"
         /\ x.row.why \notin x.old

-----------------------------------------------------------------------------
LEMMA Numbered ==
  ASSUME PlaneTypes, NEW t \in Tools
  PROVE  newest[t].n \in Nat /\ rows \in Nat
<1>1. newest[t] \in Row
  BY DEF PlaneTypes
<1>2. newest[t].n \in Nat
  BY <1>1 DEF Row
<1>3. rows \in Nat
  <2>1. MaxRows \in Nat
    BY WorkflowAssumption
  <2>2. rows \in 0..MaxRows
    BY DEF PlaneTypes
  <2> QED
    BY <2>1, <2>2
<1> QED
  BY <1>2, <1>3

\* A call adds the newest row of its tool, by whom it was let in.
LEMMA CallRows ==
  ASSUME PlaneTypes, NEW k \in Keys, NEW mine \in BOOLEAN, Call(k, mine)
  PROVE  /\ k.tool \in Tools /\ order' = order
         /\ \A t \in Tools : t # k.tool => newest'[t] = newest[t]
         /\ newest'[k.tool].n = rows + 1 /\ newest'[k.tool].key = k /\ rows' = rows + 1
         /\ newest'[k.tool].why = "constraint" => k \in Bounds
         /\ newest'[k.tool].why \in ReqIds =>
              /\ LiveGrant(newest'[k.tool].why) /\ UNCHANGED request
              /\ request[newest'[k.tool].why].binding.tool = k.tool
         /\ \A r \in ReqIds : request'[r] = request[r] \/ request'[r].status = "pending"
<1>1. k.tool \in Tools /\ order' = order
  BY DEF Tools, Call
<1>2. BindingOf(k, table) \in Bindings /\ BindingOf(k, table).tool = k.tool
  BY BindingKinds DEF PlaneTypes, BindingOf
<1>3. ASSUME NEW decision, NEW why, Recorded(k, decision, why, mine)
      PROVE  /\ \A t \in Tools : t # k.tool => newest'[t] = newest[t]
             /\ newest'[k.tool].n = rows + 1 /\ newest'[k.tool].key = k /\ rows' = rows + 1
             /\ newest'[k.tool].why = why
  BY <1>1, <1>3 DEF Recorded, PlaneTypes
<1>4. CASE Standing(k) # "" /\ Recorded(k, "allowed", Standing(k), mine) /\ UNCHANGED <<request, left>>
  <2>1. /\ Standing(k) = "constraint" => k \in Bounds
        /\ Standing(k) \in {"constraint", "allowlist"}
    BY <1>4 DEF Standing
  <2>2. Standing(k) \notin ReqIds
    BY <2>1, WorkflowAssumption
  <2> QED
    BY <1>1, <1>3, <1>4, <2>1, <2>2
<1>5. ASSUME NEW r \in Usable(k), Recorded(k, "allowed", r, mine), UNCHANGED request
      PROVE  /\ \A t \in Tools : t # k.tool => newest'[t] = newest[t]
             /\ newest'[k.tool].n = rows + 1 /\ newest'[k.tool].key = k /\ rows' = rows + 1
             /\ newest'[k.tool].why = r /\ r \in ReqIds /\ LiveGrant(r) /\ r # "constraint"
             /\ request[r].binding.tool = k.tool
  <2>1. r \in ReqIds /\ LiveGrant(r) /\ request[r].binding = BindingOf(k, table)
    BY <1>5 DEF Usable
  <2>2. r # "constraint"
    BY <2>1, WorkflowAssumption
  <2> QED
    BY <1>2, <1>3, <1>5, <2>1, <2>2
<1>6. CASE Recorded(k, "denied", "", mine) /\ request' \in {request, Filed(BindingOf(k, table))}
  <2>1. \A r \in ReqIds : request'[r] = request[r] \/ request'[r].status = "pending"
    BY <1>2, <1>6, Filing
  <2>2. "" \notin ReqIds
    BY WorkflowAssumption
  <2>3. /\ \A t \in Tools : t # k.tool => newest'[t] = newest[t]
        /\ newest'[k.tool].n = rows + 1 /\ newest'[k.tool].key = k /\ rows' = rows + 1
        /\ newest'[k.tool].why = ""
    BY <1>3, <1>6
  <2>4. newest'[k.tool].why # "constraint" /\ newest'[k.tool].why \notin ReqIds
    BY <2>2, <2>3
  <2> QED
    BY <1>1, <2>1, <2>3, <2>4
<1>7. \/ Standing(k) # "" /\ Recorded(k, "allowed", Standing(k), mine) /\ UNCHANGED <<request, left>>
      \/ \E r \in Usable(k) : Recorded(k, "allowed", r, mine) /\ UNCHANGED request
      \/ Recorded(k, "denied", "", mine) /\ request' \in {request, Filed(BindingOf(k, table))}
  BY DEF Call
<1> QED
  BY <1>1, <1>4, <1>5, <1>6, <1>7

\* A decision adds a grant to the list, and nothing to the record.
LEMMA DecidesRows ==
  ASSUME PlaneTypes, Decides
  PROVE  /\ UNCHANGED <<newest, rows>>
         /\ ListInv => ListInv'
<1>1. ASSUME NEW r \in ReqIds, DenyRequest(r)
      PROVE  UNCHANGED <<newest, rows>> /\ (ListInv => ListInv')
  <2>1. \A q \in ReqIds : request'[q].status = "approved" => request[q].status = "approved"
    <3>1. /\ \A q \in ReqIds : q # r => request'[q] = request[q]
          /\ request'[r].status = "denied"
      BY <1>1 DEF DenyRequest, PlaneTypes, RequestRow
    <3> QED
      BY <3>1
  <2> QED
    BY <1>1, <2>1 DEF DenyRequest, ListInv
<1>2. ASSUME NEW r \in ReqIds, Lapse(r)
      PROVE  UNCHANGED <<newest, rows>> /\ (ListInv => ListInv')
  BY <1>2 DEF Lapse, ListInv
<1>3. ASSUME NEW r \in ReqIds, NEW who \in People, Approve(r, who)
      PROVE  UNCHANGED <<newest, rows>> /\ (ListInv => ListInv')
  <2>1. \A q \in ReqIds : q # r => request'[q] = request[q]
    BY <1>3 DEF Approve, PlaneTypes
  <2>2. order' = Append(order, r) /\ order \in Seq(ReqIds)
    BY <1>3 DEF Approve, PlaneTypes
  <2>3. /\ DOMAIN order' = 1..(Len(order) + 1) /\ DOMAIN order = 1..Len(order) /\ Len(order) \in Nat
        /\ order'[Len(order) + 1] = r /\ \A i \in DOMAIN order : order'[i] = order[i]
    BY <2>2
  <2>4. Len(order) + 1 \in DOMAIN order' /\ DOMAIN order \subseteq DOMAIN order'
    BY <2>3
  <2>5. ASSUME ListInv, NEW q \in ReqIds, request'[q].status = "approved"
        PROVE  \E i \in DOMAIN order' : order'[i] = q
    BY <2>1, <2>3, <2>4, <2>5 DEF ListInv
  <2>6. ListInv => ListInv'
    BY <2>5 DEF ListInv
  <2> QED
    BY <1>3, <2>6 DEF Approve
<1>4. CASE RollTable
  BY <1>4 DEF RollTable, ListInv
<1> QED
  BY <1>1, <1>2, <1>3, <1>4 DEF Decides

LEMMA RecordKept ==
  ASSUME PlaneTypes, RecordInv, Keep, UNCHANGED <<newest, rows>>
  PROVE  RecordInv'
BY DEF RecordInv, Keep

LEMMA CallRecords ==
  ASSUME PlaneTypes, RecordInv, ListInv, Keep, NEW k \in Keys, NEW mine \in BOOLEAN, Call(k, mine)
  PROVE  RecordInv' /\ ListInv'
<1>1. RecordInv'
  <2> SUFFICES ASSUME NEW t \in Tools
               PROVE  /\ newest'[t].n <= rows'
                      /\ newest'[t].n > 0 => newest'[t].key.tool = t
                      /\ newest'[t].why = "constraint" => newest'[t].key \in Bounds
                      /\ newest'[t].why \in ReqIds => request'[newest'[t].why].status = "approved"
    BY DEF RecordInv
  <2>0. rows \in Nat /\ rows' = rows + 1 /\ newest[t].n \in Nat
    <3>1. rows' = rows + 1
      BY CallRows
    <3> QED
      BY <3>1, Numbered
  <2>1. CASE t = k.tool
    <3>1. newest'[t].why \in ReqIds => request'[newest'[t].why].status = "approved"
      <4> SUFFICES ASSUME newest'[k.tool].why \in ReqIds
                   PROVE  request'[newest'[k.tool].why].status = "approved"
        BY <2>1
      <4>1. LiveGrant(newest'[k.tool].why) /\ request' = request
        BY CallRows
      <4> QED
        BY <4>1 DEF LiveGrant
    <3>2. newest'[t].n = rows + 1 /\ newest'[t].key = k
      BY <2>1, CallRows
    <3>3. newest'[t].why = "constraint" => k \in Bounds
      BY <2>1, CallRows
    <3> QED
      BY <2>0, <2>1, <3>1, <3>2, <3>3
  <2>2. CASE t # k.tool
    <3>1. newest'[t] = newest[t]
      BY <2>2, CallRows
    <3>2. newest[t].n <= rows /\ (newest[t].n > 0 => newest[t].key.tool = t)
      BY DEF RecordInv
    <3>3. newest'[t].n <= rows'
      BY <2>0, <3>1, <3>2
    <3> QED
      BY <3>1, <3>2, <3>3 DEF RecordInv, Keep
  <2> QED
    BY <2>1, <2>2
<1>2. ListInv'
  BY CallRows DEF ListInv
<1> QED
  BY <1>1, <1>2

\* The plane's record while the driver works.
LEMMA RecordNext ==
  ASSUME WorkTypes, ApprovalInv, RecordInv, ListInv, Keep, [Next]_vars
  PROVE  RecordInv' /\ ListInv'
<1>0. PlaneTypes
  BY DEF WorkTypes
<1>1. CASE UNCHANGED plane
  BY <1>0, <1>1, RecordKept DEF plane, ListInv
<1>2. CASE FileRequest /\ UNCHANGED <<left, lapsed, order, newest, rows, table>>
  <2>1. step.key \in Keys
    BY <1>2, StepHere DEF FileRequest, ApprovalInv, OnTrack, Seeking, Governs, WorkTypes, DriverTypes
  <2>2. BindingOf(step.key, table) \in Bindings
    BY <1>0, <2>1, BindingKinds DEF PlaneTypes
  <2>3. \A r \in ReqIds : request'[r] = request[r] \/ request'[r].status = "pending"
    BY <1>0, <1>2, <2>2, Filing DEF FileRequest
  <2>4. ListInv'
    BY <1>2, <2>3 DEF ListInv
  <2> QED
    BY <1>0, <1>2, <2>4, RecordKept
<1>3. ASSUME NEW k \in Keys, AgentCalls(k) \/ OtherCall(k) PROVE RecordInv' /\ ListInv'
  BY <1>0, <1>3, CallRecords DEF AgentCalls, OtherCall
<1>4. CASE Decides
  BY <1>0, <1>4, DecidesRows, RecordKept
<1>5. CASE UNCHANGED vars
  BY <1>1, <1>5 DEF vars
<1> QED
  BY <1>1, <1>2, <1>3, <1>4, <1>5, PlaneAlone DEF Next, OwnSteps, Others, Decides

-----------------------------------------------------------------------------
(* The step at hand. *)

LEMMA OldKept ==
  ASSUME OldInv, Keep, UNCHANGED old, step' = step, Looked' => Looked, old \subseteq ReqIds
  PROVE  OldInv'
<1>1. \A r \in old : r \in ReqIds /\ request'[r] = request[r] /\ (~LiveGrant(r) => ~LiveGrant(r)')
  BY DEF OldInv, Keep
<1> QED
  BY <1>1 DEF OldInv

\* A call beside the driver's: its row is newer than the mark, and none of the
\* old approvals let it in.
LEMMA CallBeside ==
  ASSUME WorkTypes, ApprovalInv, RecordInv, StepInv, Elsewhere,
         NEW k \in Keys, NEW mine \in BOOLEAN, Call(k, mine)
  PROVE  StepInv'
<1>0. /\ PlaneTypes /\ Keep /\ UNCHANGED <<pc, before, old>> /\ step' = step /\ old \subseteq ReqIds
      /\ at \in DOMAIN Steps
  BY CallKeeps DEF WorkTypes, DriverTypes, Elsewhere, driver, step
<1>1. OldInv'
  BY <1>0, OldKept DEF StepInv, Looked
<1>2. Governs => step.key.tool \in Tools
  BY <1>0, StepHere
<1>3. \A t \in Tools : newest[t].n \in Nat /\ newest'[t].n >= newest[t].n
  <2> SUFFICES ASSUME NEW t \in Tools PROVE newest[t].n \in Nat /\ newest'[t].n >= newest[t].n
    OBVIOUS
  <2>1. newest[t].n \in Nat /\ rows \in Nat /\ newest[t].n <= rows
    BY <1>0, Numbered DEF RecordInv
  <2>2. newest'[t] = newest[t] \/ newest'[t].n = rows + 1
    BY <1>0, CallRows
  <2> QED
    BY <2>1, <2>2
<1>4. MarkInv'
  <2> SUFFICES ASSUME pc \in Asking, Governs PROVE before <= newest'[step.key.tool].n
    BY <1>0 DEF MarkInv, Governs
  <2>1. before <= newest[step.key.tool].n /\ before \in Nat
    BY DEF StepInv, MarkInv, WorkTypes, DriverTypes
  <2>2. newest'[step.key.tool].n >= newest[step.key.tool].n /\ newest[step.key.tool].n \in Nat
    BY <1>2, <1>3
  <2>3. newest'[step.key.tool].n \in Nat
    <3>1. rows + 1 \in Nat
      BY <1>0, <1>2, Numbered
    <3> QED
      BY <1>0, <1>2, <2>2, <3>1, CallRows
  <2> QED
    BY <2>1, <2>2, <2>3
<1>5. NewRowInv'
  <2> SUFFICES ASSUME pc \in Asking, step.kind = "consequential",
                      newest'[step.key.tool].n # before, newest'[step.key.tool].why \in ReqIds
               PROVE  newest'[step.key.tool].why \notin old
    BY <1>0 DEF NewRowInv
  <2>0. step.key.tool \in Tools
    BY <1>2 DEF Governs
  <2>1. CASE step.key.tool # k.tool
    <3>1. newest'[step.key.tool] = newest[step.key.tool]
      BY <1>0, <2>0, <2>1, CallRows
    <3> QED
      BY <3>1 DEF StepInv, NewRowInv
  <2>2. CASE step.key.tool = k.tool
    <3>1. /\ LiveGrant(newest'[k.tool].why) /\ newest'[k.tool].why \in ReqIds
          /\ request[newest'[k.tool].why].binding.tool = k.tool
      BY <1>0, <2>2, CallRows
    <3>2. \A r \in old : request[r].binding.tool = k.tool => ~LiveGrant(r)
      BY <2>2 DEF StepInv, OldInv, Looked
    <3> QED
      BY <2>2, <3>1, <3>2
  <2> QED
    BY <2>1, <2>2
<1> QED
  BY <1>1, <1>4, <1>5 DEF StepInv

\* A step that leaves the record alone and stays where the mark and what was
\* looked at are the same.
LEMMA Onward ==
  ASSUME StepInv, Keep, old \subseteq ReqIds,
         UNCHANGED <<newest, old, before>>, step' = step,
         Looked' => Looked, pc' \in Asking => pc \in Asking \/ ~Governs
  PROVE  StepInv'
<1>1. OldInv'
  BY OldKept DEF StepInv
<1>2. MarkInv'
  BY DEF StepInv, MarkInv, Governs
<1>3. NewRowInv'
  BY DEF StepInv, NewRowInv, Governs
<1> QED
  BY <1>1, <1>2, <1>3 DEF StepInv

LEMMA BetweenSteps ==
  ASSUME StepInv, Keep, old \subseteq ReqIds, old' \in {old, {}}, Between'
  PROVE  StepInv'
<1>1. \A r \in old' : request'[r].status = "approved"
  BY DEF StepInv, OldInv, Keep
<1>2. ~Looked' /\ pc' \notin Asking
  BY DEF Between, Looked, Seeking, Asking
<1> QED
  BY <1>1, <1>2 DEF StepInv, OldInv, MarkInv, NewRowInv

\* The look: as long as the view shows every grant, one that is live stops it.
LEMMA LookedWell ==
  ASSUME WorkTypes, ListInv, Len(order) <= Page, Look
  PROVE  StepInv'
<1>1. /\ \A r \in Shown : request[r].binding.tool = step.key.tool => ~LiveGrant(r)
      /\ old' = {r \in ReqIds : request[r].status = "approved"}
      /\ pc' \in {"preview", "file"} /\ UNCHANGED <<at, plane>>
  BY DEF Look
<1>2. ASSUME NEW r \in ReqIds, request[r].status = "approved" PROVE r \in Shown
  <2>1. PICK i \in DOMAIN order : order[i] = r
    BY <1>2 DEF ListInv
  <2>2. DOMAIN order = 1..Len(order) /\ Len(order) \in Nat
    BY DEF WorkTypes, PlaneTypes
  <2>3. Page \in Nat
    BY WorkflowAssumption
  <2>4. i + Page > Len(order)
    BY <2>2, <2>3
  <2> QED
    BY <2>1, <2>4 DEF Shown
<1>3. step' = step /\ UNCHANGED <<request, left, lapsed>>
  BY <1>1 DEF step, plane
<1>4. \A r \in old' : request[r].binding.tool = step.key.tool => ~LiveGrant(r)
  BY <1>1, <1>2
<1>5. OldInv'
  BY <1>1, <1>3, <1>4 DEF OldInv, LiveGrant
<1> QED
  BY <1>1, <1>5 DEF StepInv, MarkInv, NewRowInv, Asking

LEMMA StepOwn ==
  ASSUME WorkTypes, ApprovalInv, ListInv, StepInv, Keep, Len(order) <= Page, OwnSteps
  PROVE  StepInv'
<1>0. OnTrack /\ old \subseteq ReqIds /\ at \in DOMAIN Steps
  BY DEF ApprovalInv, WorkTypes, DriverTypes
<1>1. ASSUME Stops PROVE StepInv'
  BY <1>0, <1>1, Exiting, BetweenSteps DEF Stops, Between
<1>2. CASE Begin \/ Restart
  BY <1>0, <1>2, BetweenSteps DEF Begin, Restart, Between
<1>3. CASE StartStep
  <2>1. ASSUME pc' \in {"ask", "mark", "look"}, UNCHANGED <<at, driver, plane>>,
               pc' = "ask" => ~Governs, pc' = "mark" => step.kind = "bounded"
        PROVE  StepInv'
    <3>1. UNCHANGED <<newest, old, before>> /\ step' = step
      BY <2>1 DEF driver, plane, step
    <3>2. ~Looked'
      BY <2>1, <3>1 DEF Looked, Seeking, Asking, Governs
    <3>3. pc' \in Asking => ~Governs
      BY <2>1 DEF Asking
    <3> QED
      BY <1>0, <3>1, <3>2, <3>3, Onward
  <2>2. CASE step.kind = "turn"
    BY <1>3, <2>1, <2>2 DEF StartStep, Goes, Governs
  <2>3. CASE step.kind = "poll"
    BY <1>3, <2>1, <2>3 DEF StartStep, Goes, Governs, driver
  <2>4. CASE step.kind = "bounded"
    BY <1>1, <1>3, <2>1, <2>4 DEF StartStep, Goes, Governs
  <2>5. CASE step.kind = "consequential"
    BY <1>1, <1>3, <2>1, <2>5 DEF StartStep, Goes, Governs
  <2> QED
    BY <1>0, <2>2, <2>3, <2>4, <2>5, StepHere DEF Kinds
<1>4. ASSUME UNCHANGED <<at, newest, old, before>>,
             Looked' => Looked, pc' \in Asking => pc \in Asking \/ ~Governs
      PROVE  StepInv'
  <2>1. step' = step
    BY <1>4 DEF step
  <2> QED
    BY <1>0, <1>4, <2>1, Onward
<1>5. CASE Ask \/ TurnOver
  <2>1. pc \in Asking /\ pc' \in Asking /\ UNCHANGED <<at, newest, old, before>> /\ step' = step
    BY <1>5 DEF Ask, TurnOver, TurnFailed, Goes, Asking, driver, plane, step
  <2> QED
    BY <1>4, <2>1 DEF Looked, Seeking, Asking
<1>6. CASE Replies \/ PollDone
  <2>1. PICK text : Advances(text)
    BY <1>6 DEF Replies, PollDone
  <2> QED
    BY <1>0, <2>1, Advancing, BetweenSteps
<1>7. CASE PollFailed
  BY <1>4, <1>7 DEF PollFailed, Asking, Looked, Seeking, driver, plane
<1>8. CASE PollAgain
  <2>1. CASE pc' = "ask" /\ UNCHANGED <<at, driver, plane>>
    <3>1. ~Governs /\ UNCHANGED <<newest, old, before>> /\ step' = step
      BY <1>8, <2>1 DEF PollAgain, Governs, driver, plane, step
    <3> QED
      BY <1>4, <2>1, <3>1 DEF Looked, Seeking, Governs
  <2> QED
    BY <1>1, <1>8, <2>1 DEF PollAgain
<1>9. CASE Look
  BY <1>9, LookedWell
<1>10. CASE Preview \/ FileRequest \/ Find \/ StillPending \/ Decided
  <2>1. /\ pc \in Seeking \ {"look"} /\ pc' \in Seeking \ {"look"}
        /\ UNCHANGED <<at, newest, old, before>>
    BY <1>10 DEF Preview, FileRequest, Find, StillPending, Decided, Goes, Seeking, driver, plane
  <2> QED
    BY <1>4, <2>1 DEF Looked, Asking, Seeking
<1>11. CASE Confirm
  <2>1. pc = "confirm" /\ pc' = "mark" /\ UNCHANGED <<at, newest, old, before>>
    BY <1>11 DEF Confirm, Goes, driver, plane
  <2> QED
    BY <1>4, <2>1 DEF Looked, Asking, Seeking
<1>12. CASE Mark
  <2>1. /\ pc = "mark" /\ before' = newest[step.key.tool].n /\ UNCHANGED <<at, old, plane>>
        /\ pc' = (IF step.exec THEN "exec" ELSE "ask")
    BY <1>12 DEF Mark
  <2>2. step' = step /\ newest' = newest
    BY <2>1 DEF step, plane
  <2>3. OldInv'
    BY <1>0, <2>1, <2>2, OldKept DEF StepInv, Looked, Asking, Seeking
  <2>4. before' \in Nat
    <3>1. step.key.tool \in Tools
      BY <1>0, <1>12, StepHere DEF Mark, OnTrack
    <3> QED
      BY <2>1, <3>1, Numbered DEF WorkTypes
  <2> QED
    BY <2>1, <2>2, <2>3, <2>4 DEF StepInv, MarkInv, NewRowInv
<1>13. CASE Exec \/ Verify
  <2>1. Exits \/ Advances(captured)
    BY <1>13 DEF Exec, Verify, Reports
  <2> QED
    BY <1>0, <2>1, Exiting, Advancing, BetweenSteps DEF Between
<1>14. CASE Refuse \/ RefreshFails \/ TurnLost \/ LogRead \/ StopsLooking \/ NobodyDecided
            \/ NotConfirmed \/ NotVerified \/ StepFails \/ Interrupt
  BY <1>1, <1>14 DEF Refuse, RefreshFails, TurnLost, LogRead, StopsLooking, NobodyDecided,
                     NotConfirmed, NotVerified, StepFails, Interrupt
<1> QED
  BY <1>2, <1>3, <1>5, <1>6, <1>7, <1>8, <1>9, <1>10, <1>11, <1>12, <1>13, <1>14
     DEF OwnSteps, Drive, Turn, Govern

LEMMA ReportKept == ASSUME ReportedInv, Keep, UNCHANGED reported PROVE ReportedInv'
BY DEF ReportedInv, Keep

LEMMA ReportStep ==
  ASSUME WorkTypes, ApprovalInv, RecordInv, StepInv, ReportedInv, Verify
  PROVE  ReportedInv'
<1> DEFINE row == newest[step.key.tool]
           new == [kind |-> step.kind, key |-> step.key, row |-> row, req |-> req, before |-> before, old |-> old]
<1>1. /\ pc = "verify" /\ row.n # before /\ row.decision = "allowed"
      /\ IF step.kind = "bounded" THEN row.why = "constraint" ELSE row.why \in ReqIds
      /\ reported' = reported \cup {new} /\ UNCHANGED plane
  BY DEF Verify, Reports
<1>2. Governs /\ pc \in Asking /\ step.key.tool \in Tools
  BY <1>1, StepHere DEF ApprovalInv, OnTrack, Asking, WorkTypes, DriverTypes
<1>3. row.n \in Nat /\ before \in Nat /\ before <= row.n
  BY <1>2, Numbered DEF WorkTypes, DriverTypes, StepInv, MarkInv
<1>4. row.n > before /\ row.n > 0
  BY <1>1, <1>3
<1>5. row.key.tool = step.key.tool
  BY <1>2, <1>4 DEF RecordInv
<1>6. step.kind = "bounded" => row.key \in Bounds
  BY <1>1, <1>2 DEF RecordInv
<1>7. step.kind # "bounded" => row.why \in ReqIds /\ request[row.why].status = "approved" /\ row.why \notin old
  BY <1>1, <1>2 DEF RecordInv, StepInv, NewRowInv, Governs
<1>8. request' = request
  BY <1>1 DEF plane
<1>9. /\ new.row = row /\ new.before = before /\ new.key = step.key /\ new.kind = step.kind /\ new.old = old
  OBVIOUS
<1> HIDE DEF new, row
<1>10. /\ new.row.n > new.before /\ new.row.decision = "allowed" /\ new.row.key.tool = new.key.tool
       /\ new.kind = "bounded" => new.row.key \in Bounds
       /\ new.kind # "bounded" =>
            new.row.why \in ReqIds /\ request[new.row.why].status = "approved" /\ new.row.why \notin new.old
  BY <1>1, <1>4, <1>5, <1>6, <1>7, <1>9
<1> QED
  BY <1>1, <1>8, <1>10 DEF ReportedInv

\* The plane's record is what the driver takes it for.
LEMMA RecordSafe == Spec => [](RecordInv /\ ListInv)
<1>1. Init => RecordInv /\ ListInv
  <2> SUFFICES ASSUME Init PROVE RecordInv /\ ListInv
    OBVIOUS
  <2>1. \A t \in Tools : newest[t] = NoRow
    BY DEF Init
  <2>2. "" \notin ReqIds
    BY WorkflowAssumption
  <2>0. rows = 0
    BY DEF Init
  <2>5. NoRow.n = 0 /\ NoRow.why = ""
    BY DEF NoRow
  <2>3. RecordInv
    <3> SUFFICES ASSUME NEW t \in Tools
                 PROVE  /\ newest[t].n <= rows
                        /\ newest[t].n > 0 => newest[t].key.tool = t
                        /\ newest[t].why = "constraint" => newest[t].key \in Bounds
                        /\ newest[t].why \in ReqIds => request[newest[t].why].status = "approved"
      BY DEF RecordInv
    <3>1. newest[t].n = 0 /\ newest[t].why = ""
      BY <2>1, <2>5
    <3>2. newest[t].n <= rows /\ ~(newest[t].n > 0)
      <4>1. 0 <= 0 /\ ~(0 > 0)
        OBVIOUS
      <4>2. rows = 0 /\ newest[t].n = 0
        BY <2>0, <3>1
      <4> QED
        BY ONLY <4>1, <4>2, Zenon
    <3>3. newest[t].why # "constraint" /\ newest[t].why \notin ReqIds
      BY <2>2, <3>1
    <3> QED
      BY <3>2, <3>3
  <2>4. ListInv
    <3>1. CASE request = [r \in ReqIds |-> NoRequest]
      BY <3>1 DEF ListInv, NoRequest
    <3>2. CASE request # [r \in ReqIds |-> NoRequest]
      <4> DEFINE r == CHOOSE r \in ReqIds : TRUE
      <4>1. /\ \E k \in Keys, who \in People : request = [q \in ReqIds |->
                 IF q = r THEN [binding |-> k, status |-> "approved", by |-> who] ELSE NoRequest]
            /\ order = <<r>>
        BY <3>2 DEF Init
      <4> HIDE DEF r
      <4>2. \A q \in ReqIds : q # r => request[q].status = "none"
        BY <4>1 DEF NoRequest
      <4>3. 1 \in DOMAIN order /\ order[1] = r
        BY <4>1
      <4> QED
        BY <4>2, <4>3 DEF ListInv
    <3> QED
      BY <3>1, <3>2
  <2> QED
    BY <2>3, <2>4
<1> QED
  BY <1>1, RecordNext, WorkNext, WorkSafe, PTL DEF Spec

\* A call is reported done only on a row that a call of it left after the mark,
\* and let in by a bound, or by an approval that was not live when the step
\* looked: as long as the grants fit the page the view shows (verify).
THEOREM ReportsTheRecord == Spec /\ [](Len(order) <= Page) => []ReportedWasRecorded
<1>1. Init => StepInv /\ ReportedInv
  BY DEF Init, StepInv, MarkInv, OldInv, NewRowInv, ReportedInv, Looked, Seeking, Asking
<1>2. ASSUME WorkTypes, ApprovalInv, RecordInv, ListInv, StepInv, ReportedInv, Len(order) <= Page, [Next]_vars
      PROVE  StepInv' /\ ReportedInv'
  <2>0. Keep /\ old \subseteq ReqIds
    BY <1>2, WorkNext DEF WorkTypes, DriverTypes
  <2>1. CASE OwnSteps
    <3>1. StepInv'
      BY <1>2, <2>0, <2>1, StepOwn
    <3>2. CASE Verify
      BY <1>2, <3>1, <3>2, ReportStep
    <3>3. CASE UNCHANGED history \/ Exec
      BY <1>2, <2>0, <3>1, <3>3, ReportKept DEF history, Exec
    <3> QED
      BY <2>1, <3>2, <3>3, HistoryKept
  <2>2. ASSUME NEW k \in Keys, AgentCalls(k) \/ OtherCall(k) PROVE StepInv' /\ ReportedInv'
    <3>1. Elsewhere
      BY <2>2 DEF AgentCalls, OtherCall, rest, Elsewhere
    <3>2. StepInv'
      BY <1>2, <2>2, <3>1, CallBeside DEF AgentCalls, OtherCall
    <3> QED
      BY <1>2, <2>0, <3>1, <3>2, ReportKept DEF Elsewhere, history
  <2>3. CASE Decides \/ UNCHANGED vars
    <3>1. Elsewhere
      BY <1>2, <2>3, BesideTypes DEF Others, Decides, vars, Elsewhere
    <3>2. newest' = newest
      BY <1>2, <2>3, DecidesRows DEF WorkTypes, vars, plane
    <3>3. UNCHANGED <<newest, old, before, pc>> /\ step' = step
      BY <3>1, <3>2 DEF Elsewhere, driver, step
    <3>4. Looked' => Looked
      BY <3>3 DEF Looked
    <3>5. StepInv'
      BY <1>2, <2>0, <3>3, <3>4, Onward
    <3> QED
      BY <1>2, <2>0, <3>1, <3>5, ReportKept DEF Elsewhere, history
  <2> QED
    BY <1>2, <2>1, <2>2, <2>3 DEF Next, OwnSteps, Others, Decides
<1>3. ReportedInv => ReportedWasRecorded
  BY DEF ReportedInv, ReportedWasRecorded
<1> QED
  BY <1>1, <1>2, <1>3, WorkSafe, RecordSafe, PTL DEF Spec
==============================================================================

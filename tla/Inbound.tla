------------------------------ MODULE Inbound -------------------------------
(***************************************************************************)
(* The inbound bridge of one hook: how a delivered event is admitted and   *)
(* how its agent is run.                                                   *)
(*                                                                         *)
(* A delivery may be sent any number of times, to any replica, at once     *)
(* (Attempts are the requests in progress).  A replica takes a slot, then  *)
(* one Postgres transaction inserts the admitted row, whose unique index   *)
(* is the replay guard, and takes a use of a grant; the event is queued,   *)
(* and a worker opens its runs, invokes the agent and records the outcome. *)
(* Any statement may fail, before its effect or after it, and a replica    *)
(* may stop or die between any two steps.                                  *)
(***************************************************************************)
EXTENDS Integers, FiniteSets, SequencesExt

CONSTANTS
  Deliveries, Attempts, Replicas, Workers,
  On,           \* the replica each worker belongs to
  Creds,        \* what the agent authenticates with, in the order of its runs
  QueueSize,
  MaxLeft,      \* bound on the uses that may be left at once
  None

ASSUME InboundAssumption ==
  /\ IsFiniteSet(Attempts) /\ IsFiniteSet(Workers)
  /\ On \in [Workers -> Replicas]
  /\ Creds # << >>
  /\ QueueSize \in Nat \ {0}
  /\ MaxLeft \in Nat
  /\ None \notin Deliveries \cup Replicas \cup Attempts

VARIABLES
  pc, of, at,     \* each attempt: where it is, its delivery, its replica
  \* The store:
  inserting,      \* the open transaction that holds a delivery's index entry
  admitted,       \* deliveries with an 'admitted' row
  left,           \* uses left of the hook's grants
  asked,          \* is the hook's approval request pending?
  runs,           \* open rows of agent_run: <<delivery, credential>>
  outcomes,       \* 'completed' and 'failed' rows of each delivery
  \* Each replica:
  slots,          \* Bridge.slots, as a count
  jobs,           \* Bridge.jobs
  degraded,       \* Bridge.auditDegraded
  stopping,       \* is the listener closed and the workers' context done?
  wpc, on,        \* each worker: where it is, the delivery it is on
  \* History, read by no action:
  turns,          \* calls made to the agent for each delivery
  stray           \* runs whose opening or closing the store answered with an error

attempts == <<pc, of, at>>
tables   == <<inserting, admitted, left, asked>>
queue    == <<slots, jobs>>
workers  == <<wpc, on>>
trail    == <<runs, outcomes, turns, stray>>
control  == <<degraded, stopping>>
vars     == <<attempts, tables, queue, workers, trail, control>>

Holding == {"admitting", "inserted", "admitted"}
Phases  == {"idle", "door", "filing", "auditing"} \cup Holding
Turn    == {"opening", "invoking", "recording", "refusing", "closing", "returning"}

-----------------------------------------------------------------------------
Init ==
  /\ pc = [a \in Attempts |-> "idle"]
  /\ of = [a \in Attempts |-> None]
  /\ at = [a \in Attempts |-> None]
  /\ inserting = [d \in Deliveries |-> None]
  /\ admitted = {}
  /\ left \in 0..MaxLeft
  /\ asked = FALSE
  /\ runs = {}
  /\ outcomes = [d \in Deliveries |-> 0]
  /\ slots = [p \in Replicas |-> 0]
  /\ jobs = [p \in Replicas |-> << >>]
  /\ degraded = [p \in Replicas |-> FALSE]
  /\ stopping = [p \in Replicas |-> FALSE]
  /\ wpc = [w \in Workers |-> "idle"]
  /\ on = [w \in Workers |-> None]
  /\ turns = [d \in Deliveries |-> 0]
  /\ stray = {}

MoveTo(a, p) == pc' = [pc EXCEPT ![a] = p] /\ UNCHANGED <<of, at>>

\* Refused or acknowledged: what is left is the row, whatever the delivery was.
Refuse(a) ==
  /\ pc' = [pc EXCEPT ![a] = "auditing"]
  /\ of' = [of EXCEPT ![a] = None]
  /\ UNCHANGED at

Answer(a) ==
  /\ pc' = [pc EXCEPT ![a] = "idle"]
  /\ of' = [of EXCEPT ![a] = None]
  /\ at' = [at EXCEPT ![a] = None]

Release(p) == slots' = [slots EXCEPT ![p] = @ - 1] /\ UNCHANGED jobs

(* Bridge.receive *)

\* Past the token bucket; a replica that cannot record denies everything.
Arrive(a, d, p) ==
  /\ pc[a] = "idle"
  /\ ~stopping[p]
  /\ pc' = [pc EXCEPT ![a] = IF degraded[p] THEN "auditing" ELSE "door"]
  /\ of' = [of EXCEPT ![a] = IF degraded[p] THEN None ELSE d]
  /\ at' = [at EXCEPT ![a] = p]
  /\ UNCHANGED <<tables, queue, workers, trail, control>>

\* Not authentic, not for this hook or this channel, or its target may not
\* spend; or a challenge, or an event that is not a trigger.
TurnAway(a) ==
  /\ pc[a] = "door"
  /\ Refuse(a)
  /\ UNCHANGED <<tables, queue, workers, trail, control>>

\* The pending request is approved, with some uses, or denied (Approvals).
Decide ==
  /\ asked
  /\ asked' = FALSE
  /\ left' \in left..MaxLeft
  /\ UNCHANGED <<inserting, admitted>>

\* An approver's command in Slack, or one that decides nothing.
HandleCommand(a) ==
  /\ pc[a] = "door"
  /\ Decide \/ UNCHANGED tables
  /\ Refuse(a)
  /\ UNCHANGED <<queue, workers, trail, control>>

\* Capacity first: a full queue denies before anything is admitted.
TakeSlot(a) ==
  /\ pc[a] = "door"
  /\ \/ /\ slots[at[a]] < QueueSize
        /\ slots' = [slots EXCEPT ![at[a]] = @ + 1]
        /\ MoveTo(a, "admitting")
     \/ /\ slots[at[a]] = QueueSize
        /\ Refuse(a)
        /\ UNCHANGED slots
  /\ UNCHANGED <<jobs, tables, workers, trail, control>>

\* Fault: no index on the admitted rows.
InsertUnindexed(a) ==
  /\ pc[a] = "admitting"
  /\ inserting[of[a]] = None
  /\ inserting' = [inserting EXCEPT ![of[a]] = a]
  /\ MoveTo(a, "inserted")
  /\ UNCHANGED <<admitted, left, asked, queue, workers, trail, control>>

\* The insert waits for an open transaction that holds the same entry.
Insert(a) ==
  /\ pc[a] = "admitting"
  /\ inserting[of[a]] = None
  /\ of[a] \notin admitted
  /\ inserting' = [inserting EXCEPT ![of[a]] = a]
  /\ MoveTo(a, "inserted")
  /\ UNCHANGED <<admitted, left, asked, queue, workers, trail, control>>

\* Fault: a replay keeps its slot.
ReplayKeepingSlot(a) ==
  /\ pc[a] = "admitting"
  /\ of[a] \in admitted
  /\ Refuse(a)
  /\ UNCHANGED <<queue, tables, workers, trail, control>>

Replay(a) ==
  /\ pc[a] = "admitting"
  /\ of[a] \in admitted
  /\ Release(at[a])
  /\ Refuse(a)
  /\ UNCHANGED <<tables, workers, trail, control>>

\* What the commit makes visible: the admitted row and the use it took.
CommitAdmission(a) ==
  /\ pc[a] = "inserted"
  /\ left > 0
  /\ left' = left - 1
  /\ admitted' = admitted \cup {of[a]}
  /\ inserting' = [inserting EXCEPT ![of[a]] = None]
  /\ UNCHANGED <<asked, workers, trail, control>>

Admit(a) == CommitAdmission(a) /\ MoveTo(a, "admitted") /\ UNCHANGED queue

\* The commit landed and its answer did not: 503, and nothing is queued.
AdmitReplyLost(a) == CommitAdmission(a) /\ Release(at[a]) /\ Refuse(a)

\* Rolled back: no live grant, which files a request, or a store error.
AdmitRollback(a) ==
  /\ pc[a] \in {"admitting", "inserted"}
  /\ inserting' = [d \in Deliveries |-> IF inserting[d] = a THEN None ELSE inserting[d]]
  /\ Release(at[a])
  /\ \/ pc[a] = "inserted" /\ left = 0 /\ MoveTo(a, "filing")
     \/ Refuse(a)
  /\ UNCHANGED <<admitted, left, asked, workers, trail, control>>

\* A filing that fails changes nothing: the denial stands.
FileRequest(a) ==
  /\ pc[a] = "filing"
  /\ asked' \in {asked, TRUE}
  /\ Refuse(a)
  /\ UNCHANGED <<inserting, admitted, left, queue, workers, trail, control>>

\* The send on the jobs channel, and the 202.
Enqueue(a) ==
  /\ pc[a] = "admitted"
  /\ Len(jobs[at[a]]) < QueueSize
  /\ jobs' = [jobs EXCEPT ![at[a]] = Append(@, of[a])]
  /\ Answer(a)
  /\ UNCHANGED <<slots, tables, workers, trail, control>>

\* Bridge.audit: the row lands or not, the flag follows, the caller is told.
Audit(a) ==
  /\ pc[a] = "auditing"
  /\ degraded' \in {[degraded EXCEPT ![at[a]] = b] : b \in BOOLEAN}
  /\ Answer(a)
  /\ UNCHANGED <<stopping, tables, queue, workers, trail>>

(* Bridge.Run and Bridge.process *)

WorkerTo(w, p) == wpc' = [wpc EXCEPT ![w] = p] /\ UNCHANGED on

\* The select may pick a waiting event even when the context is done.
Take(w) ==
  /\ wpc[w] = "idle"
  /\ jobs[On[w]] # << >>
  /\ on' = [on EXCEPT ![w] = Head(jobs[On[w]])]
  /\ jobs' = [jobs EXCEPT ![On[w]] = Tail(@)]
  /\ wpc' = [wpc EXCEPT ![w] = "opening"]
  /\ UNCHANGED <<attempts, tables, slots, trail, control>>

RunsOf(d) == {r \in runs : r[1] = d}
Wanted(d) == {d} \X ToSet(Creds)

\* The run that openRuns comes to next.
IsNext(r, d) ==
  \E i \in DOMAIN Creds :
    /\ r = <<d, Creds[i]>> /\ r \notin runs
    /\ \A j \in 1..(i - 1) : <<d, Creds[j]>> \in runs

OpenRun(w) ==
  /\ wpc[w] = "opening"
  /\ \E r \in Wanted(on[w]) : IsNext(r, on[w]) /\ runs' = runs \cup {r}
  /\ UNCHANGED <<attempts, tables, queue, workers, control, outcomes, turns, stray>>

\* Fault: what was opened before the failure stays open.
OpenFailLeaving(w) ==
  /\ wpc[w] = "opening"
  /\ ~(Wanted(on[w]) \subseteq runs)
  /\ WorkerTo(w, "refusing")
  /\ UNCHANGED <<attempts, tables, queue, trail, control>>

\* A run cannot be opened, or it was and the answer got lost: those before it
\* are closed, as far as the store allows, and the agent is not called.
OpenFail(w) ==
  /\ wpc[w] = "opening"
  /\ \E r \in Wanted(on[w]), open \in SUBSET RunsOf(on[w]) :
       /\ IsNext(r, on[w])
       /\ \E lost \in {{}, {r}} :
            /\ runs' = (runs \ RunsOf(on[w])) \cup open \cup lost
            /\ stray' = stray \cup open \cup lost
  /\ WorkerTo(w, "refusing")
  /\ UNCHANGED <<attempts, tables, queue, control, outcomes, turns>>

\* Fault: one run is enough.
OpenedSome(w) ==
  /\ wpc[w] = "opening"
  /\ RunsOf(on[w]) # {}
  /\ WorkerTo(w, "invoking")
  /\ UNCHANGED <<attempts, tables, queue, trail, control>>

Opened(w) ==
  /\ wpc[w] = "opening"
  /\ Wanted(on[w]) \subseteq runs
  /\ WorkerTo(w, "invoking")
  /\ UNCHANGED <<attempts, tables, queue, trail, control>>

\* The A2A call: whatever becomes of it, its outcome is recorded.
Invoke(w) ==
  /\ wpc[w] = "invoking"
  /\ turns' = [turns EXCEPT ![on[w]] = @ + 1]
  /\ WorkerTo(w, "recording")
  /\ UNCHANGED <<attempts, tables, queue, control, runs, outcomes, stray>>

\* The outcome's row, by audit; a refused event has no runs left to close.
Record(w) ==
  /\ wpc[w] \in {"recording", "refusing"}
  /\ \E b \in BOOLEAN : degraded' = [degraded EXCEPT ![On[w]] = b]
  /\ outcomes' \in {outcomes, [outcomes EXCEPT ![on[w]] = @ + 1]}
  /\ ~degraded'[On[w]] => outcomes' # outcomes
  /\ WorkerTo(w, IF wpc[w] = "recording" THEN "closing" ELSE "returning")
  /\ UNCHANGED <<attempts, tables, queue, stopping, runs, turns, stray>>

\* The deferred closings, each of which may fail.
Close(w) ==
  /\ wpc[w] = "closing"
  /\ \E open \in SUBSET RunsOf(on[w]) :
       /\ runs' = (runs \ RunsOf(on[w])) \cup open
       /\ stray' = stray \cup open
  /\ WorkerTo(w, "returning")
  /\ UNCHANGED <<attempts, tables, queue, control, outcomes, turns>>

\* process has returned: the slot is given back.
GiveBack(w) ==
  /\ wpc[w] = "returning"
  /\ Release(On[w])
  /\ wpc' = [wpc EXCEPT ![w] = "idle"]
  /\ on' = [on EXCEPT ![w] = None]
  /\ UNCHANGED <<attempts, tables, trail, control>>

WorkerReturn(w) ==
  /\ wpc[w] = "idle"
  /\ stopping[On[w]]
  /\ WorkerTo(w, "exited")
  /\ UNCHANGED <<attempts, tables, queue, trail, control>>

(* Around the bridge *)

\* The admin API decides the hook's request.
AdminDecide ==
  /\ Decide
  /\ UNCHANGED <<attempts, queue, workers, trail, control>>

\* A run nobody closed stops counting once it is older than any turn.
Expire(r) ==
  /\ r \in runs
  /\ \A w \in Workers : on[w] # r[1]
  /\ runs' = runs \ {r}
  /\ stray' = stray \ {r}
  /\ UNCHANGED <<attempts, tables, queue, workers, control, outcomes, turns>>

\* main closes the listener, then cancels the workers' context.
Stop(p) ==
  /\ ~stopping[p]
  /\ stopping' = [stopping EXCEPT ![p] = TRUE]
  /\ UNCHANGED <<attempts, tables, queue, workers, trail, degraded>>

\* The process ends, at any moment, and starts again.
Crash(p) ==
  LET here == {a \in Attempts : at[a] = p}
      gone == {w \in Workers : On[w] = p} IN
  /\ pc' = [a \in Attempts |-> IF a \in here THEN "idle" ELSE pc[a]]
  /\ of' = [a \in Attempts |-> IF a \in here THEN None ELSE of[a]]
  /\ at' = [a \in Attempts |-> IF a \in here THEN None ELSE at[a]]
  /\ inserting' = [d \in Deliveries |-> IF inserting[d] \in here THEN None ELSE inserting[d]]
  /\ slots' = [slots EXCEPT ![p] = 0]
  /\ jobs' = [jobs EXCEPT ![p] = << >>]
  /\ degraded' = [degraded EXCEPT ![p] = FALSE]
  /\ stopping' = [stopping EXCEPT ![p] = FALSE]
  /\ wpc' = [w \in Workers |-> IF w \in gone THEN "idle" ELSE wpc[w]]
  /\ on' = [w \in Workers |-> IF w \in gone THEN None ELSE on[w]]
  /\ stray' = stray \cup {r \in runs : \E w \in gone : on[w] = r[1]}
  /\ UNCHANGED <<admitted, left, asked, runs, outcomes, turns>>

-----------------------------------------------------------------------------
Handle(a) ==
  \/ TurnAway(a) \/ HandleCommand(a) \/ TakeSlot(a) \/ Insert(a) \/ Replay(a)
  \/ Admit(a) \/ AdmitReplyLost(a) \/ AdmitRollback(a) \/ FileRequest(a)
  \/ Enqueue(a) \/ Audit(a)

WorkerStep(w) ==
  \/ Take(w) \/ OpenRun(w) \/ OpenFail(w) \/ Opened(w) \/ Invoke(w)
  \/ Record(w) \/ Close(w) \/ GiveBack(w) \/ WorkerReturn(w)

Next ==
  \/ \E a \in Attempts : Handle(a) \/ \E d \in Deliveries, p \in Replicas : Arrive(a, d, p)
  \/ \E w \in Workers : WorkerStep(w)
  \/ AdminDecide
  \/ \E r \in runs : Expire(r)
  \/ \E p \in Replicas : Stop(p) \/ Crash(p)

Spec == Init /\ [][Next]_vars

-----------------------------------------------------------------------------
\* Type invariant.
TypeOK ==
  /\ pc \in [Attempts -> Phases]
  /\ of \in [Attempts -> Deliveries \cup {None}]
  /\ at \in [Attempts -> Replicas \cup {None}]
  /\ inserting \in [Deliveries -> Attempts \cup {None}]
  /\ admitted \subseteq Deliveries
  /\ left \in 0..MaxLeft
  /\ asked \in BOOLEAN
  /\ runs \subseteq Deliveries \X ToSet(Creds)
  /\ outcomes \in [Deliveries -> Nat]
  /\ slots \in [Replicas -> 0..QueueSize]
  /\ jobs \in [Replicas -> Seq(Deliveries)]
  /\ degraded \in [Replicas -> BOOLEAN] /\ stopping \in [Replicas -> BOOLEAN]
  /\ wpc \in [Workers -> Turn \cup {"idle", "exited"}]
  /\ on \in [Workers -> Deliveries \cup {None}]
  /\ turns \in [Deliveries -> Nat]
  /\ stray \subseteq Deliveries \X ToSet(Creds)

\* Every exit of receive and of process gives back the slot it took, and the
\* send of an admitted event never blocks: the events being admitted, queued
\* and run are the slots taken, and "the queue has at least that much room
\* by construction".
SlotsReturned ==
  \A p \in Replicas :
    LET held == {a \in Attempts : at[a] = p /\ pc[a] \in Holding}
        busy == {w \in Workers : On[w] = p /\ wpc[w] \in Turn} IN
    /\ slots[p] = Cardinality(held) + Len(jobs[p]) + Cardinality(busy)
    /\ \A a \in held : Len(jobs[p]) < QueueSize

\* While the agent runs, each of its credentials has the run of its event
\* open: "all or nothing", so that no part of a turn reads as nobody's.
TurnAttributed ==
  \A w \in Workers : wpc[w] = "invoking" => Wanted(on[w]) \subseteq runs

\* A run that is open belongs to a turn in progress, but for the ones that
\* only expire: the store failed their opening or closing, or a replica died.
RunsClosed ==
  \A r \in runs : r \in stray \/ \E w \in Workers : on[w] = r[1]

\* The stages of the abstract delivery, "twice" being none of them.
stage == [d \in Deliveries |->
            IF turns[d] > 1 \/ outcomes[d] > 1 THEN "twice"
            ELSE IF outcomes[d] = 1 THEN "reported"
            ELSE IF turns[d] = 1 THEN "invoked"
            ELSE IF d \in admitted THEN "admitted" ELSE "new"]

Promise == INSTANCE Delivery WITH Events <- Deliveries

\* However often and wherever an event is delivered, and whatever fails, it
\* takes at most one use, reaches its agent at most once and is reported at
\* most once (the index, the grant and the queue behind them).
ImplementsDelivery == Promise!Spec

=============================================================================

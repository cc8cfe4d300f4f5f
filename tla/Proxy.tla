------------------------------- MODULE Proxy --------------------------------
(***************************************************************************)
(* The LLM seam (proxy.handler): what happens to one model call from the   *)
(* moment its credential is read to the ledger row that accounts for it.   *)
(*                                                                         *)
(* Spend shows that an admission is one atomic decision of the store; here *)
(* it is one step, Reserve, and the subject is the pipeline around it: the *)
(* gates that run on what was read before, the hold each exit has to give  *)
(* back, and the flag that makes a replica deny while its ledger writes    *)
(* fail.  Requests of one credential run on several replicas; a request    *)
(* that is over may be sent again.                                         *)
(***************************************************************************)
EXTENDS Integers, FiniteSets

CONSTANTS
  Requests,
  Replicas,
  Home,        \* the replica that serves each request
  Budgets      \* the sets of caps an operator sets on the credential

Kinds  == {"cents", "tokens"}
Models == {"priced", "unpriced", "free"}

ASSUME ProxyAssumption ==
  /\ Home \in [Requests -> Replicas]
  /\ Budgets \subseteq SUBSET Kinds

VARIABLES
  pc,        \* where each request's handler is
  model,     \* how the model it asks for is classified and priced
  seen,      \* the caps its credential had when it was authenticated
  carried,   \* does the handler hold a reservation's id?
  sent,      \* was the upstream contacted?
  hold,      \* is the reservation in the store?
  rows,      \* ledger rows written for the request
  wrote,     \* how its ledger write ended, before the flag is set
  unheard,   \* did a store write fail, or its answer get lost, on the way?
  budget,    \* the caps of the credential row
  up,        \* is the store reachable?
  degraded   \* handler.ledgerDegraded of each replica

request == <<model, seen, carried, sent, unheard>>
tables  == <<hold, rows, budget>>
vars    == <<pc, request, tables, wrote, up, degraded>>

Phases == {"idle", "authenticated", "gated", "reserved", "calling",
           "recording", "flagging", "answered", "gone"}

-----------------------------------------------------------------------------
Init ==
  /\ pc = [r \in Requests |-> "idle"]
  /\ model \in [Requests -> Models]
  /\ seen = [r \in Requests |-> {}]
  /\ carried = [r \in Requests |-> FALSE]
  /\ sent = [r \in Requests |-> FALSE]
  /\ hold = [r \in Requests |-> FALSE]
  /\ rows = [r \in Requests |-> 0]
  /\ wrote = [r \in Requests |-> "nothing"]
  /\ unheard = [r \in Requests |-> FALSE]
  /\ budget \in Budgets
  /\ up = TRUE
  /\ degraded = [p \in Replicas |-> FALSE]

MoveTo(r, p) == pc' = [pc EXCEPT ![r] = p]

(* handler.forward *)

\* The token is looked up; every later gate runs on this row.  A store that
\* cannot be read refuses the call, with nowhere to record it.
Authenticate(r) ==
  /\ pc[r] = "idle"
  /\ \/ /\ up
        /\ MoveTo(r, "authenticated")
        /\ seen' = [seen EXCEPT ![r] = budget]
     \/ /\ ~up
        /\ MoveTo(r, "answered")
        /\ UNCHANGED seen
  /\ UNCHANGED <<model, carried, sent, unheard, tables, wrote, up, degraded>>

\* Under a cents budget a metered model must have a price.
PriceGate(r) == model[r] = "unpriced" => "cents" \notin seen[r]

\* Fault: a degraded replica refuses without trying to write.
GateWithoutProbe(r) ==
  /\ pc[r] = "authenticated"
  /\ \/ ~degraded[Home[r]] /\ MoveTo(r, "recording")
     \/ degraded[Home[r]] /\ MoveTo(r, "answered")
     \/ PriceGate(r) /\ ~degraded[Home[r]] /\ MoveTo(r, "gated")
  /\ UNCHANGED <<request, tables, wrote, up, degraded>>

\* Expiry, route and body may refuse any request; then the price and the
\* ledger's state.  A refusal is recorded like everything else.
Gate(r) ==
  /\ pc[r] = "authenticated"
  /\ \/ MoveTo(r, "recording")
     \/ PriceGate(r) /\ ~degraded[Home[r]] /\ MoveTo(r, "gated")
  /\ UNCHANGED <<request, tables, wrote, up, degraded>>

\* Meter.Reserve: admitted, with a hold when the credential has a cap.
ReserveAdmit(r) ==
  /\ pc[r] = "gated"
  /\ up
  /\ hold' = [hold EXCEPT ![r] = budget # {}]
  /\ carried' = [carried EXCEPT ![r] = budget # {}]
  /\ MoveTo(r, "reserved")
  /\ UNCHANGED <<model, seen, sent, unheard, rows, budget, wrote, up, degraded>>

\* Denied: a cap is reached (and a request filed), the store failed, or the
\* client is gone.  The commit may have landed all the same, and its hold has
\* then no owner.
ReserveDeny(r) ==
  /\ pc[r] = "gated"
  /\ hold' \in {hold, [hold EXCEPT ![r] = budget # {}]}
  /\ unheard' = [unheard EXCEPT ![r] = hold' # hold]
  /\ MoveTo(r, "recording")
  /\ UNCHANGED <<model, seen, carried, sent, rows, budget, wrote, up, degraded>>

\* Fault: the refusal after admission forgets the reservation.
PrepareForgettingHold(r) ==
  /\ pc[r] = "reserved"
  /\ \/ MoveTo(r, "recording") /\ carried' = [carried EXCEPT ![r] = FALSE]
     \/ MoveTo(r, "calling") /\ UNCHANGED carried
  /\ UNCHANGED <<model, seen, sent, unheard, tables, wrote, up, degraded>>

\* No upstream credential, or a request that cannot be built: refused with
\* the reservation, which the row's write gives back.
Prepare(r) ==
  /\ pc[r] = "reserved"
  /\ MoveTo(r, "recording") \/ MoveTo(r, "calling")
  /\ UNCHANGED <<request, tables, wrote, up, degraded>>

\* The call goes out; unreachable, cut, streamed or buffered, it is recorded.
Call(r) ==
  /\ pc[r] = "calling"
  /\ sent' = [sent EXCEPT ![r] = TRUE]
  /\ MoveTo(r, "recording")
  /\ UNCHANGED <<model, seen, carried, unheard, tables, wrote, up, degraded>>

(* handler.record *)

Land(r) ==
  /\ rows' = [rows EXCEPT ![r] = @ + 1]
  /\ hold' = [hold EXCEPT ![r] = @ /\ ~carried[r]]

\* One transaction: the row lands and the carried hold goes.  An outage
\* fails the write, before or after its commit.
Write(r) ==
  /\ pc[r] = "recording"
  /\ \/ /\ up
        /\ Land(r)
        /\ wrote' = [wrote EXCEPT ![r] = "ok"]
              /\ UNCHANGED unheard
     \/ /\ ~up
        /\ Land(r) \/ UNCHANGED <<rows, hold>>
        /\ wrote' = [wrote EXCEPT ![r] = "failed"]
        /\ unheard' = [unheard EXCEPT ![r] = TRUE]
  /\ MoveTo(r, "flagging")
  /\ UNCHANGED <<model, seen, carried, sent, budget, up, degraded>>

\* The flag follows the write, with nothing between the two held.
Flag(r) ==
  /\ pc[r] = "flagging"
  /\ degraded' = [degraded EXCEPT ![Home[r]] = wrote[r] = "failed"]
  /\ wrote' = [wrote EXCEPT ![r] = "nothing"]
  /\ MoveTo(r, "answered")
  /\ UNCHANGED <<request, tables, up>>

(* Around the handler *)

\* A new request takes the place of one that is over; what the old one left
\* in the table expires (Spend).
Again(r) ==
  /\ pc[r] \in {"answered", "gone"}
  /\ MoveTo(r, "idle")
  /\ model' \in {[model EXCEPT ![r] = m] : m \in Models}
  /\ seen' = [seen EXCEPT ![r] = {}]
  /\ carried' = [carried EXCEPT ![r] = FALSE]
  /\ sent' = [sent EXCEPT ![r] = FALSE]
  /\ unheard' = [unheard EXCEPT ![r] = FALSE]
  /\ hold' = [hold EXCEPT ![r] = FALSE]
  /\ rows' = [rows EXCEPT ![r] = 0]
  /\ UNCHANGED <<budget, wrote, up, degraded>>

\* The process dies with its requests, and starts again with the flag down.
Crash(p) ==
  /\ pc' = [r \in Requests |->
              IF Home[r] = p /\ pc[r] \notin {"idle", "answered"} THEN "gone" ELSE pc[r]]
  /\ wrote' = [r \in Requests |-> IF Home[r] = p THEN "nothing" ELSE wrote[r]]
  /\ degraded' = [degraded EXCEPT ![p] = FALSE]
  /\ UNCHANGED <<request, tables, up>>

SetBudget ==
  /\ up
  /\ budget' \in Budgets
  /\ UNCHANGED <<pc, request, hold, rows, wrote, up, degraded>>

Outage ==
  /\ up' = ~up
  /\ UNCHANGED <<pc, request, tables, wrote, degraded>>

Handle(r) ==
  \/ Authenticate(r) \/ Gate(r) \/ ReserveAdmit(r) \/ ReserveDeny(r)
  \/ Prepare(r) \/ Call(r) \/ Write(r) \/ Flag(r)

Next ==
  \/ \E r \in Requests : Handle(r) \/ Again(r)
  \/ \E p \in Replicas : Crash(p)
  \/ SetBudget \/ Outage

Spec == Init /\ [][Next]_vars

\* Handlers run, each of their waits being bounded by a timeout, and agents
\* keep calling.
FairSpec == Spec /\ \A r \in Requests : WF_vars(Handle(r)) /\ WF_vars(Again(r))

-----------------------------------------------------------------------------
\* Type invariant; no call has two rows, its write being tried once.
TypeOK ==
  /\ pc \in [Requests -> Phases]
  /\ model \in [Requests -> Models]
  /\ seen \in [Requests -> SUBSET Kinds]
  /\ carried \in [Requests -> BOOLEAN] /\ sent \in [Requests -> BOOLEAN]
  /\ hold \in [Requests -> BOOLEAN] /\ unheard \in [Requests -> BOOLEAN]
  /\ rows \in [Requests -> {0, 1}]
  /\ wrote \in [Requests -> {"nothing", "ok", "failed"}]
  /\ budget \subseteq Kinds
  /\ up \in BOOLEAN
  /\ degraded \in [Replicas -> BOOLEAN]

\* Every exit accounts for the call: unless the store failed it or its
\* replica died, a request that was answered has left no reservation, and one
\* that reached the upstream has its row (deny "is the single exit for every
\* pre-forward refusal" and carries the reservation; record comes before
\* every answer after the call).
CallsAccounted ==
  \A r \in Requests :
    pc[r] = "answered" /\ ~unheard[r] => ~hold[r] /\ (sent[r] => rows[r] = 1)

\* A replica that denies while its writes fail starts again once they work:
\* "the denial's own record attempt is the recovery probe".
DegradedRecovers ==
  \A p \in Replicas : <>[]up => []<>~degraded[p]

=============================================================================

------------------------------- MODULE Spend -------------------------------
(***************************************************************************)
(* Exact budgets: how the plane admits model spend for one credential.     *)
(*                                                                         *)
(* A call is admitted by one Postgres transaction (Store.AdmitSpend) that  *)
(* holds the credential's row lock, compares the month's committed spend   *)
(* (ledger rows plus the open reservations) with the caps of the locked    *)
(* row, burns one use of a budget grant for every exceeded cap, and leaves *)
(* a reservation.  Store.RecordLedger later replaces that reservation by   *)
(* the call's real usage.  Every query is keyed by the credential, so one  *)
(* credential is the whole story; Calls are its concurrent requests, on    *)
(* whatever replica each of them runs.                                     *)
(***************************************************************************)
EXTENDS Integers, FiniteSets, FiniteSetsExt

CONSTANTS
  Calls,          \* the model calls made with the credential
  Priced,         \* the calls on a metered model that has a price
  GrantIds,       \* the budget grants that may ever be minted
  MaxUse,         \* most tokens, or cents, one call can be billed
  HoldTTL,        \* life of a reservation (meter.DefaultHoldTTL)
  CallLimit,      \* longest call when its client keeps reading
  Budgets,        \* the pairs of caps an operator sets
  MaxAmount, MaxGrantUses,          \* bounds on what an approver grants
  MaxTime, MaxMonth,                \* bounds on the two clocks
  None            \* SQL NULL

Kinds == {"cents", "tokens"}
Caps  == Nat \cup {None}

\* A permit_grant row of kind 'budget'.
GrantRow == [kind : Kinds, amount : Nat, expires : Caps, maxUses : Caps,
             uses : Nat, created : Nat]

ASSUME SpendAssumption ==
  /\ IsFiniteSet(Calls)
  /\ Priced \subseteq Calls
  /\ None \notin Calls /\ None \notin Nat /\ None \notin GrantRow
  /\ MaxUse \in Nat \ {0}
  /\ HoldTTL \in Nat /\ CallLimit \in Nat /\ CallLimit < HoldTTL
  /\ Budgets \subseteq [Kinds -> Caps]
  /\ MaxAmount \in Nat /\ MaxGrantUses \in Nat
  /\ MaxTime \in Nat /\ MaxMonth \in Nat

Months == 0..MaxMonth
Phases == {"idle", "waiting", "deciding", "admitted", "refused", "done", "lost"}

VARIABLES
  now,      \* the database clock, in units the TTLs are counted in
  month,    \* the calendar month the clocks are in
  cap,      \* credential.cap_cents / cap_tokens
  lock,     \* the call whose transaction holds the credential row, or None
  pc,       \* where each call is
  tx,       \* start of each call's admission: [at, month]
  burn,     \* the grants whose use that admission takes
  capped,   \* did the admission leave a reservation?
  rsv,      \* is the call's row still in spend_reservation?
  grant,    \* permit_grant rows of kind 'budget' (None: not minted)
  since,    \* since[k][m]: ledger total of kind k from month m on
  \* History, read by no action:
  stalled,  \* the calls that outran CallLimit: their client stopped reading
  charged,  \* charged[k][m]: billed to the other calls admitted in m without a grant
  top       \* largest cap so far, None once the kind was uncapped

vars == <<now, month, cap, lock, pc, tx, burn, capped, rsv, grant, since,
          stalled, charged, top>>

-----------------------------------------------------------------------------
(* What a call holds and what is committed. *)

\* Every call holds a token; only a priced one holds a cent.
Charges(c, k) == k = "tokens" \/ c \in Priced

Expires(c) == tx[c].at + HoldTTL

\* Reservations that count for month m in a transaction that began at t.
OpenHolds(k, m, t) ==
  {c \in Calls : rsv[c] /\ Charges(c, k) /\ tx[c].month >= m /\ Expires(c) > t}

\* Fault: the ledger alone, as before reservations existed.
CommittedLedgerOnly(k, m, t) == since[k][m]

Committed(k, m, t) == since[k][m] + Cardinality(OpenHolds(k, m, t))

Exceeded(m, t) == {k \in Kinds : cap[k] # None /\ Committed(k, m, t) >= cap[k]}

(* Budget grants. *)

\* Fault: an expiry-only test.
LiveWhateverUsed(g, t) ==
  /\ grant[g] # None
  /\ grant[g].expires = None \/ grant[g].expires > t

Live(g, t) ==
  /\ grant[g] # None
  /\ grant[g].expires = None \/ grant[g].expires > t
  /\ grant[g].maxUses = None \/ grant[g].uses < grant[g].maxUses

LiveOf(k, t) == {g \in GrantIds : Live(g, t) /\ grant[g].kind = k}

Extra(k, t) == MapThenSumSet(LAMBDA g : grant[g].amount, LiveOf(k, t))

Oldest(k, t) ==
  {g \in LiveOf(k, t) : \A h \in LiveOf(k, t) : grant[g].created <= grant[h].created}

Covered(k, m, t) ==
  /\ LiveOf(k, t) # {}
  /\ Committed(k, m, t) < cap[k] + Extra(k, t)

-----------------------------------------------------------------------------
Init ==
  /\ now = 0
  /\ month = 0
  /\ cap \in Budgets
  /\ lock = None
  /\ pc = [c \in Calls |-> "idle"]
  /\ tx = [c \in Calls |-> [at |-> 0, month |-> 0]]
  /\ burn = [c \in Calls |-> {}]
  /\ capped = [c \in Calls |-> FALSE]
  /\ rsv = [c \in Calls |-> FALSE]
  /\ grant = [g \in GrantIds |-> None]
  /\ since = [k \in Kinds |-> [m \in Months |-> 0]]
  /\ stalled = {}
  /\ charged = [k \in Kinds |-> [m \in Months |-> 0]]
  /\ top = cap

MoveTo(c, p) == pc' = [pc EXCEPT ![c] = p]

\* The store's tables and the clocks, for the actions that leave them alone.
clocks == <<now, month>>
tables == <<cap, grant, since, stalled, charged, top>>

(* Store.AdmitSpend *)

\* Begin: now() and the month window are fixed here, before any wait.
AdmitBegin(c) ==
  /\ pc[c] = "idle"
  /\ MoveTo(c, "waiting")
  /\ tx' = [tx EXCEPT ![c] = [at |-> now, month |-> month]]
  /\ UNCHANGED <<clocks, tables, lock, burn, capped, rsv>>

\* The row lock is granted; without caps there is nothing to decide.
AdmitUncapped(c) ==
  /\ pc[c] = "waiting"
  /\ lock = None
  /\ \A k \in Kinds : cap[k] = None
  /\ MoveTo(c, "admitted")
  /\ UNCHANGED <<clocks, tables, lock, tx, burn, capped, rsv>>

\* An exceeded cap no live grant covers: rolled back, nothing consumed.
AdmitDeny(c) ==
  /\ pc[c] = "waiting"
  /\ lock = None
  /\ \E k \in Exceeded(tx[c].month, tx[c].at) : ~Covered(k, tx[c].month, tx[c].at)
  /\ MoveTo(c, "refused")
  /\ UNCHANGED <<clocks, tables, lock, tx, burn, capped, rsv>>

\* Every exceeded cap is covered: take the oldest live grant of each.
AdmitDecide(c) ==
  LET needs == Exceeded(tx[c].month, tx[c].at) IN
  /\ pc[c] = "waiting"
  /\ lock = None
  /\ \E k \in Kinds : cap[k] # None
  /\ \A k \in needs : Covered(k, tx[c].month, tx[c].at)
  /\ \E pick \in [needs -> GrantIds] :
       /\ \A k \in needs : pick[k] \in Oldest(k, tx[c].at)
       /\ burn' = [burn EXCEPT ![c] = {pick[k] : k \in needs}]
  /\ lock' = c
  /\ MoveTo(c, "deciding")
  /\ UNCHANGED <<clocks, tables, tx, capped, rsv>>

\* Fault: the sweep takes every hold of an earlier transaction.
CommitSweepingAll(c) ==
  /\ pc[c] = "deciding"
  /\ lock' = None
  /\ rsv' = [d \in Calls |-> d = c \/ (rsv[d] /\ tx[d].at >= tx[c].at)]
  /\ capped' = [capped EXCEPT ![c] = TRUE]
  /\ grant' = [g \in GrantIds |->
                 IF g \in burn[c] THEN [grant[g] EXCEPT !.uses = @ + 1] ELSE grant[g]]
  /\ UNCHANGED <<clocks, cap, since, stalled, charged, top, tx, burn>>

\* What the commit makes visible: the sweep of expired reservations, the
\* burned uses and the new reservation, and the lock's release.
CommitAdmission(c) ==
  /\ pc[c] = "deciding"
  /\ lock' = None
  /\ rsv' = [d \in Calls |-> d = c \/ (rsv[d] /\ Expires(d) > tx[c].at)]
  /\ capped' = [capped EXCEPT ![c] = TRUE]
  /\ grant' = [g \in GrantIds |->
                 IF g \in burn[c] THEN [grant[g] EXCEPT !.uses = @ + 1] ELSE grant[g]]
  /\ UNCHANGED <<clocks, cap, since, stalled, charged, top, tx, burn>>

AdmitCommit(c) == CommitAdmission(c) /\ MoveTo(c, "admitted")

\* The commit landed but the caller never learned it (a client that hung
\* up cancels the request context): refused as "metering unavailable",
\* with the hold and the burned uses left behind.
AdmitReplyLost(c) == CommitAdmission(c) /\ MoveTo(c, "refused")

\* Fault: the rollback is skipped and the row lock leaks.
AdmitFailLeaking(c) ==
  /\ pc[c] \in {"waiting", "deciding"}
  /\ MoveTo(c, "refused")
  /\ UNCHANGED <<clocks, tables, lock, tx, burn, capped, rsv>>

\* A store error before the commit: rolled back and refused.
AdmitFail(c) ==
  /\ pc[c] \in {"waiting", "deciding"}
  /\ MoveTo(c, "refused")
  /\ lock' = IF lock = c THEN None ELSE lock
  /\ burn' = [burn EXCEPT ![c] = {}]
  /\ UNCHANGED <<clocks, tables, tx, capped, rsv>>

-----------------------------------------------------------------------------
(* Store.RecordLedger *)

\* A bill: tokens always, cents only for a priced call, zero for a call
\* that was refused after admission or never reached its upstream.
Bills(c) == {b \in [Kinds -> 0..MaxUse] : c \in Priced \/ b["cents"] = 0}

AddSince(totals, m, b) ==
  [k \in Kinds |-> [n \in Months |-> totals[k][n] + IF n <= m THEN b[k] ELSE 0]]

AddIn(totals, m, b) ==
  [k \in Kinds |-> [totals[k] EXCEPT ![m] = @ + b[k]]]

\* One transaction: the row lands and the hold it replaces goes.
RecordLedger(c) ==
  /\ pc[c] = "admitted"
  /\ \E b \in Bills(c) :
       /\ since' = AddSince(since, month, b)
       /\ charged' = IF capped[c] /\ burn[c] = {} /\ c \notin stalled
                     THEN AddIn(charged, tx[c].month, b) ELSE charged
  /\ rsv' = [rsv EXCEPT ![c] = FALSE]
  /\ MoveTo(c, "done")
  /\ UNCHANGED <<clocks, cap, grant, stalled, top, lock, tx, burn, capped>>

\* The write failed: the usage is lost, the hold stays until it expires.
RecordFail(c) ==
  /\ pc[c] = "admitted"
  /\ MoveTo(c, "lost")
  /\ UNCHANGED <<clocks, tables, lock, tx, burn, capped, rsv>>

\* The replica dies: an open transaction rolls back, a hold is orphaned.
Crash(c) ==
  /\ pc[c] \in {"waiting", "deciding", "admitted"}
  /\ MoveTo(c, "lost")
  /\ lock' = IF lock = c THEN None ELSE lock
  /\ burn' = IF pc[c] = "admitted" THEN burn ELSE [burn EXCEPT ![c] = {}]
  /\ UNCHANGED <<clocks, tables, tx, capped, rsv>>

-----------------------------------------------------------------------------
(* The operator, and time. *)

Larger(a, b) == IF a = None \/ b = None THEN None ELSE IF a < b THEN b ELSE a

\* Fault: the new caps do not wait for the row lock.
SetBudgetAtOnce ==
  /\ cap' \in Budgets
  /\ top' = [k \in Kinds |-> Larger(top[k], cap'[k])]
  /\ UNCHANGED <<clocks, grant, since, stalled, charged, lock, pc, tx, burn, capped, rsv>>

\* Store.SetBudget is an UPDATE of the locked row, so it waits its turn.
SetBudget ==
  /\ lock = None
  /\ cap' \in Budgets
  /\ top' = [k \in Kinds |-> Larger(top[k], cap'[k])]
  /\ UNCHANGED <<clocks, grant, since, stalled, charged, lock, pc, tx, burn, capped, rsv>>

\* Store.ApproveRequest on a budget request mints a bounded grant; the
\* insert does not wait for the credential's lock.
ApproveBudget(g) ==
  /\ grant[g] = None
  /\ \E k \in Kinds, a \in 1..MaxAmount,
        e \in ((now + 1)..MaxTime) \cup {None}, u \in (1..MaxGrantUses) \cup {None} :
       /\ e # None \/ u # None
       /\ grant' = [grant EXCEPT ![g] = [kind |-> k, amount |-> a, expires |-> e,
                                         maxUses |-> u, uses |-> 0, created |-> now]]
  /\ UNCHANGED <<clocks, cap, since, stalled, charged, top, lock, pc, tx, burn, capped, rsv>>

\* The upstream client's timeout bounds a call, unless its client stops reading
\* the response: the data listener has no write timeout.
Tick ==
  /\ now < MaxTime
  /\ \A c \in Calls : pc[c] \in {"waiting", "deciding"} => now < tx[c].at + CallLimit
  /\ now' = now + 1
  /\ stalled' = stalled \cup {c \in Calls : pc[c] = "admitted" /\ now >= tx[c].at + CallLimit}
  /\ UNCHANGED <<month, cap, grant, since, charged, top, lock, pc, tx, burn, capped, rsv>>

NewMonth ==
  /\ month < MaxMonth
  /\ month' = month + 1
  /\ UNCHANGED <<now, tables, lock, pc, tx, burn, capped, rsv>>

-----------------------------------------------------------------------------
\* The steps a transaction takes when nothing goes wrong.
AdmitStep(c) == AdmitUncapped(c) \/ AdmitDeny(c) \/ AdmitDecide(c) \/ AdmitCommit(c)

CallStep(c) == AdmitBegin(c) \/ AdmitStep(c) \/ AdmitReplyLost(c) \/ AdmitFail(c)
               \/ RecordLedger(c) \/ RecordFail(c) \/ Crash(c)

Next == \/ \E c \in Calls : CallStep(c)
        \/ SetBudget
        \/ \E g \in GrantIds : ApproveBudget(g)
        \/ Tick
        \/ NewMonth

Spec == Init /\ [][Next]_vars

\* A transaction that has the lock commits, and one that waits for a free
\* lock gets it: Postgres queues the waiters.  Nothing has to fail.
FairSpec == Spec /\ \A c \in Calls : WF_vars(AdmitStep(c))

-----------------------------------------------------------------------------
(* Properties. *)

\* Type invariant.
TypeOK ==
  /\ now \in Nat
  /\ month \in Months
  /\ cap \in [Kinds -> Caps]
  /\ lock \in Calls \cup {None}
  /\ pc \in [Calls -> Phases]
  /\ tx \in [Calls -> [at : Nat, month : Months]]
  /\ burn \in [Calls -> SUBSET GrantIds]
  /\ capped \in [Calls -> BOOLEAN]
  /\ rsv \in [Calls -> BOOLEAN]
  /\ grant \in [GrantIds -> GrantRow \cup {None}]
  /\ since \in [Kinds -> [Months -> Nat]]
  /\ stalled \subseteq Calls
  /\ charged \in [Kinds -> [Months -> Nat]]
  /\ top \in [Kinds -> Caps]

\* The calls in flight that were admitted in month m on the cap alone, and
\* whose clients keep reading.
InFlight(k, m) ==
  {c \in Calls : /\ pc[c] = "admitted" /\ c \notin stalled /\ capped[c] /\ burn[c] = {}
                 /\ Charges(c, k) /\ tx[c].month = m}

\* However many replicas admit at once, the calls admitted in one month
\* without a grant can never between them be billed more than the cap's
\* worth of largest bills: what has landed plus the worst the calls still
\* in flight can bring stays inside it, and only a call whose client stops
\* reading comes on top, with its own bill (the promise of AdmitSpend's lock
\* and reservation, migration 00007).
CapBoundsMonth ==
  \A k \in Kinds, m \in Months : top[k] # None =>
    charged[k][m] + MaxUse * Cardinality(InFlight(k, m)) <= MaxUse * top[k]

\* A call still running on a cap keeps its reservation counted until it
\* expires, whoever sweeps; and only a call whose client stops reading is still
\* running then (meter.DefaultHoldTTL outlives every other).
LiveCallKeepsHold ==
  \A c \in Calls : pc[c] = "admitted" /\ capped[c] =>
    IF Expires(c) > now THEN rsv[c] ELSE c \in stalled

\* Who has really consumed a use of g: the admissions that committed.
Consumers(g) == {c \in Calls : g \in burn[c] /\ capped[c]}

\* A grant's use count is exactly the number of admissions it paid for and
\* never passes its bound, whichever transactions raced, failed or rolled
\* back half way through covering two caps.
GrantUsesExact ==
  \A g \in GrantIds : grant[g] # None =>
    /\ grant[g].uses = Cardinality(Consumers(g))
    /\ grant[g].maxUses # None => grant[g].uses <= grant[g].maxUses

\* At the instant a reservation lands without a grant, the calls in flight
\* that the month's cap admitted and no client stalls fit under the cap then in
\* force: an
\* operator's change of the budget never slips between the decision and
\* its commit ("a `make budget` lands on the very next call").
AdmissionFitsCap ==
  [][\A c \in Calls, k \in Kinds :
       (pc[c] = "deciding" /\ pc'[c] = "admitted" /\ burn[c] = {}
          /\ cap'[k] # None /\ Charges(c, k))
       => Cardinality(InFlight(k, tx[c].month)') <= cap'[k]]_vars

\* No transaction is left waiting for the credential's lock for ever.
EveryAdmissionDecided ==
  \A c \in Calls : pc[c] \in {"waiting", "deciding"} ~> pc[c] \notin {"waiting", "deciding"}
=============================================================================

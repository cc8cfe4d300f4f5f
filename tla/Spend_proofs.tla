---------------------------- MODULE Spend_proofs ----------------------------
(***************************************************************************)
(* Spend proved for every number of calls, grants, caps and bounds.        *)
(*                                                                         *)
(* The cap bound is not inductive by itself: it needs the lock discipline  *)
(* (one decision at a time, and it still holds the lock it was taken       *)
(* under), the hold of every live call to be visible to that decision, and *)
(* the fact that the room a decision saw is still there when it commits.   *)
(***************************************************************************)
EXTENDS Spend, FiniteSetTheorems, TLAPS

Busy == {"waiting", "deciding", "admitted"}

\* The lock is held exactly while a decision waits for its commit.
LockInv ==
  /\ \A c \in Calls : pc[c] = "deciding" <=> lock = c
  /\ \A c \in Calls : pc[c] \in {"idle", "waiting", "deciding"} => ~capped[c]
  /\ \A c \in Calls : pc[c] # "deciding" /\ ~capped[c] => burn[c] = {}
  /\ \A c \in stalled : pc[c] \notin {"idle", "waiting", "deciding"}

\* A live call's reservation is in the table while it lasts, and unless its
\* client stalls the call is younger than its limit.
HoldInv ==
  /\ \A c \in Calls : tx[c].at <= now /\ tx[c].month <= month
  /\ \A c \in Calls :
       /\ pc[c] = "admitted" /\ capped[c] /\ Expires(c) > now => rsv[c]
       /\ pc[c] \in Busy /\ c \notin stalled => now <= tx[c].at + CallLimit

\* What was billed to a month's own calls is part of its ledger total, and
\* the caps in force never exceed the largest ever set.
LedgerInv ==
  /\ \A k \in Kinds, m \in Months : charged[k][m] <= since[k][m]
  /\ \A k \in Kinds : top[k] # None => cap[k] # None /\ cap[k] <= top[k]

\* What the calls of month m can still come to.
Exposure(k, m) == charged[k][m] + MaxUse * Cardinality(InFlight(k, m))

\* The room a decision saw is still there.
RoomInv ==
  \A c \in Calls, k \in Kinds : pc[c] = "deciding" /\ burn[c] = {} /\ cap[k] # None =>
    /\ Exposure(k, tx[c].month) + MaxUse <= MaxUse * cap[k]
    /\ Cardinality(InFlight(k, tx[c].month)) + 1 <= cap[k]

\* The grants an admission takes were minted, and those a decision is about
\* to burn still have a use left.
BurnMinted ==
  \A c \in Calls, g \in GrantIds : g \in burn[c] => grant[g] # None

BurnInv ==
  \A c \in Calls, g \in GrantIds :
    pc[c] = "deciding" /\ g \in burn[c] /\ grant[g].maxUses # None
      => grant[g].uses < grant[g].maxUses

-----------------------------------------------------------------------------
\* A committed burn adds one use to a minted grant and touches no other.
LEMMA BurnUse ==
  ASSUME TypeOK, BurnMinted, NEW c \in Calls, CommitAdmission(c), NEW g \in GrantIds
  PROVE  /\ g \notin burn[c] => grant'[g] = grant[g]
         /\ g \in burn[c] => /\ grant[g] \in GrantRow /\ grant'[g] \in GrantRow
                             /\ grant'[g].uses = grant[g].uses + 1
                             /\ grant'[g].maxUses = grant[g].maxUses
<1>1. grant'[g] = IF g \in burn[c] THEN [grant[g] EXCEPT !.uses = @ + 1] ELSE grant[g]
  BY DEF CommitAdmission
<1>2. ASSUME g \in burn[c] PROVE grant[g] \in GrantRow
  BY <1>2 DEF TypeOK, BurnMinted
<1> QED
  BY <1>1, <1>2 DEF GrantRow

\* Every variable keeps its type (Spend's state is what the tables allow),
\* together with the fact that only minted grants are ever burned.
Typed == TypeOK /\ BurnMinted

THEOREM TypeCorrect == Spec => []TypeOK /\ []BurnMinted
<1>1. Init => Typed
  BY SpendAssumption DEF Init, Typed, TypeOK, BurnMinted, Phases, Months, Caps
<1>2. Typed /\ [Next]_vars => Typed'
  <2> SUFFICES ASSUME TypeOK, BurnMinted, [Next]_vars PROVE TypeOK' /\ BurnMinted'
    BY DEF Typed
  <2> USE SpendAssumption DEF TypeOK, BurnMinted, MoveTo, clocks, tables, Phases, Caps
  <2>1. ASSUME NEW c \in Calls, AdmitBegin(c) PROVE TypeOK' /\ BurnMinted'
    BY <2>1 DEF AdmitBegin
  <2>2. ASSUME NEW c \in Calls, AdmitUncapped(c) PROVE TypeOK' /\ BurnMinted'
    BY <2>2 DEF AdmitUncapped
  <2>3. ASSUME NEW c \in Calls, AdmitDeny(c) PROVE TypeOK' /\ BurnMinted'
    BY <2>3 DEF AdmitDeny
  <2>4. ASSUME NEW c \in Calls, AdmitDecide(c) PROVE TypeOK' /\ BurnMinted'
    BY <2>4 DEF AdmitDecide, Exceeded, Oldest, LiveOf, Live
  <2>5. ASSUME NEW c \in Calls, CommitAdmission(c) PROVE
          /\ lock' \in Calls \cup {None} /\ rsv' \in [Calls -> BOOLEAN]
          /\ capped' \in [Calls -> BOOLEAN]
          /\ grant' \in [GrantIds -> GrantRow \cup {None}]
          /\ \A g \in GrantIds : grant[g] # None => grant'[g] # None
          /\ UNCHANGED <<now, month, cap, since, stalled, charged, top, tx, burn>>
    <3>1. \A g \in GrantIds : /\ grant'[g] \in GrantRow \cup {None}
                              /\ grant[g] # None => grant'[g] # None
      BY <2>5, BurnUse DEF GrantRow
    <3>2. \E row \in [GrantIds -> GrantRow \cup {None}] : row = grant'
      BY <3>1, <2>5 DEF CommitAdmission
    <3>3. /\ lock' \in Calls \cup {None} /\ rsv' \in [Calls -> BOOLEAN] /\ capped' \in [Calls -> BOOLEAN]
          /\ UNCHANGED <<now, month, cap, since, stalled, charged, top, tx, burn>>
      BY <2>5 DEF CommitAdmission
    <3> QED
      BY <3>1, <3>2, <3>3
  <2>6. ASSUME NEW c \in Calls, AdmitCommit(c) \/ AdmitReplyLost(c) PROVE TypeOK' /\ BurnMinted'
    <3>1. \E p \in {"admitted", "refused"} : pc' = [pc EXCEPT ![c] = p]
      BY <2>6 DEF AdmitCommit, AdmitReplyLost
    <3>2. pc' \in [Calls -> Phases]
      BY <3>1
    <3> QED
      BY <2>5, <2>6, <3>2 DEF AdmitCommit, AdmitReplyLost
  <2>7. ASSUME NEW c \in Calls, AdmitFail(c) PROVE TypeOK' /\ BurnMinted'
    BY <2>7 DEF AdmitFail
  <2>8. ASSUME NEW c \in Calls, RecordLedger(c) PROVE TypeOK' /\ BurnMinted'
    BY <2>8 DEF RecordLedger, Bills, AddSince, AddIn
  <2>9. ASSUME NEW c \in Calls, RecordFail(c) PROVE TypeOK' /\ BurnMinted'
    BY <2>9 DEF RecordFail
  <2>10. ASSUME NEW c \in Calls, Crash(c) PROVE TypeOK' /\ BurnMinted'
    BY <2>10 DEF Crash
  <2>11. CASE SetBudget
    BY <2>11 DEF SetBudget, Larger
  <2>12. ASSUME NEW g \in GrantIds, ApproveBudget(g) PROVE TypeOK' /\ BurnMinted'
    BY <2>12 DEF ApproveBudget, GrantRow
  <2>13. CASE Tick
    BY <2>13 DEF Tick
  <2>14. CASE NewMonth
    BY <2>14 DEF NewMonth, Months
  <2>15. CASE UNCHANGED vars
    BY <2>15 DEF vars
  <2> QED
    BY <2>1, <2>2, <2>3, <2>4, <2>6, <2>7, <2>8, <2>9, <2>10, <2>11, <2>12,
       <2>13, <2>14, <2>15 DEF Next, CallStep, AdmitStep
<1> QED
  BY <1>1, <1>2, PTL DEF Spec, Typed

-----------------------------------------------------------------------------
\* The lock is taken and released with the decision it protects.
THEOREM LockDiscipline == Spec => []LockInv
<1>1. Init => LockInv
  BY SpendAssumption DEF Init, LockInv
<1>2. TypeOK /\ LockInv /\ [Next]_vars => LockInv'
  <2> SUFFICES ASSUME TypeOK, LockInv, [Next]_vars PROVE LockInv'
    OBVIOUS
  <2>0. /\ pc \in [Calls -> Phases] /\ capped \in [Calls -> BOOLEAN]
        /\ burn \in [Calls -> SUBSET GrantIds] /\ None \notin Calls
    BY SpendAssumption DEF TypeOK
  <2> USE <2>0 DEF LockInv, MoveTo, clocks, tables, Phases
  <2>1. ASSUME NEW c \in Calls, AdmitBegin(c) PROVE LockInv'
    BY <2>1 DEF AdmitBegin
  <2>2. ASSUME NEW c \in Calls, AdmitUncapped(c) PROVE LockInv'
    BY <2>2 DEF AdmitUncapped
  <2>3. ASSUME NEW c \in Calls, AdmitDeny(c) PROVE LockInv'
    BY <2>3 DEF AdmitDeny
  <2>4. ASSUME NEW c \in Calls, AdmitDecide(c) PROVE LockInv'
    BY <2>4 DEF AdmitDecide
  <2>5. ASSUME NEW c \in Calls, CommitAdmission(c), NEW p \in {"admitted", "refused"},
               MoveTo(c, p) PROVE LockInv'
    BY <2>5 DEF CommitAdmission
  <2>6. ASSUME NEW c \in Calls, AdmitFail(c) PROVE LockInv'
    BY <2>6 DEF AdmitFail
  <2>7. ASSUME NEW c \in Calls, RecordLedger(c) PROVE LockInv'
    BY <2>7 DEF RecordLedger
  <2>8. ASSUME NEW c \in Calls, RecordFail(c) PROVE LockInv'
    BY <2>8 DEF RecordFail
  <2>9. ASSUME NEW c \in Calls, Crash(c) PROVE LockInv'
    BY <2>9 DEF Crash
  <2>10. CASE SetBudget \/ Tick \/ NewMonth \/ UNCHANGED vars
    BY <2>10 DEF SetBudget, Tick, NewMonth, vars
  <2>11. ASSUME NEW g \in GrantIds, ApproveBudget(g) PROVE LockInv'
    BY <2>11 DEF ApproveBudget
  <2> QED
    BY <2>1, <2>2, <2>3, <2>4, <2>5, <2>6, <2>7, <2>8, <2>9, <2>10, <2>11
       DEF Next, CallStep, AdmitStep, AdmitCommit, AdmitReplyLost
<1> QED
  BY <1>1, <1>2, TypeCorrect, PTL DEF Spec

\* The holds of live calls stay in the table, and within their TTL.
THEOREM HoldDiscipline == Spec => []HoldInv
<1>1. Init => HoldInv
  BY SpendAssumption DEF Init, HoldInv, Busy
<1>2. TypeOK /\ LockInv /\ HoldInv /\ [Next]_vars => HoldInv'
  <2> SUFFICES ASSUME TypeOK, LockInv, HoldInv, [Next]_vars PROVE HoldInv'
    OBVIOUS
  <2> USE SpendAssumption DEF TypeOK, LockInv, HoldInv, MoveTo, clocks, tables, Phases, Busy, Expires
  <2>1. ASSUME NEW c \in Calls, AdmitBegin(c) PROVE HoldInv'
    BY <2>1 DEF AdmitBegin, Months
  <2>2. ASSUME NEW c \in Calls, AdmitUncapped(c) \/ AdmitDeny(c) \/ AdmitDecide(c)
        PROVE HoldInv'
    BY <2>2 DEF AdmitUncapped, AdmitDeny, AdmitDecide
  <2>3. ASSUME NEW c \in Calls, CommitAdmission(c),
               MoveTo(c, "admitted") \/ MoveTo(c, "refused") PROVE HoldInv'
    <3>1. /\ UNCHANGED <<now, month, tx, stalled>>
          /\ \A d \in Calls : /\ pc'[d] \in Busy => pc[d] \in Busy
                              /\ d # c => pc'[d] = pc[d] /\ capped'[d] = capped[d]
                              /\ rsv'[d] <=> d = c \/ (rsv[d] /\ Expires(d) > tx[c].at)
      <4>1. /\ UNCHANGED <<now, month, tx, stalled>> /\ pc[c] = "deciding"
            /\ capped' = [capped EXCEPT ![c] = TRUE]
            /\ \E p \in {"admitted", "refused"} : pc' = [pc EXCEPT ![c] = p]
        BY <2>3 DEF CommitAdmission
      <4>2. \A d \in Calls : rsv'[d] <=> d = c \/ (rsv[d] /\ Expires(d) > tx[c].at)
        BY <2>3 DEF CommitAdmission
      <4>3. \A d \in Calls : /\ pc'[d] \in Busy => pc[d] \in Busy
                             /\ d # c => pc'[d] = pc[d] /\ capped'[d] = capped[d]
        BY <4>1
      <4> QED
        BY <4>1, <4>2, <4>3
    <3>2. ASSUME NEW d \in Calls, d # c, pc[d] = "admitted", capped[d], Expires(d) > now
          PROVE  rsv'[d]
      <4>1. tx[c].at <= now /\ rsv[d]
        BY <3>2
      <4>2. now \in Nat /\ tx[d].at \in Nat /\ tx[c].at \in Nat
        OBVIOUS
      <4>3. Expires(d) > tx[c].at
        BY <3>2, <4>1, <4>2 DEF Expires
      <4> QED
        BY <3>1, <4>1, <4>3
    <3> QED
      BY <3>1, <3>2 DEF Expires
  <2>4. ASSUME NEW c \in Calls, AdmitFail(c) \/ Crash(c) PROVE HoldInv'
    BY <2>4 DEF AdmitFail, Crash
  <2>5. ASSUME NEW c \in Calls, RecordLedger(c) \/ RecordFail(c) PROVE HoldInv'
    BY <2>5 DEF RecordLedger, RecordFail
  <2>6. CASE SetBudget \/ UNCHANGED vars
    BY <2>6 DEF SetBudget, vars
  <2>7. CASE NewMonth
    BY <2>7 DEF NewMonth, Months
  <2>8. CASE Tick
    BY <2>8 DEF Tick
  <2>9. ASSUME NEW g \in GrantIds, ApproveBudget(g) PROVE HoldInv'
    BY <2>9 DEF ApproveBudget
  <2> QED
    BY <2>1, <2>2, <2>3, <2>4, <2>5, <2>6, <2>7, <2>8, <2>9
       DEF Next, CallStep, AdmitStep, AdmitCommit, AdmitReplyLost
<1> QED
  BY <1>1, <1>2, TypeCorrect, LockDiscipline, PTL DEF Spec

\* A call still running on a cap keeps its reservation counted until it expires,
\* and only one whose client stalls runs that long (meter.DefaultHoldTTL).
THEOREM LiveHold == Spec => []LiveCallKeepsHold
<1>1. TypeOK /\ HoldInv => LiveCallKeepsHold
  BY SpendAssumption DEF HoldInv, LiveCallKeepsHold, TypeOK, Expires, Busy
<1> QED
  BY <1>1, TypeCorrect, HoldDiscipline, PTL

-----------------------------------------------------------------------------
\* The month totals contain what was billed to the month's calls.
THEOREM LedgerContains == Spec => []LedgerInv
<1>1. Init => LedgerInv
  BY SpendAssumption DEF Init, LedgerInv, Caps, Kinds
<1>2. TypeOK /\ HoldInv /\ LedgerInv /\ [Next]_vars => LedgerInv'
  <2> SUFFICES ASSUME TypeOK, HoldInv, LedgerInv, [Next]_vars PROVE LedgerInv'
    OBVIOUS
  <2> USE DEF LedgerInv
  <2>1. ASSUME NEW c \in Calls, RecordLedger(c) PROVE LedgerInv'
    <3>1. PICK b \in Bills(c) :
            /\ since' = AddSince(since, month, b)
            /\ charged' = charged \/ charged' = AddIn(charged, tx[c].month, b)
      BY <2>1 DEF RecordLedger
    <3>2. cap' = cap /\ top' = top
      BY <2>1 DEF RecordLedger
    <3>3. ASSUME NEW k \in Kinds, NEW m \in Months PROVE charged'[k][m] <= since'[k][m]
      <4>1. /\ since[k][m] \in Nat /\ charged[k][m] \in Nat /\ b[k] \in Nat
            /\ month \in Nat /\ m \in Nat /\ tx[c].month <= month
        <5>1. since[k] \in [Months -> Nat] /\ charged[k] \in [Months -> Nat]
          BY DEF TypeOK
        <5>2. b \in [Kinds -> 0..MaxUse] /\ MaxUse \in Nat
          BY SpendAssumption DEF Bills
        <5>3. b[k] \in Nat
          BY <5>2
        <5>4. Months \subseteq Nat /\ month \in Months
          BY DEF TypeOK, Months
        <5>5. tx[c].month <= month
          BY <2>1 DEF RecordLedger, HoldInv
        <5> QED
          BY <5>1, <5>3, <5>4, <5>5
      <4>2. since'[k][m] = since[k][m] + IF m <= month THEN b[k] ELSE 0
        BY <3>1 DEF AddSince
      <4>3. \/ charged'[k][m] = charged[k][m]
            \/ m = tx[c].month /\ charged'[k][m] = charged[k][m] + b[k]
        <5>1. /\ AddIn(charged, tx[c].month, b)[k] =
                   [charged[k] EXCEPT ![tx[c].month] = @ + b[k]]
              /\ charged[k] \in [Months -> Nat]
          BY DEF AddIn, TypeOK
        <5> QED
          BY <3>1, <5>1
      <4> QED
        BY <4>1, <4>2, <4>3
    <3> QED
      BY <3>2, <3>3
  <2>2. CASE SetBudget
    <3>1. /\ cap' \in [Kinds -> Caps] /\ charged' = charged /\ since' = since
          /\ \A k \in Kinds : top'[k] = Larger(top[k], cap'[k])
      BY <2>2, SpendAssumption DEF SetBudget
    <3>2. ASSUME NEW k \in Kinds, top'[k] # None PROVE cap'[k] # None /\ cap'[k] <= top'[k]
      <4>1. cap'[k] \in Nat \cup {None} /\ top[k] \in Nat \cup {None}
        BY <3>1 DEF TypeOK, Caps
      <4>2. cap'[k] # None /\ top[k] # None
            /\ top'[k] = IF top[k] < cap'[k] THEN cap'[k] ELSE top[k]
        BY <3>1, <3>2 DEF Larger
      <4> QED
        BY <4>1, <4>2
    <3> QED
      BY <3>1, <3>2
  <2>3. UNCHANGED <<cap, top, since, charged>> => LedgerInv'
    OBVIOUS
  <2> QED
    BY <2>1, <2>2, <2>3
       DEF Next, CallStep, AdmitStep, AdmitBegin, AdmitUncapped, AdmitDeny, AdmitDecide,
           AdmitCommit, AdmitReplyLost, CommitAdmission, AdmitFail, RecordFail, Crash,
           ApproveBudget, Tick, NewMonth, vars, clocks, tables
<1> QED
  BY <1>1, <1>2, TypeCorrect, HoldDiscipline, PTL DEF Spec

-----------------------------------------------------------------------------
\* A product of naturals is a natural, and grows with either factor.
LEMMA Products ==
  /\ \A u, n \in Nat : u * n \in Nat
  /\ \A u, n, p \in Nat : n <= p => u * n <= u * p
  /\ \A u, n \in Nat : u * (n + 1) = u * n + u
  /\ \A u, n \in Nat : u # 0 => n <= u * n
  /\ \A u, n, p \in Nat : u * (n + (p + 1)) = u * n + (u * p + u)
  OBVIOUS

\* The calls in flight are finitely many.
LEMMA FlightFinite ==
  ASSUME NEW k \in Kinds, NEW m \in Months
  PROVE  /\ IsFiniteSet(InFlight(k, m)) /\ Cardinality(InFlight(k, m)) \in Nat
         /\ IsFiniteSet(InFlight(k, m)') /\ Cardinality(InFlight(k, m)') \in Nat
<1>1. InFlight(k, m) \subseteq Calls /\ InFlight(k, m)' \subseteq Calls
  BY DEF InFlight
<1> QED
  BY <1>1, SpendAssumption, FS_Subset, FS_CardinalityType

\* A step that bills nobody and puts no call in flight.
NoNewFlight ==
  /\ UNCHANGED charged /\ stalled \subseteq stalled'
  /\ \A d \in Calls : pc'[d] = "admitted" /\ capped'[d] /\ burn'[d] = {} =>
       pc[d] = "admitted" /\ capped[d] /\ burn[d] = {} /\ tx'[d] = tx[d]

\* Only a commit can add to what a month's calls may still come to: a
\* ledger row takes off the call's hold at least what it bills.
LEMMA ExposureShrinks ==
  ASSUME TypeOK, TypeOK', LockInv, [Next]_vars, ~ \E c \in Calls : AdmitCommit(c),
         NEW k \in Kinds, NEW m \in Months
  PROVE  /\ Exposure(k, m)' <= Exposure(k, m)
         /\ Cardinality(InFlight(k, m)') <= Cardinality(InFlight(k, m))
<1>0. /\ charged[k][m] \in Nat /\ charged'[k][m] \in Nat /\ MaxUse \in Nat
      /\ Cardinality(InFlight(k, m)) \in Nat /\ Cardinality(InFlight(k, m)') \in Nat
  BY FlightFinite, SpendAssumption DEF TypeOK
<1>1. ASSUME InFlight(k, m)' \subseteq InFlight(k, m), charged'[k][m] = charged[k][m]
      PROVE  /\ Exposure(k, m)' <= Exposure(k, m)
             /\ Cardinality(InFlight(k, m)') <= Cardinality(InFlight(k, m))
  <2>1. Cardinality(InFlight(k, m)') <= Cardinality(InFlight(k, m))
    BY <1>1, FlightFinite, FS_Subset
  <2> QED
    BY <2>1, <1>0, <1>1, Products DEF Exposure
<1>2. ASSUME NEW c \in Calls, RecordLedger(c)
      PROVE  /\ Exposure(k, m)' <= Exposure(k, m)
             /\ Cardinality(InFlight(k, m)') <= Cardinality(InFlight(k, m))
  <2>1. PICK b \in Bills(c) :
          charged' = IF capped[c] /\ burn[c] = {} /\ c \notin stalled THEN AddIn(charged, tx[c].month, b) ELSE charged
    BY <1>2 DEF RecordLedger
  <2>2. InFlight(k, m)' = InFlight(k, m) \ {c}
    BY <1>2 DEF RecordLedger, InFlight, MoveTo, TypeOK
  <2>3. CASE c \in InFlight(k, m)
    <3>0. Cardinality(InFlight(k, m) \ {c}) = Cardinality(InFlight(k, m)) - 1
      BY <2>3, FlightFinite, FS_RemoveElement
    <3>1. Cardinality(InFlight(k, m)) = Cardinality(InFlight(k, m)') + 1
      BY <2>2, <3>0, <1>0
    <3>2. b[k] \in Nat /\ b[k] <= MaxUse
      BY <1>0 DEF Bills
    <3>3. charged[k] \in [Months -> Nat] /\ tx[c].month = m /\ capped[c] /\ burn[c] = {} /\ c \notin stalled
      BY <2>3 DEF TypeOK, InFlight
    <3>4. charged'[k][m] = charged[k][m] + b[k]
      BY <2>1, <3>3 DEF AddIn
    <3>5. MaxUse * Cardinality(InFlight(k, m)) =
            MaxUse * Cardinality(InFlight(k, m)') + MaxUse
      BY <3>1, <1>0, Products
    <3>6. MaxUse * Cardinality(InFlight(k, m)') \in Nat
      BY <1>0, Products
    <3>7. Exposure(k, m)' = charged'[k][m] + MaxUse * Cardinality(InFlight(k, m)')
      BY DEF Exposure
    <3>8. Exposure(k, m) = charged[k][m] + MaxUse * Cardinality(InFlight(k, m))
      BY DEF Exposure
    <3> QED
      BY <3>1, <3>2, <3>4, <3>5, <3>6, <3>7, <3>8, <1>0
  <2>4. CASE c \notin InFlight(k, m)
    <3>1. capped[c] /\ burn[c] = {} /\ c \notin stalled /\ tx[c].month = m => b[k] = 0
      BY <2>4, <1>2 DEF InFlight, RecordLedger, Charges, Bills, Kinds
    <3>2. charged[k] \in [Months -> Nat] /\ tx[c].month \in Months
      BY DEF TypeOK
    <3>3. charged'[k][m] = charged[k][m]
      BY <2>1, <3>1, <3>2, <1>0 DEF AddIn
    <3> QED
      BY <1>1, <2>2, <3>3
  <2> QED
    BY <2>3, <2>4
<1>3. ASSUME NoNewFlight
      PROVE  /\ Exposure(k, m)' <= Exposure(k, m)
             /\ Cardinality(InFlight(k, m)') <= Cardinality(InFlight(k, m))
  BY <1>1, <1>3 DEF NoNewFlight, InFlight, Charges
<1> USE DEF NoNewFlight, MoveTo, clocks, tables, TypeOK
<1>4. ASSUME NEW c \in Calls, AdmitBegin(c) \/ AdmitUncapped(c) \/ AdmitDeny(c)
      PROVE  NoNewFlight
  BY <1>4 DEF AdmitBegin, AdmitUncapped, AdmitDeny, LockInv
<1>5. ASSUME NEW c \in Calls, AdmitDecide(c) \/ AdmitReplyLost(c) \/ AdmitFail(c)
      PROVE  NoNewFlight
  BY <1>5 DEF AdmitDecide, AdmitReplyLost, CommitAdmission, AdmitFail
<1>6. ASSUME NEW c \in Calls, RecordFail(c) \/ Crash(c)
      PROVE  NoNewFlight
  BY <1>6 DEF RecordFail, Crash
<1>7. ASSUME SetBudget \/ (\E g \in GrantIds : ApproveBudget(g)) \/ Tick \/ NewMonth \/ UNCHANGED vars
      PROVE  NoNewFlight
  BY <1>7 DEF SetBudget, ApproveBudget, Tick, NewMonth, vars
<1> QED
  BY <1>2, <1>3, <1>4, <1>5, <1>6, <1>7 DEF Next, CallStep, AdmitStep

\* A decision that needs no grant has seen every live call of its month.
LEMMA DecisionRoom ==
  ASSUME TypeOK, HoldInv, LedgerInv,
         NEW c \in Calls, AdmitDecide(c), burn'[c] = {}, NEW k \in Kinds, cap[k] # None
  PROVE  /\ Exposure(k, tx[c].month) + MaxUse <= MaxUse * cap[k]
         /\ Cardinality(InFlight(k, tx[c].month)) + 1 <= cap[k]
<1> DEFINE m == tx[c].month
           t == tx[c].at
           held == Cardinality(OpenHolds(k, m, t))
           flying == Cardinality(InFlight(k, m))
<1>0. /\ m \in Months /\ t \in Nat /\ cap[k] \in Nat /\ MaxUse \in Nat \ {0}
      /\ charged[k][m] \in Nat /\ since[k][m] \in Nat /\ flying \in Nat
  BY FlightFinite, SpendAssumption DEF TypeOK, Caps
<1>1. k \notin Exceeded(m, t)
  <2>1. PICK pick \in [Exceeded(m, t) -> GrantIds] :
          burn' = [burn EXCEPT ![c] = {pick[j] : j \in Exceeded(m, t)}]
    BY DEF AdmitDecide
  <2>2. burn'[c] = {pick[j] : j \in Exceeded(m, t)}
    BY <2>1 DEF TypeOK
  <2> QED
    BY <2>2
<1>2. since[k][m] + held < cap[k] /\ held \in Nat
  <2>1. IsFiniteSet(OpenHolds(k, m, t))
    BY SpendAssumption, FS_Subset DEF OpenHolds
  <2>2. held \in Nat
    BY <2>1, FS_CardinalityType
  <2>3. ~(since[k][m] + held >= cap[k])
    BY <1>1 DEF Exceeded, Committed
  <2> QED
    BY <1>0, <2>2, <2>3
<1>3. flying <= held
  <2>1. InFlight(k, m) \subseteq OpenHolds(k, m, t)
    <3> SUFFICES ASSUME NEW d \in InFlight(k, m) PROVE d \in OpenHolds(k, m, t)
      OBVIOUS
    <3>1. d \in Calls /\ pc[d] = "admitted" /\ d \notin stalled /\ capped[d] /\ Charges(d, k) /\ tx[d].month = m
      BY DEF InFlight
    <3>2. now <= tx[d].at + CallLimit /\ t <= now
      BY <3>1 DEF HoldInv, Busy
    <3>3. tx[d].at \in Nat /\ now \in Nat /\ m \in Nat
      BY <3>1, <1>0 DEF TypeOK, Months
    <3>4. Expires(d) > now /\ Expires(d) > t
      BY <3>2, <3>3, <1>0, SpendAssumption DEF Expires
    <3>5. rsv[d]
      BY <3>1, <3>4 DEF HoldInv
    <3> QED
      BY <3>1, <3>3, <3>4, <3>5 DEF OpenHolds
  <2>2. IsFiniteSet(OpenHolds(k, m, t))
    BY SpendAssumption, FS_Subset DEF OpenHolds
  <2> QED
    BY <2>1, <2>2, FS_Subset
<1>4. charged[k][m] + flying + 1 <= cap[k]
  BY <1>0, <1>2, <1>3 DEF LedgerInv
<1>5. MaxUse * (charged[k][m] + (flying + 1)) <= MaxUse * cap[k]
  BY <1>0, <1>4, Products
<1>6. MaxUse * (charged[k][m] + (flying + 1)) =
        MaxUse * charged[k][m] + (MaxUse * flying + MaxUse)
  BY <1>0, Products
<1>7. charged[k][m] <= MaxUse * charged[k][m]
  BY <1>0, Products
<1>8. /\ MaxUse * charged[k][m] \in Nat /\ MaxUse * flying \in Nat
      /\ MaxUse * cap[k] \in Nat /\ Exposure(k, m) = charged[k][m] + MaxUse * flying
  BY <1>0, Products DEF Exposure
<1> HIDE DEF flying, held
<1>9. Exposure(k, m) + MaxUse <= MaxUse * cap[k]
  BY <1>0, <1>5, <1>6, <1>7, <1>8
<1> QED
  BY <1>0, <1>4, <1>9 DEF flying

\* The room a decision saw is still there when it commits.
THEOREM RoomKept == Spec => []RoomInv
<1>1. Init => RoomInv
  BY DEF Init, RoomInv
<1>2. /\ TypeOK /\ TypeOK' /\ LockInv /\ LockInv' /\ HoldInv /\ LedgerInv /\ RoomInv /\ [Next]_vars
      => RoomInv'
  <2> SUFFICES ASSUME TypeOK, TypeOK', LockInv, LockInv', HoldInv, LedgerInv, RoomInv, [Next]_vars,
                      NEW c \in Calls, NEW k \in Kinds,
                      pc'[c] = "deciding", burn'[c] = {}, cap'[k] # None,
                      NEW m \in Months, m = tx[c].month
               PROVE  /\ tx'[c] = tx[c]
                      /\ Exposure(k, m)' + MaxUse <= MaxUse * cap'[k]
                      /\ Cardinality(InFlight(k, m)') + 1 <= cap'[k]
    <3>1. ASSUME NEW c \in Calls, NEW k \in Kinds, NEW m \in Months, tx'[c].month = m,
                 /\ Exposure(k, m)' + MaxUse <= MaxUse * cap'[k]
                 /\ Cardinality(InFlight(k, m)') + 1 <= cap'[k]
          PROVE  (/\ Exposure(k, tx[c].month) + MaxUse <= MaxUse * cap[k]
                  /\ Cardinality(InFlight(k, tx[c].month)) + 1 <= cap[k])'
      BY <3>1 DEF Exposure, InFlight
    <3> QED
      BY <3>1 DEF RoomInv, TypeOK
  <2>0. /\ MaxUse \in Nat
        /\ Exposure(k, m) \in Nat /\ Exposure(k, m)' \in Nat
        /\ Cardinality(InFlight(k, m)) \in Nat /\ Cardinality(InFlight(k, m)') \in Nat
    <3>1. /\ MaxUse \in Nat
          /\ Cardinality(InFlight(k, m)) \in Nat /\ Cardinality(InFlight(k, m)') \in Nat
          /\ charged[k][m] \in Nat /\ charged'[k][m] \in Nat
      BY FlightFinite, SpendAssumption DEF TypeOK
    <3>2. /\ MaxUse * Cardinality(InFlight(k, m)) \in Nat
          /\ MaxUse * Cardinality(InFlight(k, m)') \in Nat
      BY <3>1, Products
    <3>3. /\ Exposure(k, m) = charged[k][m] + MaxUse * Cardinality(InFlight(k, m))
          /\ Exposure(k, m)' = charged'[k][m] + MaxUse * Cardinality(InFlight(k, m)')
      BY DEF Exposure
    <3> QED
      BY <3>1, <3>2, <3>3
  <2>1. ~ \E d \in Calls : AdmitCommit(d)
    BY DEF AdmitCommit, CommitAdmission, LockInv, MoveTo, TypeOK
  <2>2. /\ Exposure(k, m)' <= Exposure(k, m)
        /\ Cardinality(InFlight(k, m)') <= Cardinality(InFlight(k, m))
    BY <2>0, <2>1, ExposureShrinks
  <2>3. CASE AdmitDecide(c)
    <3>1. cap' = cap /\ tx' = tx
      BY <2>3 DEF AdmitDecide, tables
    <3>2. /\ Exposure(k, m) + MaxUse <= MaxUse * cap[k]
          /\ Cardinality(InFlight(k, m)) + 1 <= cap[k]
      BY <2>3, <3>1, DecisionRoom
    <3>3. cap[k] \in Nat /\ MaxUse * cap[k] \in Nat
      BY <3>1, <2>0, Products DEF TypeOK, Caps
    <3> QED
      BY <3>1, <3>2, <3>3, <2>2, <2>0
  <2>4. CASE ~AdmitDecide(c)
    <3>1. pc[c] = "deciding" /\ burn[c] = {} /\ tx'[c] = tx[c] /\ lock = c
      <4> USE DEF MoveTo, TypeOK, clocks, tables
      <4>1. ASSUME NEW d \in Calls, AdmitBegin(d) \/ AdmitUncapped(d) \/ AdmitDeny(d)
            PROVE  pc[c] = "deciding" /\ burn[c] = {} /\ tx'[c] = tx[c]
        BY <4>1 DEF AdmitBegin, AdmitUncapped, AdmitDeny
      <4>2. ASSUME NEW d \in Calls, AdmitDecide(d) \/ AdmitFail(d)
            PROVE  pc[c] = "deciding" /\ burn[c] = {} /\ tx'[c] = tx[c]
        <5>1. d # c
          BY <4>2, <2>4 DEF AdmitFail
        <5> QED
          BY <4>2, <5>1 DEF AdmitDecide, AdmitFail
      <4>3. ASSUME NEW d \in Calls, AdmitReplyLost(d)
            PROVE  pc[c] = "deciding" /\ burn[c] = {} /\ tx'[c] = tx[c]
        BY <4>3 DEF AdmitReplyLost, CommitAdmission
      <4>4. ASSUME NEW d \in Calls, RecordLedger(d) \/ RecordFail(d) \/ Crash(d)
            PROVE  pc[c] = "deciding" /\ burn[c] = {} /\ tx'[c] = tx[c]
        BY <4>4 DEF RecordLedger, RecordFail, Crash
      <4>5. ASSUME SetBudget \/ (\E g \in GrantIds : ApproveBudget(g)) \/ Tick \/ NewMonth
                   \/ UNCHANGED vars
            PROVE  pc[c] = "deciding" /\ burn[c] = {} /\ tx'[c] = tx[c]
        BY <4>5 DEF SetBudget, ApproveBudget, Tick, NewMonth, vars
      <4>6. pc[c] = "deciding" /\ burn[c] = {} /\ tx'[c] = tx[c]
        BY <4>1, <4>2, <4>3, <4>4, <4>5, <2>1 DEF Next, CallStep, AdmitStep
      <4> QED
        BY <4>6 DEF LockInv
    <3>2. cap' = cap
      BY <3>1, SpendAssumption
         DEF Next, CallStep, AdmitStep, AdmitBegin, AdmitUncapped, AdmitDeny, AdmitDecide,
             AdmitCommit, AdmitReplyLost, CommitAdmission, AdmitFail, RecordLedger, RecordFail,
             Crash, SetBudget, ApproveBudget, Tick, NewMonth, vars, tables
    <3>3. /\ Exposure(k, m) + MaxUse <= MaxUse * cap[k]
          /\ Cardinality(InFlight(k, m)) + 1 <= cap[k]
      BY <3>1, <3>2 DEF RoomInv
    <3>4. cap[k] \in Nat /\ MaxUse * cap[k] \in Nat
      BY <3>2, <2>0, Products DEF TypeOK, Caps
    <3> QED
      BY <3>1, <3>2, <3>3, <3>4, <2>2, <2>0
  <2> QED
    BY <2>3, <2>4
<1> QED
  BY <1>1, <1>2, TypeCorrect, LockDiscipline, HoldDiscipline, LedgerContains, PTL DEF Spec

\* The calls one month admitted on a cap alone are never, between them,
\* billed more than that cap's worth of largest bills, whatever the number
\* of replicas that admit at once; a call whose client stalls adds its own bill
\* and no more (AdmitSpend's lock and reservation).
THEOREM CapBound == Spec => []CapBoundsMonth
<1>1. Init => CapBoundsMonth
  <2> SUFFICES ASSUME Init, NEW k \in Kinds, NEW m \in Months, top[k] # None
               PROVE  charged[k][m] + MaxUse * Cardinality(InFlight(k, m)) <= MaxUse * top[k]
    BY DEF CapBoundsMonth
  <2>1. InFlight(k, m) = {} /\ charged[k][m] = 0
    BY DEF Init, InFlight
  <2>2. Cardinality(InFlight(k, m)) = 0
    BY <2>1, FS_EmptySet
  <2>3. top[k] \in Nat /\ MaxUse \in Nat
    BY SpendAssumption DEF Init, Caps
  <2>4. MaxUse * top[k] \in Nat /\ MaxUse * 0 = 0
    BY <2>3, Products
  <2> QED
    BY <2>1, <2>2, <2>4
<1>2. /\ TypeOK /\ TypeOK' /\ LockInv /\ LedgerInv /\ RoomInv /\ CapBoundsMonth /\ [Next]_vars
      => CapBoundsMonth'
  <2> SUFFICES ASSUME TypeOK, TypeOK', LockInv, LedgerInv, RoomInv, CapBoundsMonth, [Next]_vars,
                      NEW k \in Kinds, NEW m \in Months, top'[k] # None
               PROVE  Exposure(k, m)' <= MaxUse * top'[k]
    BY DEF CapBoundsMonth, Exposure
  <2>0. /\ MaxUse \in Nat /\ charged[k][m] \in Nat /\ charged'[k][m] \in Nat
        /\ Cardinality(InFlight(k, m)) \in Nat /\ Cardinality(InFlight(k, m)') \in Nat
    BY FlightFinite, SpendAssumption DEF TypeOK
  <2>1. /\ MaxUse * Cardinality(InFlight(k, m)) \in Nat
        /\ MaxUse * Cardinality(InFlight(k, m)') \in Nat
    BY <2>0, Products
  <2>2. /\ Exposure(k, m) = charged[k][m] + MaxUse * Cardinality(InFlight(k, m))
        /\ Exposure(k, m)' = charged'[k][m] + MaxUse * Cardinality(InFlight(k, m)')
    BY DEF Exposure
  <2>3. top[k] # None /\ top[k] \in Nat /\ top'[k] \in Nat /\ top[k] <= top'[k]
    <3>1. top' = top \/ top'[k] = Larger(top[k], cap'[k])
      BY DEF Next, CallStep, AdmitStep, AdmitBegin, AdmitUncapped, AdmitDeny, AdmitDecide,
             AdmitCommit, AdmitReplyLost, CommitAdmission, AdmitFail, RecordLedger, RecordFail,
             Crash, SetBudget, ApproveBudget, Tick, NewMonth, vars, tables
    <3> QED
      BY <3>1 DEF TypeOK, Caps, Larger
  <2>4. /\ MaxUse * top[k] \in Nat /\ MaxUse * top'[k] \in Nat
        /\ MaxUse * top[k] <= MaxUse * top'[k]
    BY <2>0, <2>3, Products
  <2>5. Exposure(k, m) <= MaxUse * top[k]
    BY <2>2, <2>3 DEF CapBoundsMonth
  <2>6. ASSUME NEW c \in Calls, AdmitCommit(c) PROVE Exposure(k, m)' <= MaxUse * top'[k]
    <3> USE <2>6 DEF AdmitCommit, CommitAdmission, MoveTo
    <3>1. UNCHANGED <<charged, top, cap, tx, burn, stalled>> /\ pc[c] = "deciding"
      OBVIOUS
    <3>2. CASE burn[c] = {} /\ Charges(c, k) /\ tx[c].month = m
      <4>1. InFlight(k, m)' = InFlight(k, m) \cup {c}
        BY <3>1, <3>2 DEF InFlight, Charges, TypeOK, LockInv
      <4>2. c \notin InFlight(k, m)
        BY DEF InFlight
      <4>3. Cardinality(InFlight(k, m) \cup {c}) = Cardinality(InFlight(k, m)) + 1
        BY <4>2, FlightFinite, FS_AddElement
      <4>4. MaxUse * (Cardinality(InFlight(k, m)) + 1) =
              MaxUse * Cardinality(InFlight(k, m)) + MaxUse
        BY <2>0, Products
      <4>5. cap[k] # None /\ cap[k] \in Nat /\ cap[k] <= top[k]
        BY <2>3 DEF LedgerInv, TypeOK, Caps
      <4>6. Exposure(k, m) + MaxUse <= MaxUse * cap[k]
        BY <3>1, <3>2, <4>5 DEF RoomInv
      <4>7. MaxUse * cap[k] \in Nat /\ MaxUse * cap[k] <= MaxUse * top[k]
        BY <2>0, <2>3, <4>5, Products
      <4>8. Exposure(k, m)' = Exposure(k, m) + MaxUse
        BY <2>0, <2>1, <2>2, <3>1, <4>1, <4>3, <4>4
      <4>9. Exposure(k, m) \in Nat
        BY <2>0, <2>1, <2>2
      <4> QED
        BY <4>6, <4>7, <4>8, <4>9, <2>4, <2>0
    <3>3. CASE ~(burn[c] = {} /\ Charges(c, k) /\ tx[c].month = m)
      <4>1. InFlight(k, m)' = InFlight(k, m)
        BY <3>3 DEF InFlight, Charges, TypeOK
      <4> QED
        BY <2>0, <2>1, <2>2, <2>4, <2>5, <3>1, <4>1
    <3> QED
      BY <3>2, <3>3
  <2>7. CASE ~ \E c \in Calls : AdmitCommit(c)
    <3>1. Exposure(k, m)' <= Exposure(k, m)
      BY <2>7, ExposureShrinks
    <3> QED
      BY <3>1, <2>0, <2>1, <2>2, <2>4, <2>5
  <2> QED
    BY <2>6, <2>7
<1> QED
  BY <1>1, <1>2, TypeCorrect, LockDiscipline, LedgerContains, RoomKept, PTL DEF Spec

\* A budget change never slips between a decision and its commit: when a
\* reservation lands without a grant, the month's calls in flight fit under
\* the cap then in force (Store.SetBudget waits for the same row lock).
THEOREM FitsCap == Spec => AdmissionFitsCap
<1>1. /\ TypeOK /\ TypeOK' /\ LockInv /\ RoomInv /\ [Next]_vars
      => [\A c \in Calls, k \in Kinds :
            (pc[c] = "deciding" /\ pc'[c] = "admitted" /\ burn[c] = {}
               /\ cap'[k] # None /\ Charges(c, k))
            => Cardinality(InFlight(k, tx[c].month)') <= cap'[k]]_vars
  <2> SUFFICES ASSUME TypeOK, LockInv, RoomInv, [Next]_vars, NEW c \in Calls, NEW k \in Kinds,
                      pc[c] = "deciding", pc'[c] = "admitted", burn[c] = {},
                      cap'[k] # None, Charges(c, k)
               PROVE  Cardinality(InFlight(k, tx[c].month)') <= cap'[k]
    OBVIOUS
  <2>0. PICK m \in Months : tx[c].month = m
    BY DEF TypeOK
  <2>1. AdmitCommit(c)
    <3> USE DEF MoveTo, TypeOK
    <3>1. \A d \in Calls : ~AdmitBegin(d) /\ ~AdmitUncapped(d) /\ ~AdmitDeny(d) /\ ~AdmitDecide(d)
      BY DEF AdmitBegin, AdmitUncapped, AdmitDeny, AdmitDecide
    <3>2. \A d \in Calls : ~AdmitReplyLost(d) /\ ~AdmitFail(d) /\ ~RecordLedger(d)
                           /\ ~RecordFail(d) /\ ~Crash(d) /\ (AdmitCommit(d) => d = c)
      <4>0. \A d \in Calls, p \in {"admitted", "refused", "done", "lost"} :
              MoveTo(d, p) => d = c /\ p = "admitted"
        OBVIOUS
      <4> HIDE DEF MoveTo
      <4> QED
        BY <4>0 DEF AdmitReplyLost, AdmitCommit, AdmitFail, RecordLedger, RecordFail, Crash
    <3>3. ~(SetBudget \/ (\E g \in GrantIds : ApproveBudget(g)) \/ Tick \/ NewMonth \/ UNCHANGED vars)
      BY DEF SetBudget, ApproveBudget, Tick, NewMonth, vars
    <3> QED
      BY <3>1, <3>2, <3>3 DEF Next, CallStep, AdmitStep
  <2>2. cap' = cap /\ tx' = tx
    BY <2>1 DEF AdmitCommit, CommitAdmission
  <2>3. InFlight(k, m)' \subseteq InFlight(k, m) \cup {c}
    BY <2>1 DEF AdmitCommit, CommitAdmission, MoveTo, InFlight, Charges, TypeOK
  <2>4. Cardinality(InFlight(k, m)) + 1 <= cap[k] /\ cap[k] \in Nat
    <3>1. cap[k] # None /\ cap[k] \in Nat
      BY <2>2 DEF TypeOK, Caps
    <3> QED
      BY <2>0, <3>1 DEF RoomInv
  <2>5. /\ IsFiniteSet(InFlight(k, m) \cup {c})
        /\ Cardinality(InFlight(k, m) \cup {c}) <= Cardinality(InFlight(k, m)) + 1
    <3>1. c \notin InFlight(k, m)
      BY DEF InFlight
    <3>2. Cardinality(InFlight(k, m) \cup {c}) = Cardinality(InFlight(k, m)) + 1
      BY <3>1, FlightFinite, FS_AddElement
    <3>3. Cardinality(InFlight(k, m)) \in Nat /\ IsFiniteSet(InFlight(k, m) \cup {c})
      BY FlightFinite, FS_AddElement
    <3> QED
      BY <3>2, <3>3
  <2>6. /\ Cardinality(InFlight(k, m)') <= Cardinality(InFlight(k, m) \cup {c})
        /\ Cardinality(InFlight(k, m) \cup {c}) \in Nat
    BY <2>3, <2>5, FS_Subset, FS_CardinalityType
  <2>7. InFlight(k, tx[c].month)' = InFlight(k, m)'
    BY <2>0, <2>2 DEF InFlight
  <2>8. Cardinality(InFlight(k, m)) \in Nat /\ Cardinality(InFlight(k, m)') \in Nat
    <3>1. IsFiniteSet(InFlight(k, m)')
      BY <2>3, <2>5, FS_Subset
    <3> QED
      BY <3>1, FlightFinite, FS_CardinalityType
  <2>9. Cardinality(InFlight(k, m)') <= cap'[k]
    <3> HIDE DEF RoomInv, TypeOK
    <3> QED
      BY <2>2, <2>4, <2>5, <2>6, <2>8
  <2> QED
    BY <2>7, <2>9
<1> QED
  BY <1>1, TypeCorrect, LockDiscipline, RoomKept, PTL DEF Spec, AdmissionFitsCap

-----------------------------------------------------------------------------
\* A use count is the number of admissions the grant paid for.
LEMMA CommitBurns ==
  ASSUME TypeOK, BurnMinted, LockInv, BurnInv, GrantUsesExact,
         NEW c \in Calls, CommitAdmission(c), NEW g \in GrantIds, grant'[g] # None
  PROVE  /\ grant'[g].uses = Cardinality(Consumers(g)')
         /\ grant'[g].maxUses # None => grant'[g].uses <= grant'[g].maxUses
<1>0. /\ burn' = burn /\ capped' = [capped EXCEPT ![c] = TRUE] /\ pc[c] = "deciding"
  BY DEF CommitAdmission
<1>1. IsFiniteSet(Consumers(g))
  BY SpendAssumption, FS_Subset DEF Consumers
<1>2. CASE g \in burn[c]
  <2>1. Consumers(g)' = Consumers(g) \cup {c} /\ c \notin Consumers(g)
    BY <1>0, <1>2 DEF Consumers, TypeOK, LockInv
  <2>2. Cardinality(Consumers(g) \cup {c}) = Cardinality(Consumers(g)) + 1
    BY <1>1, <2>1, FS_AddElement
  <2>3. /\ grant'[g].uses = grant[g].uses + 1 /\ grant'[g].maxUses = grant[g].maxUses
        /\ grant[g] # None /\ grant[g] \in GrantRow
    BY <1>2, BurnUse DEF BurnMinted
  <2>4. grant[g].uses = Cardinality(Consumers(g))
    BY <2>3 DEF GrantUsesExact
  <2>5. grant[g].maxUses # None => grant[g].uses < grant[g].maxUses
    BY <1>0, <1>2 DEF BurnInv
  <2>6. grant[g].uses \in Nat /\ grant[g].maxUses \in Caps
    BY <2>3 DEF GrantRow
  <2> QED
    BY <2>1, <2>2, <2>3, <2>4, <2>5, <2>6 DEF Caps
<1>3. CASE g \notin burn[c]
  <2>1. Consumers(g)' = Consumers(g)
    BY <1>0, <1>3 DEF Consumers, TypeOK
  <2>2. grant'[g] = grant[g]
    BY <1>3, BurnUse
  <2> QED
    BY <2>1, <2>2 DEF GrantUsesExact
<1> QED
  BY <1>2, <1>3

\* A grant pays for exactly as many admissions as its use count says and
\* for no more than its bound, whichever transactions raced or rolled back
\* (consumeGrantLocked under the credential's lock).
THEOREM GrantUses == Spec => []GrantUsesExact
<1>1. Init => GrantUsesExact /\ BurnInv
  BY DEF Init, GrantUsesExact, BurnInv
<1>2. /\ TypeOK /\ TypeOK' /\ BurnMinted /\ LockInv /\ LockInv' /\ BurnInv /\ GrantUsesExact /\ [Next]_vars
      => GrantUsesExact' /\ BurnInv'
  <2> SUFFICES ASSUME TypeOK, TypeOK', BurnMinted, LockInv, LockInv', BurnInv, GrantUsesExact, [Next]_vars
               PROVE  GrantUsesExact' /\ BurnInv'
    OBVIOUS
  <2>1. ASSUME NEW c \in Calls, CommitAdmission(c), NEW p \in {"admitted", "refused"}, MoveTo(c, p)
        PROVE  GrantUsesExact' /\ BurnInv'
    <3>1. GrantUsesExact'
      BY <2>1, CommitBurns DEF GrantUsesExact
    <3>2. \A d \in Calls : pc'[d] # "deciding"
      BY <2>1 DEF LockInv, TypeOK, MoveTo, CommitAdmission
    <3> QED
      BY <3>1, <3>2 DEF BurnInv
  <2>2. ASSUME UNCHANGED grant, \A g \in GrantIds : Consumers(g)' = Consumers(g)
        PROVE  GrantUsesExact'
    BY <2>2 DEF GrantUsesExact
  <2>3. ASSUME UNCHANGED <<grant, capped>>, NEW c \in Calls, ~capped[c],
               burn' = burn \/ \E s \in SUBSET GrantIds : burn' = [burn EXCEPT ![c] = s]
        PROVE  GrantUsesExact'
    <3>1. \A d \in Calls : d # c => burn'[d] = burn[d]
      BY <2>3 DEF TypeOK
    <3> QED
      BY <2>2, <2>3, <3>1 DEF Consumers
  <2>4. ASSUME UNCHANGED <<grant, capped, burn>> PROVE GrantUsesExact'
    BY <2>2, <2>4 DEF Consumers
  <2>5. ASSUME UNCHANGED grant,
               \A d \in Calls : pc'[d] = "deciding" => pc[d] = "deciding" /\ burn'[d] = burn[d]
        PROVE  BurnInv'
    BY <2>5 DEF BurnInv
  <2>6. ASSUME NEW c \in Calls, AdmitDecide(c) PROVE GrantUsesExact' /\ BurnInv'
    <3>1. ~capped[c] /\ UNCHANGED <<grant, capped>> /\ (\A d \in Calls : d # c => pc'[d] # "deciding")
      BY <2>6, SpendAssumption DEF AdmitDecide, LockInv, TypeOK, tables
    <3>2. PICK s \in SUBSET GrantIds : /\ burn' = [burn EXCEPT ![c] = s]
                                       /\ \A g \in s : Live(g, tx[c].at)
      <4>1. PICK pick \in [Exceeded(tx[c].month, tx[c].at) -> GrantIds] :
              /\ \A k \in Exceeded(tx[c].month, tx[c].at) : pick[k] \in Oldest(k, tx[c].at)
              /\ burn' = [burn EXCEPT ![c] = {pick[k] : k \in Exceeded(tx[c].month, tx[c].at)}]
        BY <2>6 DEF AdmitDecide
      <4>2. \A k \in Exceeded(tx[c].month, tx[c].at) : Live(pick[k], tx[c].at)
        BY <4>1 DEF Oldest, LiveOf
      <4>3. {pick[k] : k \in Exceeded(tx[c].month, tx[c].at)} \in SUBSET GrantIds
        BY <4>1
      <4> DEFINE s == {pick[k] : k \in Exceeded(tx[c].month, tx[c].at)}
      <4>4. \A g \in s : Live(g, tx[c].at)
        BY <4>2
      <4> HIDE DEF s
      <4>5. s \in SUBSET GrantIds /\ burn' = [burn EXCEPT ![c] = s]
        BY <4>1, <4>3 DEF s
      <4> QED
        BY <4>4, <4>5
    <3>3. BurnInv'
      BY <3>1, <3>2 DEF BurnInv, Live, TypeOK
    <3> QED
      BY <2>3, <3>1, <3>2, <3>3
  <2>7. ASSUME NEW g \in GrantIds, ApproveBudget(g) PROVE GrantUsesExact' /\ BurnInv'
    <3>1. /\ grant[g] = None /\ UNCHANGED <<burn, capped, pc>>
          /\ \A h \in GrantIds : h # g => grant'[h] = grant[h]
      BY <2>7 DEF ApproveBudget, TypeOK
    <3>2. \A d \in Calls : g \notin burn[d]
      BY <3>1 DEF BurnMinted
    <3>3. \A h \in GrantIds : Consumers(h)' = Consumers(h)
      BY <3>1 DEF Consumers
    <3>4. Consumers(g)' = {} /\ Cardinality({}) = 0
      BY <3>2, <3>1, FS_EmptySet DEF Consumers
    <3>5. grant'[g].uses = 0 /\ grant'[g].maxUses \in Nat \cup {None}
      BY <2>7, SpendAssumption DEF ApproveBudget, TypeOK
    <3>6. GrantUsesExact'
      BY <3>1, <3>3, <3>4, <3>5 DEF GrantUsesExact
    <3>7. BurnInv'
      BY <3>1, <3>2 DEF BurnInv
    <3> QED
      BY <3>6, <3>7
  <2>8. ASSUME NEW c \in Calls, AdmitFail(c) \/ Crash(c) PROVE GrantUsesExact' /\ BurnInv'
    <3>1. /\ UNCHANGED <<grant, capped>>
          /\ \A d \in Calls : pc'[d] = "deciding" => pc[d] = "deciding" /\ burn'[d] = burn[d]
      BY <2>8 DEF AdmitFail, Crash, MoveTo, TypeOK, tables
    <3>2. burn' = burn \/ (burn' = [burn EXCEPT ![c] = {}] /\ ~capped[c])
      BY <2>8 DEF AdmitFail, Crash, LockInv
    <3> QED
      BY <2>3, <2>4, <2>5, <3>1, <3>2
  <2>9. ASSUME NEW c \in Calls, AdmitBegin(c) \/ AdmitUncapped(c) \/ AdmitDeny(c)
        PROVE  GrantUsesExact' /\ BurnInv'
    <3>1. /\ UNCHANGED <<grant, capped, burn>>
          /\ \A d \in Calls : pc'[d] = "deciding" => pc[d] = "deciding"
      BY <2>9 DEF AdmitBegin, AdmitUncapped, AdmitDeny, MoveTo, TypeOK, tables
    <3> QED
      BY <2>4, <2>5, <3>1
  <2>10. ASSUME NEW c \in Calls, RecordLedger(c) \/ RecordFail(c)
         PROVE  GrantUsesExact' /\ BurnInv'
    <3>1. /\ UNCHANGED <<grant, capped, burn>>
          /\ \A d \in Calls : pc'[d] = "deciding" => pc[d] = "deciding"
      BY <2>10 DEF RecordLedger, RecordFail, MoveTo, TypeOK, tables
    <3> QED
      BY <2>4, <2>5, <3>1
  <2>11. CASE SetBudget \/ Tick \/ NewMonth \/ UNCHANGED vars
    <3>1. UNCHANGED <<grant, capped, burn, pc>>
      BY <2>11 DEF SetBudget, Tick, NewMonth, vars, tables
    <3> QED
      BY <2>4, <2>5, <3>1
  <2> QED
    BY <2>1, <2>6, <2>7, <2>8, <2>9, <2>10, <2>11
       DEF Next, CallStep, AdmitStep, AdmitCommit, AdmitReplyLost
<1> QED
  BY <1>1, <1>2, TypeCorrect, LockDiscipline, PTL DEF Spec

=============================================================================

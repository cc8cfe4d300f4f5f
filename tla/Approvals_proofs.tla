-------------------------- MODULE Approvals_proofs --------------------------
(***************************************************************************)
(* Approvals proved for every number of requests, grants, uses, deciders   *)
(* and bounds.                                                             *)
(*                                                                         *)
(* What is decided and what is used are two stories that meet in the       *)
(* grant.  A decision is sound because its row lock keeps the request      *)
(* pending until it commits; a use is exact because the credential lock    *)
(* keeps the grant it chose live until it commits.                         *)
(***************************************************************************)
EXTENDS Approvals, FiniteSetTheorems, SequenceTheorems, TLAPS

\* A transaction that has begun is about a row that exists, and so is a
\* use that chose its grant.
Begun ==
  /\ \A d \in Deciders : dpc[d] # "idle" =>
       verdict[d] \in Verdict /\ req[verdict[d].req] # None
  /\ \A u \in Uses : upc[u] # "idle" => use[u] \in Use
  /\ \A u \in Uses : upc[u] \in {"taking", "granted", "lost"} =>
       burn[u] \in GrantIds /\ grant[burn[u]] # None

\* A row lock is held by the one transaction that is deciding its request,
\* which is still pending and still grantable.
DecideInv ==
  /\ \A d \in Deciders : dpc[d] = "holding" =>
       rowLock[verdict[d].req] = d /\ Decidable(d)
  /\ \A d \in Deciders, r \in ReqIds : rowLock[r] = d =>
       dpc[d] = "holding" /\ verdict[d].req = r

\* A grant is for the call of the approved request it was minted from,
\* unless it is the old verb-level one.
GrantFor(g, k) ==
  /\ grant[g].kind = k.kind /\ grant[g].subject = k.subject
  /\ \/ /\ grant[g].digest = IF k.kind = "tool" THEN k.digest ELSE None
        /\ k.kind = "tool" => k.digest # NoDigest
     \/ g = OldGrant /\ k = OldKey /\ grant[g].digest = None

GrantInv ==
  \A g \in GrantIds : grant[g] # None =>
    /\ req[grant[g].req] # None
    /\ req[grant[g].req].status = "approved"
    /\ GrantFor(g, req[grant[g].req].key)

\* A step leaves what g is for, and its end, as they were.
SameGrant(g) ==
  /\ grant'[g] # None
  /\ grant'[g].req = grant[g].req /\ grant'[g].kind = grant[g].kind
  /\ grant'[g].subject = grant[g].subject /\ grant'[g].digest = grant[g].digest
  /\ grant'[g].expires = grant[g].expires /\ grant'[g].maxUses = grant[g].maxUses
  /\ grant'[g].by = grant[g].by

\* The credential lock is held by the one use being taken, and the grant it
\* chose is still live for it; a use that was taken keeps what it was for.
Unexpired(g, t) == grant[g].expires = None \/ grant[g].expires > t

UseInv ==
  /\ \A u \in Uses : upc[u] \in {"taking", "granted", "lost"} =>
       Admits(burn[u], use[u].key) /\ Unexpired(burn[u], use[u].at)
  /\ \A u \in Uses : upc[u] = "taking" <=> credLock = u
  /\ \A u \in Uses : upc[u] = "taking" => Live(burn[u], use[u].at)

-----------------------------------------------------------------------------
\* A use burned leaves a well-formed row that differs in its count alone.
LEMMA UsedRow ==
  ASSUME NEW x \in GrantRow
  PROVE  LET y == [x EXCEPT !.uses = x.uses + 1] IN
         /\ y \in GrantRow /\ y.uses = x.uses + 1
         /\ y.req = x.req /\ y.kind = x.kind /\ y.subject = x.subject
         /\ y.digest = x.digest /\ y.expires = x.expires /\ y.maxUses = x.maxUses /\ y.by = x.by
BY DEF GrantRow

\* An approval mints a well-formed grant.
LEMMA Minted ==
  ASSUME TypeOK, Begun, NEW d \in Deciders, NEW g \in GrantIds, ApproveCommit(d, g)
  PROVE  grant'[g] \in GrantRow
<1> DEFINE v == verdict[d]
           k == req[v.req].key
           new == [req |-> v.req, kind |-> k.kind, subject |-> k.subject,
                   digest |-> IF k.kind = "tool" THEN k.digest ELSE None,
                   expires |-> v.terms.expires, maxUses |-> v.terms.maxUses,
                   uses |-> 0, created |-> v.at, by |-> d]
<1> USE ApprovalsAssumption
<1>1. v \in Verdict /\ v.terms \in Terms /\ req[v.req] \in ReqRow
  BY DEF ApproveCommit, Verdict, TypeOK, Begun
<1>2. k \in Keys /\ k.kind \in Kinds /\ v.req \in ReqIds /\ v.at \in Nat
  BY <1>1 DEF ReqRow, Verdict
<1>3. v.terms.expires \in Nat \cup {None} /\ v.terms.maxUses \in Nat \cup {None}
  BY <1>1 DEF Terms
<1>4. new \in GrantRow
  BY <1>2, <1>3 DEF GrantRow
<1>5. grant' = [grant EXCEPT ![g] = new] /\ g \in DOMAIN grant
  BY DEF ApproveCommit, TypeOK
<1> HIDE DEF new
<1> QED
  BY <1>4, <1>5

\* Every variable keeps its type: what the tables and the transactions hold.
Typed == TypeOK /\ Begun

THEOREM TypeCorrect == Spec => []TypeOK /\ []Begun
<1>1. Init => Typed
  <2> SUFFICES ASSUME Init PROVE Typed
    OBVIOUS
  <2>1. PICK done \in BOOLEAN, by \in Deciders, n \in 1..MaxUses :
          (done => OldReq # None /\ OldGrant # None) /\ OldRows(done, by, n)
    BY DEF Init
  <2> USE ApprovalsAssumption, <2>1 DEF OldRows
  <2>2. req \in [ReqIds -> ReqRow \cup {None}]
    BY DEF ReqRow
  <2>3. grant \in [GrantIds -> GrantRow \cup {None}]
    BY DEF GrantRow, Kinds
  <2>4. trail \in [ReqIds -> Seq(Entry)]
    <3>1. [action |-> "requested", by |-> None] \in Entry /\ [action |-> "approved", by |-> by] \in Entry
      BY DEF Entry
    <3> QED
      BY <3>1
  <2> QED
    BY <2>2, <2>3, <2>4 DEF Init, Typed, TypeOK, Begun
<1>2. Typed /\ [Next]_vars => Typed'
  <2> SUFFICES ASSUME TypeOK, Begun, [Next]_vars PROVE TypeOK' /\ Begun'
    BY DEF Typed
  <2> USE ApprovalsAssumption DEF TypeOK, Begun, decisions, consumption
  <2>0. ReqRow \cap {None} = {} /\ GrantRow \cap {None} = {}
    OBVIOUS
  <2>1. ASSUME NEW r \in ReqIds, NEW k \in Keys, FileRequest(r, k) PROVE TypeOK' /\ Begun'
    <3>1. [action |-> "requested", by |-> None] \in Entry
      BY DEF Entry
    <3>2. [key |-> k, status |-> "pending", by |-> None] \in ReqRow
      BY DEF ReqRow
    <3> QED
      BY <2>0, <2>1, <3>1, <3>2 DEF FileRequest
  <2>2. ASSUME NEW d \in Deciders, NEW r \in ReqIds, NEW t \in Terms \cup {None},
               DecideBegin(d, r, t) PROVE TypeOK' /\ Begun'
    BY <2>2 DEF DecideBegin, Verdict
  <2>3. ASSUME NEW d \in Deciders, DecideLock(d) PROVE TypeOK' /\ Begun'
    BY <2>3 DEF DecideLock, Verdict
  <2>4. ASSUME NEW d \in Deciders, DecideRefused(d) PROVE TypeOK' /\ Begun'
    BY <2>4 DEF DecideRefused, DecideEnd
  <2>5. ASSUME NEW d \in Deciders, NEW status \in {"approved", "denied"},
               dpc[d] = "holding", Decided(d, status)
        PROVE  /\ req' \in [ReqIds -> ReqRow \cup {None}]
               /\ trail' \in [ReqIds -> Seq(Entry)]
               /\ \A r \in ReqIds : req[r] # None => req'[r] # None
    <3> DEFINE r == verdict[d].req
    <3>1. r \in ReqIds /\ req[r] \in ReqRow
      BY <2>5 DEF Verdict
    <3>2. [req[r] EXCEPT !.status = status, !.by = d] \in ReqRow
      BY <3>1 DEF ReqRow
    <3>3. [action |-> status, by |-> d] \in Entry
      BY DEF Entry
    <3>4. req' = [req EXCEPT ![r] = [req[r] EXCEPT !.status = status, !.by = d]]
      BY <2>5, <3>1 DEF Decided, ReqRow
    <3>5. trail' = [trail EXCEPT ![r] = Append(trail[r], [action |-> status, by |-> d])]
      BY <2>5 DEF Decided
    <3>6. Append(trail[r], [action |-> status, by |-> d]) \in Seq(Entry)
      BY <3>1, <3>3
    <3>7. req[r] # None
      BY <2>5
    <3> HIDE DEF r
    <3>8. req' \in [ReqIds -> ReqRow \cup {None}]
      BY <3>1, <3>2, <3>4
    <3>9. trail' \in [ReqIds -> Seq(Entry)]
      BY <3>1, <3>5, <3>6
    <3>10. \A s \in ReqIds : req[s] # None => req'[s] # None
      BY <2>0, <3>1, <3>2, <3>4
    <3> QED
      BY <3>8, <3>9, <3>10
  <2>6. ASSUME NEW d \in Deciders, NEW g \in GrantIds, ApproveCommit(d, g)
        PROVE TypeOK' /\ Begun'
    <3>1. grant' \in [GrantIds -> GrantRow \cup {None}]
      <4>1. grant'[g] \in GrantRow
        BY <2>6, Minted
      <4>2. PICK row : grant' = [grant EXCEPT ![g] = row]
        BY <2>6 DEF ApproveCommit
      <4>3. row = grant'[g]
        BY <4>2
      <4> QED
        BY <4>1, <4>2, <4>3
    <3>2. \A h \in GrantIds : grant[h] # None => grant'[h] # None
      BY <2>6 DEF ApproveCommit
    <3>3. Decided(d, "approved") /\ dpc[d] = "holding" /\ DecideEnd(d)
      BY <2>6 DEF ApproveCommit
    <3>4. verdict[d].req \in ReqIds /\ req[verdict[d].req] # None
      BY <3>3 DEF Verdict
    <3>5. dpc' \in [Deciders -> {"idle", "waiting", "holding"}] /\ UNCHANGED <<credLock, upc, use, burn, now>>
      BY <3>3, <2>6 DEF DecideEnd, ApproveCommit, consumption
    <3>6. verdict' \in [Deciders -> Verdict \cup {None}] /\ rowLock' \in [ReqIds -> Deciders \cup {None}]
      BY <3>3 DEF DecideEnd
    <3>7. \A r \in ReqIds : req[r] # None => req'[r] # None
      BY <3>3, <2>5
    <3>8. req' \in [ReqIds -> ReqRow \cup {None}] /\ trail' \in [ReqIds -> Seq(Entry)]
      BY <3>3, <2>5
    <3>9. \A e \in Deciders : dpc'[e] # "idle" => dpc[e] # "idle" /\ verdict'[e] = verdict[e]
      BY <3>3 DEF DecideEnd
    <3>10. TypeOK'
      BY <3>1, <3>5, <3>6, <3>8
    <3>11. Begun'
      BY <3>2, <3>5, <3>7, <3>9 DEF Verdict
    <3> QED
      BY <3>10, <3>11
  <2>7. ASSUME NEW d \in Deciders, DenyCommit(d) PROVE TypeOK' /\ Begun'
    <3>1. Decided(d, "denied") /\ dpc[d] = "holding" /\ DecideEnd(d) /\ UNCHANGED grant
      BY <2>7 DEF DenyCommit
    <3> QED
      BY <3>1, <2>5 DEF DecideEnd, Verdict
  <2>8. ASSUME NEW d \in Deciders, DecideFail(d) PROVE TypeOK' /\ Begun'
    BY <2>8 DEF DecideFail, DecideEnd
  <2>9. ASSUME NEW u \in Uses, NEW k \in Keys, UseBegin(u, k) PROVE TypeOK' /\ Begun'
    BY <2>9 DEF UseBegin, Use
  <2>10. ASSUME NEW u \in Uses, UseRefuse(u) PROVE TypeOK' /\ Begun'
    BY <2>10 DEF UseRefuse
  <2>11. ASSUME NEW u \in Uses, UseTake(u) PROVE TypeOK' /\ Begun'
    <3>1. PICK g \in GrantIds : grant[g] # None /\ burn' = [burn EXCEPT ![u] = g]
      BY <2>11 DEF UseTake, Preferred, Consumable, Live
    <3>2. /\ upc' = [upc EXCEPT ![u] = "taking"] /\ credLock' = u
          /\ upc[u] = "waiting" /\ UNCHANGED <<now, grant, decisions, use>>
      BY <2>11 DEF UseTake
    <3>3. upc' \in [Uses -> {"idle", "waiting", "taking", "granted", "lost", "refused"}]
          /\ burn' \in [Uses -> GrantIds \cup {None}]
      BY <3>1, <3>2
    <3>4. TypeOK'
      BY <3>2, <3>3
    <3>5. \A w \in Uses : w # u => upc'[w] = upc[w] /\ burn'[w] = burn[w]
      BY <3>1, <3>2
    <3>6. burn'[u] = g
      BY <3>1
    <3>7. Begun'
      BY <3>1, <3>2, <3>5, <3>6
    <3> QED
      BY <3>4, <3>7
  <2>12. ASSUME NEW u \in Uses, UseGranted(u) \/ UseReplyLost(u) PROVE TypeOK' /\ Begun'
    <3>1. PICK g \in GrantIds : g = burn[u] /\ grant[g] \in GrantRow
      BY <2>12 DEF UseGranted, UseReplyLost, UseCommit
    <3>2. [grant[g] EXCEPT !.uses = grant[g].uses + 1] \in GrantRow
      BY <3>1, UsedRow
    <3>3. grant' = [grant EXCEPT ![g] = [grant[g] EXCEPT !.uses = grant[g].uses + 1]]
      BY <2>12, <3>1 DEF UseGranted, UseReplyLost, UseCommit
    <3>4. /\ grant' \in [GrantIds -> GrantRow \cup {None}]
          /\ \A h \in GrantIds : grant[h] # None => grant'[h] # None
      BY <2>0, <3>1, <3>2, <3>3
    <3>5. /\ credLock' = None /\ UNCHANGED <<now, decisions, use, burn>> /\ upc[u] = "taking"
          /\ \E outcome \in {"granted", "lost"} : upc' = [upc EXCEPT ![u] = outcome]
      BY <2>12 DEF UseGranted, UseReplyLost, UseCommit
    <3>6. TypeOK'
      BY <3>4, <3>5
    <3>7. Begun'
      BY <3>4, <3>5
    <3> QED
      BY <3>6, <3>7
  <2>13. ASSUME NEW u \in Uses, UseFail(u) PROVE TypeOK' /\ Begun'
    BY <2>13 DEF UseFail
  <2>14. CASE Tick
    BY <2>14 DEF Tick
  <2>15. CASE UNCHANGED vars
    BY <2>15 DEF vars
  <2> QED
    BY <2>1, <2>2, <2>3, <2>4, <2>6, <2>7, <2>8, <2>9, <2>10, <2>11,
       <2>12, <2>13, <2>14, <2>15 DEF Next, DecideStep, UseStep
<1> QED
  BY <1>1, <1>2, PTL DEF Spec, Typed

-----------------------------------------------------------------------------
\* A request is locked by the transaction that decides it, and stays pending
\* and grantable until that transaction ends.
THEOREM DecideDiscipline == Spec => []DecideInv
<1>1. Init => DecideInv
  BY ApprovalsAssumption DEF Init, DecideInv
<1>2. TypeOK /\ Begun /\ DecideInv /\ [Next]_vars => DecideInv'
  <2> SUFFICES ASSUME TypeOK, Begun, DecideInv, [Next]_vars PROVE DecideInv'
    OBVIOUS
  <2>0. /\ req \in [ReqIds -> ReqRow \cup {None}]
        /\ rowLock \in [ReqIds -> Deciders \cup {None}]
        /\ dpc \in [Deciders -> {"idle", "waiting", "holding"}]
        /\ verdict \in [Deciders -> Verdict \cup {None}]
        /\ None \notin Deciders
        /\ \A d \in Deciders : dpc[d] # "idle" =>
             verdict[d].req \in ReqIds /\ req[verdict[d].req] # None
    BY ApprovalsAssumption DEF TypeOK, Begun, Verdict
  <2> USE <2>0 DEF DecideInv, Decidable
  <2>1. ASSUME NEW r \in ReqIds, NEW k \in Keys, FileRequest(r, k) PROVE DecideInv'
    BY <2>1 DEF FileRequest
  <2>2. ASSUME NEW d \in Deciders, NEW r \in ReqIds, NEW t \in Terms \cup {None},
               DecideBegin(d, r, t) PROVE DecideInv'
    BY <2>2 DEF DecideBegin
  <2>3. ASSUME NEW d \in Deciders, DecideLock(d) PROVE DecideInv'
    BY <2>3 DEF DecideLock
  <2>4. ASSUME NEW d \in Deciders, DecideEnd(d), UNCHANGED req PROVE DecideInv'
    BY <2>4 DEF DecideEnd
  <2>5. ASSUME NEW d \in Deciders, NEW status \in {"approved", "denied"},
               dpc[d] = "holding", Decided(d, status), DecideEnd(d) PROVE DecideInv'
    <3>1. \A r \in ReqIds : r # verdict[d].req => req'[r] = req[r]
      BY <2>5 DEF Decided
    <3>2. \A e \in Deciders : dpc[e] = "holding" /\ e # d => verdict[e].req # verdict[d].req
      BY <2>5
    <3> QED
      BY <2>5, <3>1, <3>2 DEF DecideEnd
  <2>6. ASSUME NEW d \in Deciders, DecideStep(d) PROVE DecideInv'
    BY <2>2, <2>3, <2>4, <2>5, <2>6
       DEF DecideStep, DecideRefused, DecideFail, ApproveCommit, DenyCommit
  <2>7. CASE UNCHANGED decisions
    BY <2>7 DEF decisions
  <2>8. ASSUME NEW u \in Uses, UseStep(u) PROVE UNCHANGED decisions
    BY <2>8 DEF UseStep, UseBegin, UseRefuse, UseTake, UseGranted, UseReplyLost,
               UseCommit, UseFail
  <2> QED
    BY <2>1, <2>6, <2>7, <2>8 DEF Next, Tick, vars, decisions
<1> QED
  BY <1>1, <1>2, TypeCorrect, PTL DEF Spec

\* A grant is only ever changed in its count of uses.
LEMMA GrantStays ==
  ASSUME TypeOK, Begun, [Next]_vars, NEW g \in GrantIds, grant[g] # None
  PROVE  SameGrant(g)
<1>0. grant \in [GrantIds -> GrantRow \cup {None}]
  BY DEF TypeOK
<1>1. ASSUME NEW u \in Uses, UseCommit(u, "granted") \/ UseCommit(u, "lost") PROVE SameGrant(g)
  <2>1. PICK x \in GrantRow : x = grant[g]
    BY <1>0
  <2>2. grant'[g] = x \/ grant'[g] = [x EXCEPT !.uses = x.uses + 1]
    BY <1>0, <1>1, <2>1 DEF UseCommit
  <2>3. grant'[g] \in GrantRow /\ None \notin GrantRow
    BY <2>2, UsedRow, ApprovalsAssumption
  <2> QED
    BY <2>1, <2>2, <2>3, UsedRow DEF SameGrant
<1>2. ASSUME NEW d \in Deciders, NEW h \in GrantIds, ApproveCommit(d, h)
      PROVE grant'[g] = grant[g]
  BY <1>0, <1>2 DEF ApproveCommit
<1> QED
  BY <1>1, <1>2 DEF Next, DecideStep, UseStep, FileRequest, DecideBegin, DecideLock,
     DecideRefused, DenyCommit, DecideFail, UseBegin, UseRefuse, SameGrant,
     UseTake, UseGranted, UseReplyLost, UseFail, Tick, vars

\* Every grant was minted from an approved request for that very call, or
\* is the old verb-level one; no later decision takes the approval back.
THEOREM GrantsBound == Spec => []GrantInv
<1>1. Init => GrantInv
  <2> SUFFICES ASSUME Init PROVE GrantInv
    OBVIOUS
  <2>1. PICK done \in BOOLEAN, by \in Deciders, n \in 1..MaxUses :
          (done => OldReq # None /\ OldGrant # None) /\ OldRows(done, by, n)
    BY DEF Init
  <2> QED
    BY <2>1, ApprovalsAssumption DEF OldRows, GrantInv, GrantFor, ReqRow
<1>2. TypeOK /\ Begun /\ DecideInv /\ GrantInv /\ [Next]_vars => GrantInv'
  <2> SUFFICES ASSUME TypeOK, Begun, DecideInv, GrantInv, [Next]_vars PROVE GrantInv'
    OBVIOUS
  <2>0. /\ req \in [ReqIds -> ReqRow \cup {None}]
        /\ grant \in [GrantIds -> GrantRow \cup {None}]
        /\ \A g \in GrantIds : grant[g] # None => grant[g].req \in ReqIds
        /\ \A d \in Deciders : dpc[d] = "holding" =>
             /\ verdict[d].req \in ReqIds /\ req[verdict[d].req] \in ReqRow
             /\ req[verdict[d].req].status = "pending"
    BY DEF TypeOK, Begun, Verdict, GrantRow, DecideInv, Decidable
  <2>1. ASSUME NEW r \in ReqIds, req[r] # None, req[r].status = "approved"
        PROVE  req'[r] = req[r]
    BY <2>0, <2>1 DEF Next, DecideStep, UseStep, FileRequest, DecideBegin, DecideLock,
       DecideRefused, ApproveCommit, DenyCommit, DecideFail, Decided, UseBegin, UseRefuse,
       UseTake, UseGranted, UseReplyLost, UseCommit, UseFail, Tick, vars, decisions
  <2>2. ASSUME NEW g \in GrantIds, grant[g] # None PROVE SameGrant(g)
    BY <2>2, GrantStays
  <2>3. ASSUME NEW g \in GrantIds, grant[g] # None
        PROVE  /\ grant'[g].req \in ReqIds /\ req'[grant'[g].req] # None
               /\ req'[grant'[g].req].status = "approved"
               /\ GrantFor(g, req[grant[g].req].key)'
    BY <2>0, <2>1, <2>2, <2>3 DEF GrantInv, GrantFor, SameGrant
  <2>4. ASSUME NEW d \in Deciders, NEW g \in GrantIds, ApproveCommit(d, g)
        PROVE  /\ req'[grant'[g].req] # None
               /\ req'[grant'[g].req].status = "approved"
               /\ GrantFor(g, req[grant[g].req].key)'
    <3> DEFINE v == verdict[d]
    <3>1. /\ v.req \in ReqIds /\ req[v.req] \in ReqRow /\ dpc[d] = "holding"
          /\ Grantable(req[v.req].key, v.terms)
      BY <2>0, <2>4 DEF ApproveCommit, DecideInv, Decidable
    <3>2. req'[v.req] = [req[v.req] EXCEPT !.status = "approved", !.by = d]
      BY <2>0, <2>4, <3>1 DEF ApproveCommit, Decided
    <3>3. req'[v.req].status = "approved" /\ req'[v.req].key = req[v.req].key /\ req'[v.req] \in ReqRow
      BY <3>1, <3>2 DEF ReqRow
    <3>4. /\ grant'[g].req = v.req /\ grant'[g].kind = req[v.req].key.kind
          /\ grant'[g].subject = req[v.req].key.subject
          /\ grant'[g].digest = IF req[v.req].key.kind = "tool" THEN req[v.req].key.digest ELSE None
      BY <2>0, <2>4 DEF ApproveCommit
    <3> HIDE DEF v
    <3> QED
      BY <3>1, <3>3, <3>4, ApprovalsAssumption DEF GrantFor, Grantable
  <2>5. ASSUME NEW g \in GrantIds, grant[g] = None, grant'[g] # None
        PROVE  \E d \in Deciders : ApproveCommit(d, g)
    <3>1. ASSUME NEW u \in Uses, UseCommit(u, "granted") \/ UseCommit(u, "lost") PROVE FALSE
      BY <2>0, <2>5, <3>1 DEF UseCommit, Begun
    <3>2. ASSUME NEW d \in Deciders, NEW h \in GrantIds, ApproveCommit(d, h)
          PROVE g = h
      BY <2>0, <2>5, <3>2 DEF ApproveCommit
    <3> QED
      BY <3>1, <3>2, <2>5 DEF Next, DecideStep, UseStep, FileRequest, DecideBegin, DecideLock,
         DecideRefused, DenyCommit, DecideFail, UseBegin, UseRefuse,
         UseTake, UseGranted, UseReplyLost, UseFail, Tick, vars
  <2> QED
    BY <2>3, <2>4, <2>5 DEF GrantInv
<1> QED
  BY <1>1, <1>2, TypeCorrect, DecideDiscipline, PTL DEF Spec

-----------------------------------------------------------------------------
\* One use is being taken at a time, and the grant it chose stays live for
\* it until it commits, although it was chosen by a clock that has moved.
THEOREM UseDiscipline == Spec => []UseInv
<1>1. Init => UseInv
  BY ApprovalsAssumption DEF Init, UseInv
<1>2. TypeOK /\ Begun /\ UseInv /\ [Next]_vars => UseInv'
  <2> SUFFICES ASSUME TypeOK, Begun, UseInv, [Next]_vars PROVE UseInv'
    OBVIOUS
  <2>0. /\ upc \in [Uses -> {"idle", "waiting", "taking", "granted", "lost", "refused"}]
        /\ use \in [Uses -> Use \cup {None}] /\ burn \in [Uses -> GrantIds \cup {None}]
        /\ grant \in [GrantIds -> GrantRow \cup {None}]
        /\ None \notin Uses
    BY ApprovalsAssumption DEF TypeOK
  <2> DEFINE Taken == {"taking", "granted", "lost"}
  <2>a. (\E v \in Uses : UseStep(v)) \/ UNCHANGED consumption
    <3>1. ASSUME NEW d \in Deciders, DecideStep(d) PROVE UNCHANGED consumption
      BY <3>1 DEF DecideStep, DecideBegin, DecideLock, DecideRefused, ApproveCommit, DenyCommit, DecideFail, DecideEnd
    <3>2. ASSUME NEW r \in ReqIds, NEW k \in Keys, FileRequest(r, k) PROVE UNCHANGED consumption
      BY <3>2 DEF FileRequest
    <3>3. CASE Tick \/ UNCHANGED vars
      BY <3>3 DEF Tick, vars, consumption
    <3> QED
      BY <3>1, <3>2, <3>3 DEF Next
  <2>1. ASSUME NEW u \in Uses, upc'[u] \in Taken, upc[u] \notin Taken
        PROVE  /\ UseTake(u) /\ burn'[u] \in Preferred(use[u].key, use[u].at)
               /\ use' = use /\ grant' = grant
    <3>1. PICK v \in Uses : UseStep(v)
      BY <2>1, <2>a DEF consumption
    <3>2. CASE UseTake(v)
      <4>1. v = u
        BY <2>0, <2>1, <3>2 DEF UseTake
      <4>2. PICK g \in Preferred(use[u].key, use[u].at) : burn' = [burn EXCEPT ![u] = g]
        BY <3>2, <4>1 DEF UseTake
      <4> QED
        BY <2>0, <3>2, <4>1, <4>2 DEF UseTake
    <3>3. CASE ~UseTake(v)
      BY <2>0, <2>1, <3>1, <3>3 DEF UseStep, UseBegin, UseRefuse, UseGranted, UseReplyLost, UseCommit, UseFail
    <3> QED
      BY <3>2, <3>3
  <2>2. ASSUME NEW u \in Uses, upc'[u] \in Taken, upc[u] \in Taken
        PROVE  use'[u] = use[u] /\ burn'[u] = burn[u]
    BY <2>0, <2>2, <2>a DEF UseStep, UseBegin, UseRefuse, UseTake, UseGranted, UseReplyLost, UseCommit, UseFail, consumption
  <2>3. \A u \in Uses : upc'[u] = "taking" <=> credLock' = u
    <3>1. CASE UNCHANGED consumption
      BY <3>1 DEF UseInv, consumption
    <3>2. ASSUME NEW v \in Uses, UseStep(v) PROVE \A u \in Uses : upc'[u] = "taking" <=> credLock' = u
      BY <2>0, <3>2 DEF UseInv, UseStep, UseBegin, UseRefuse, UseTake, UseGranted, UseReplyLost, UseCommit, UseFail
    <3> QED
      BY <2>a, <3>1, <3>2
  <2>4. ASSUME NEW u \in Uses, upc'[u] \in Taken
        PROVE  /\ (Admits(burn[u], use[u].key) /\ Unexpired(burn[u], use[u].at))'
               /\ upc'[u] = "taking" => Live(burn[u], use[u].at)'
    <3>1. CASE upc[u] \notin Taken
      BY <2>1, <2>4, <3>1 DEF Preferred, Consumable, Live, Admits, Unexpired
    <3>2. CASE upc[u] \in Taken
      <4>1. PICK g \in GrantIds : g = burn[u] /\ grant[g] # None
        BY <3>2 DEF Begun
      <4>2. g = burn'[u] /\ use'[u] = use[u] /\ SameGrant(g)
        BY <2>2, <2>4, <3>2, <4>1, GrantStays
      <4>3. Admits(g, use[u].key) /\ Unexpired(g, use[u].at)
        BY <3>2, <4>1 DEF UseInv
      <4>4. (Admits(burn[u], use[u].key) /\ Unexpired(burn[u], use[u].at))'
        BY <4>2, <4>3 DEF Admits, Unexpired, SameGrant
      <4>5. ASSUME upc'[u] = "taking" PROVE Live(burn[u], use[u].at)'
        <5>1. /\ upc[u] = "taking"
              /\ \A w \in Uses : ~UseCommit(w, "granted") /\ ~UseCommit(w, "lost")
          BY <2>0, <2>3, <3>2, <4>5 DEF UseInv, Next, DecideStep, UseStep, FileRequest,
             DecideBegin, DecideLock, DecideRefused, ApproveCommit, DenyCommit, DecideFail,
             DecideEnd, UseBegin, UseRefuse, UseTake, UseGranted, UseReplyLost, UseCommit,
             UseFail, Tick, vars, consumption
        <5>2. grant'[g] = grant[g]
          BY <2>0, <4>1, <5>1 DEF Next, DecideStep, UseStep, FileRequest,
             DecideBegin, DecideLock, DecideRefused, ApproveCommit, DenyCommit, DecideFail,
             UseBegin, UseRefuse, UseTake, UseGranted, UseReplyLost, UseFail, Tick, vars
        <5> QED
          BY <4>1, <4>2, <5>1, <5>2 DEF UseInv, Live
      <4> QED
        BY <4>4, <4>5
    <3> QED
      BY <3>1, <3>2
  <2> QED
    BY <2>3, <2>4 DEF UseInv
<1> QED
  BY <1>1, <1>2, TypeCorrect, PTL DEF Spec

-----------------------------------------------------------------------------
\* Whatever was admitted is a call a human approved, on a grant that had not
\* expired when the use began.
THEOREM ApprovedUses == Spec => []UseWasApproved
<1>1. TypeOK /\ Begun /\ GrantInv /\ UseInv => UseWasApproved
  <2> SUFFICES ASSUME TypeOK, Begun, GrantInv, UseInv,
                      NEW u \in Uses, upc[u] = "granted"
               PROVE  LET g == grant[burn[u]] IN
                      /\ req[g.req].status = "approved"
                      /\ \/ req[g.req].key = use[u].key
                         \/ /\ burn[u] = OldGrant /\ use[u].key.kind = "tool"
                            /\ use[u].key.subject = OldKey.subject
                      /\ g.expires = None \/ g.expires > use[u].at
    BY DEF UseWasApproved
  <2>1. PICK g \in GrantIds : g = burn[u] /\ grant[g] # None
    BY DEF Begun
  <2>2. /\ grant[g] \in GrantRow /\ use[u] \in Use
        /\ Admits(g, use[u].key) /\ Unexpired(g, use[u].at)
    BY <2>1 DEF TypeOK, Begun, UseInv
  <2>3. PICK k \in Keys : k = use[u].key
    BY <2>2 DEF Use
  <2>4. PICK r \in ReqIds : r = grant[g].req
    BY <2>2 DEF GrantRow
  <2>5. req[r] \in ReqRow /\ req[r].status = "approved" /\ GrantFor(g, req[r].key)
    BY <2>1, <2>4 DEF TypeOK, GrantInv
  <2>6. PICK h \in Keys : h = req[r].key
    BY <2>5 DEF ReqRow
  <2>7. h = k \/ (g = OldGrant /\ k.kind = "tool" /\ k.subject = OldKey.subject)
    <3>1. k.kind = h.kind /\ k.subject = h.subject
      BY <2>2, <2>3, <2>5, <2>6 DEF Admits, GrantFor
    <3>2. CASE k.kind # "tool"
      <4>1. k.digest = h.digest
        BY <3>1, <3>2, ApprovalsAssumption
      <4> QED
        BY <3>1, <4>1, ApprovalsAssumption
    <3>3. CASE k.kind = "tool"
      <4>1. grant[g].digest \in {k.digest, None} /\ None # h.digest
        BY <2>2, <2>3, <3>3, ApprovalsAssumption DEF Admits
      <4>2. CASE g = OldGrant /\ h = OldKey
        BY <3>1, <3>3, <4>2
      <4>3. CASE grant[g].digest = h.digest
        <5>1. k.digest = h.digest
          BY <4>1, <4>3
        <5> QED
          BY <3>1, <5>1, ApprovalsAssumption
      <4> QED
        BY <2>5, <2>6, <3>1, <3>3, <4>2, <4>3 DEF GrantFor
    <3> QED
      BY <3>2, <3>3
  <2> QED
    BY <2>1, <2>2, <2>3, <2>4, <2>5, <2>6, <2>7 DEF Unexpired
<1> QED
  BY <1>1, TypeCorrect, GrantsBound, UseDiscipline, PTL

\* A grant's count is the number of uses that were really taken under it,
\* and it never passes what the human allowed.
THEOREM ExactUses == Spec => []UsesExact
<1>1. Init => UsesExact
  <2> SUFFICES ASSUME Init, NEW g \in GrantIds, grant[g] # None
               PROVE  /\ grant[g].uses = Cardinality(Spent(g))
                      /\ grant[g].maxUses # None => grant[g].uses <= grant[g].maxUses
    BY DEF UsesExact
  <2>1. PICK done \in BOOLEAN, by \in Deciders, n \in 1..MaxUses : OldRows(done, by, n)
    BY DEF Init
  <2>2. grant[g].uses = 0 /\ grant[g].maxUses = n
    BY <2>1 DEF OldRows
  <2>3. Spent(g) = {}
    BY DEF Init, Spent
  <2> QED
    BY <2>2, <2>3, FS_EmptySet
<1>2. TypeOK /\ Begun /\ UseInv /\ UsesExact /\ [Next]_vars => UsesExact'
  <2> SUFFICES ASSUME TypeOK, Begun, UseInv, UsesExact, [Next]_vars, NEW g \in GrantIds,
                      grant'[g] # None
               PROVE  /\ grant'[g].uses = Cardinality(Spent(g)')
                      /\ grant'[g].maxUses # None => grant'[g].uses <= grant'[g].maxUses
    BY DEF UsesExact
  <2>0. /\ upc \in [Uses -> {"idle", "waiting", "taking", "granted", "lost", "refused"}]
        /\ burn \in [Uses -> GrantIds \cup {None}]
        /\ grant \in [GrantIds -> GrantRow \cup {None}]
    BY DEF TypeOK
  <2>1. IsFiniteSet(Spent(g))
    BY ApprovalsAssumption, FS_Subset DEF Spent
  <2>2. ASSUME NEW u \in Uses, UseCommit(u, "granted") \/ UseCommit(u, "lost")
        PROVE  /\ grant'[g].uses = Cardinality(Spent(g)')
               /\ grant'[g].maxUses # None => grant'[g].uses <= grant'[g].maxUses
    <3>1. burn[u] \in GrantIds /\ upc[u] = "taking"
      BY <2>2 DEF UseCommit, Begun
    <3>2. CASE burn[u] # g
      <4>1. grant'[g] = grant[g]
        BY <2>0, <2>2, <3>1, <3>2 DEF UseCommit
      <4>2. Spent(g)' = Spent(g)
        BY <2>0, <2>2, <3>1, <3>2 DEF UseCommit, Spent
      <4> QED
        BY <4>1, <4>2 DEF UsesExact
    <3>3. CASE burn[u] = g
      <4>1. PICK x \in GrantRow : x = grant[g]
        BY <2>0, <3>1, <3>3 DEF Begun
      <4>2. grant'[g] = [x EXCEPT !.uses = x.uses + 1]
        BY <2>0, <2>2, <3>3, <4>1 DEF UseCommit
      <4>3. x.maxUses # None => x.uses < x.maxUses
        BY <3>1, <3>3, <4>1 DEF UseInv, Live
      <4>4. x.uses = Cardinality(Spent(g)) /\ x.uses \in Nat
        BY <4>1, ApprovalsAssumption DEF UsesExact, GrantRow
      <4>5. u \notin Spent(g) /\ Spent(g)' = Spent(g) \cup {u}
        BY <2>0, <2>2, <3>1, <3>3 DEF UseCommit, Spent
      <4>6. Cardinality(Spent(g)') = Cardinality(Spent(g)) + 1
        BY <2>1, <4>5, FS_AddElement
      <4>7. grant'[g].uses = x.uses + 1 /\ grant'[g].maxUses = x.maxUses
        BY <4>2, UsedRow
      <4>8. x.maxUses \in Nat \cup {None}
        BY DEF GrantRow
      <4> QED
        BY <4>3, <4>4, <4>6, <4>7, <4>8
    <3> QED
      BY <3>2, <3>3
  <2>3. ASSUME NEW d \in Deciders, ApproveCommit(d, g)
        PROVE  /\ grant'[g].uses = Cardinality(Spent(g)')
               /\ grant'[g].maxUses # None => grant'[g].uses <= grant'[g].maxUses
    <3>1. grant[g] = None /\ grant'[g].uses = 0 /\ grant'[g].maxUses = verdict[d].terms.maxUses
      BY <2>0, <2>3 DEF ApproveCommit
    <3>2. Spent(g)' = {}
      BY <2>0, <2>3, <3>1 DEF ApproveCommit, DecideEnd, consumption, Spent, Begun
    <3>3. verdict[d].terms \in Terms
      BY <2>3 DEF ApproveCommit, Begun, Verdict
    <3>4. verdict[d].terms.maxUses \in Nat \cup {None}
      BY <3>3, ApprovalsAssumption DEF Terms
    <3> QED
      BY <3>1, <3>2, <3>4, FS_EmptySet
  <2>4. CASE grant'[g] = grant[g] /\ Spent(g)' = Spent(g)
    BY <2>4 DEF UsesExact
  <2>5. ASSUME NEW d \in Deciders, NEW h \in GrantIds, ApproveCommit(d, h), h # g
        PROVE  grant'[g] = grant[g] /\ Spent(g)' = Spent(g)
    BY <2>0, <2>5 DEF ApproveCommit, DecideEnd, consumption, Spent
  <2>6. ASSUME NEW u \in Uses,
               UseTake(u) \/ UseFail(u) \/ UseRefuse(u) \/ \E k \in Keys : UseBegin(u, k)
        PROVE  grant'[g] = grant[g] /\ Spent(g)' = Spent(g)
    BY <2>0, <2>6 DEF UseTake, UseFail, UseRefuse, UseBegin, Spent
  <2>7. CASE UNCHANGED <<grant, upc, burn>>
    BY <2>4, <2>7 DEF Spent
  <2> QED
    BY <2>2, <2>3, <2>4, <2>5, <2>6, <2>7 DEF Next, DecideStep, UseStep, FileRequest,
       DecideBegin, DecideLock, DecideRefused, DenyCommit, DecideFail, DecideEnd,
       UseGranted, UseReplyLost, Tick, vars, consumption
<1> QED
  BY <1>1, <1>2, TypeCorrect, UseDiscipline, PTL DEF Spec

-----------------------------------------------------------------------------
\* However the agent retries and people decide, a call has one pending
\* request at most.
THEOREM OnePending == Spec => []OnePendingPerCall
<1>1. Init => OnePendingPerCall
  <2> SUFFICES ASSUME Init PROVE OnePendingPerCall
    OBVIOUS
  <2>1. PICK done \in BOOLEAN, by \in Deciders, n \in 1..MaxUses : OldRows(done, by, n)
    BY DEF Init
  <2> QED
    BY <2>1 DEF OldRows, OnePendingPerCall
<1>2. TypeOK /\ Begun /\ OnePendingPerCall /\ [Next]_vars => OnePendingPerCall'
  <2> SUFFICES ASSUME TypeOK, Begun, OnePendingPerCall, [Next]_vars PROVE OnePendingPerCall'
    OBVIOUS
  <2>0. req \in [ReqIds -> ReqRow \cup {None}] /\ None \notin ReqRow
    BY ApprovalsAssumption DEF TypeOK
  <2>1. ASSUME NEW r \in ReqIds, NEW k \in Keys, FileRequest(r, k) PROVE OnePendingPerCall'
    BY <2>0, <2>1 DEF FileRequest, Pending, OnePendingPerCall
  <2>2. ASSUME NEW d \in Deciders, NEW status \in {"approved", "denied"},
               dpc[d] = "holding", Decided(d, status) PROVE OnePendingPerCall'
    <3>1. PICK r \in ReqIds : r = verdict[d].req /\ req[r] \in ReqRow
      BY <2>0, <2>2 DEF Begun, Verdict
    <3>2. req' = [req EXCEPT ![r] = [req[r] EXCEPT !.status = status, !.by = d]]
      BY <2>0, <2>2, <3>1 DEF Decided
    <3>3. [req[r] EXCEPT !.status = status, !.by = d].status # "pending"
      BY <3>1 DEF ReqRow
    <3> QED
      BY <2>0, <3>1, <3>2, <3>3 DEF OnePendingPerCall
  <2>3. CASE UNCHANGED req
    BY <2>3 DEF OnePendingPerCall
  <2> QED
    BY <2>1, <2>2, <2>3 DEF Next, DecideStep, UseStep, DecideBegin, DecideLock, DecideRefused,
       ApproveCommit, DenyCommit, DecideFail, UseBegin, UseRefuse, UseTake, UseGranted,
       UseReplyLost, UseCommit, UseFail, Tick, vars, decisions
<1> QED
  BY <1>1, <1>2, TypeCorrect, PTL DEF Spec

\* A request that was never filed has left no trail.
Untold == \A r \in ReqIds : req[r] = None => trail[r] = <<>>

\* What TrailTellsAll says of one request.
Told(r) ==
  LET asked == [action |-> "requested", by |-> None]
      answer == [action |-> req[r].status, by |-> req[r].by] IN
  IF req[r].status = "pending"
    THEN trail[r] = <<asked>> /\ GrantsOf(r) = {}
    ELSE /\ trail[r] = <<asked, answer>>
         /\ IF req[r].status = "denied" THEN GrantsOf(r) = {}
            ELSE \E g \in GrantsOf(r) : GrantsOf(r) = {g} /\ grant[g].by = req[r].by

\* Trails grow by one entry at their end.
LEMMA TrailGrows ==
  ASSUME NEW x \in Entry, NEW y \in Entry
  PROVE  Append(<<>>, x) = <<x>> /\ Append(<<x>>, y) = <<x, y>>
<1> DEFINE s == Append(<<x>>, y)
           t == <<x, y>>
<1>1. s \in Seq(Entry) /\ t \in Seq(Entry)
  OBVIOUS
<1>2. Len(s) = 2 /\ s[1] = x /\ s[2] = y
  BY AppendProperties
<1>3. Len(t) = 2 /\ t[1] = x /\ t[2] = y
  OBVIOUS
<1> HIDE DEF s, t
<1>4. Len(s) = Len(t) /\ \A i \in 1..Len(s) : s[i] = t[i]
  BY <1>2, <1>3
<1>5. s = t
  BY <1>1, <1>4, SeqEqual
<1> QED
  BY <1>5 DEF s, t

Asked == [action |-> "requested", by |-> None]
Answered(status, d) == [action |-> status, by |-> d]

\* What one decision does to the row and the trail of r.
DecidesRow(d, r, status) ==
  /\ req[r] # None /\ trail[r] = <<Asked>> /\ GrantsOf(r) = {}
  /\ req'[r] # None /\ req'[r].status = status /\ req'[r].by = d
  /\ trail'[r] = <<Asked, Answered(status, d)>>
  /\ \A s \in ReqIds : s # r => req'[s] = req[s] /\ trail'[s] = trail[s]

\* What leaves the row, the trail and the grants of r alone leaves its story.
LEMMA StoryStays ==
  ASSUME NEW r \in ReqIds, Told(r), req'[r] = req[r], trail'[r] = trail[r],
         GrantsOf(r)' = GrantsOf(r), \A g \in GrantsOf(r) : grant'[g].by = grant[g].by
  PROVE  Told(r)'
BY DEF Told

\* A request is decided once: its row, its grant and its trail agree.
THEOREM OneStory == Spec => []TrailTellsAll
<1> DEFINE TrailInv == TrailTellsAll /\ Untold
<1>1. Init => TrailInv
  <2> SUFFICES ASSUME Init PROVE TrailTellsAll /\ Untold
    OBVIOUS
  <2>1. PICK done \in BOOLEAN, by \in Deciders, n \in 1..MaxUses :
          (done => OldReq # None /\ OldGrant # None) /\ OldRows(done, by, n)
    BY DEF Init
  <2>2. /\ None \notin ReqRow /\ None \notin GrantRow /\ None \notin ReqIds
        /\ OldGrant \in GrantIds \cup {None}
    BY ApprovalsAssumption
  <2>3. Untold
    BY <2>1, <2>2, ApprovalsAssumption DEF OldRows, Untold, ReqRow
  <2>4. ASSUME NEW r \in ReqIds, req[r] # None PROVE Told(r)
    <3>1. r = OldReq
      BY <2>1, <2>4 DEF OldRows
    <3>2. CASE ~done
      <4>1. GrantsOf(r) = {}
        BY <2>1, <3>2 DEF OldRows, GrantsOf
      <4>2. req[r].status = "pending" /\ trail[r] = <<[action |-> "requested", by |-> None]>>
        BY <2>1, <3>1, <3>2 DEF OldRows
      <4> QED
        BY <4>1, <4>2 DEF Told
    <3>3. CASE done
      <4>1. OldGrant \in GrantIds
        BY <2>1, <2>2, <3>3
      <4>2. /\ grant[OldGrant].req = r /\ grant[OldGrant].by = by
            /\ \A g \in GrantIds : g # OldGrant => grant[g] = None
        BY <2>1, <3>1, <3>3, <4>1 DEF OldRows
      <4>3. grant[OldGrant] \in GrantRow
        BY <2>1, <3>1, <3>3, <4>1, ApprovalsAssumption DEF OldRows, GrantRow, Kinds
      <4>4. GrantsOf(r) = {OldGrant}
        BY <2>2, <4>1, <4>2, <4>3 DEF GrantsOf
      <4>5. /\ req[r].status = "approved" /\ req[r].by = by
            /\ trail[r] = <<[action |-> "requested", by |-> None],
                           [action |-> "approved", by |-> by]>>
        BY <2>1, <3>1, <3>3 DEF OldRows
      <4> QED
        BY <4>2, <4>4, <4>5 DEF Told
    <3> QED
      BY <3>2, <3>3
  <2> QED
    BY <2>3, <2>4 DEF TrailTellsAll, Told
<1>2. TypeOK /\ Begun /\ DecideInv /\ GrantInv /\ TrailInv /\ [Next]_vars => TrailInv'
  <2> SUFFICES ASSUME TypeOK, Begun, DecideInv, GrantInv, TrailTellsAll, Untold, [Next]_vars
               PROVE TrailTellsAll' /\ Untold'
    OBVIOUS
  <2>0. /\ req \in [ReqIds -> ReqRow \cup {None}] /\ None \notin ReqRow
        /\ trail \in [ReqIds -> Seq(Entry)]
        /\ grant \in [GrantIds -> GrantRow \cup {None}]
    BY ApprovalsAssumption DEF TypeOK
  <2>a. \A r \in ReqIds : req[r] # None => Told(r)
    BY DEF TrailTellsAll, Told
  <2>b. (\A r \in ReqIds : req'[r] # None => Told(r)') => TrailTellsAll'
    BY DEF TrailTellsAll, Told
  <2>1. ASSUME NEW r \in ReqIds, NEW k \in Keys, FileRequest(r, k) PROVE TrailTellsAll' /\ Untold'
    <3>1. /\ req[r] = None /\ req'[r] = [key |-> k, status |-> "pending", by |-> None]
          /\ trail'[r] = Append(trail[r], [action |-> "requested", by |-> None])
          /\ grant' = grant
          /\ \A s \in ReqIds : s # r => req'[s] = req[s] /\ trail'[s] = trail[s]
      BY <2>0, <2>1 DEF FileRequest
    <3>2. req'[r] # None
      BY <2>0, <3>1 DEF ReqRow
    <3>3. trail'[r] = <<Asked>>
      <4>1. trail[r] = <<>> /\ Asked \in Entry
        BY <3>1 DEF Untold, Asked, Entry
      <4> QED
        BY <3>1, <4>1, TrailGrows DEF Asked
    <3>4. GrantsOf(r)' = {}
      BY <3>1 DEF GrantsOf, GrantInv
    <3>5. Told(r)'
      <4>1. req'[r].status = "pending"
        BY <3>1
      <4> QED
        BY <3>3, <3>4, <4>1 DEF Told, Asked
    <3>6. ASSUME NEW s \in ReqIds, s # r, req'[s] # None PROVE Told(s)'
      <4>1. GrantsOf(s)' = GrantsOf(s) /\ \A g \in GrantsOf(s) : grant'[g].by = grant[g].by
        BY <3>1 DEF GrantsOf
      <4> QED
        BY <2>a, <3>1, <3>6, <4>1, StoryStays
    <3> QED
      BY <2>b, <3>1, <3>2, <3>5, <3>6 DEF Untold
  <2>2. ASSUME NEW d \in Deciders, NEW status \in {"approved", "denied"}, NEW r \in ReqIds,
               r = verdict[d].req, dpc[d] = "holding", Decided(d, status)
        PROVE  DecidesRow(d, r, status)
    <3>1. req[r] \in ReqRow /\ req[r].status = "pending"
      BY <2>0, <2>2 DEF Begun, DecideInv, Decidable
    <3>2. trail[r] = <<Asked>> /\ GrantsOf(r) = {}
      BY <2>0, <2>a, <3>1 DEF Told, Asked
    <3>3. req' = [req EXCEPT ![r] = [req[r] EXCEPT !.status = status, !.by = d]]
      BY <2>0, <2>2, <3>1 DEF Decided
    <3>4. /\ [req[r] EXCEPT !.status = status, !.by = d].status = status
          /\ [req[r] EXCEPT !.status = status, !.by = d].by = d
          /\ [req[r] EXCEPT !.status = status, !.by = d] \in ReqRow
      BY <3>1 DEF ReqRow
    <3>5. trail' = [trail EXCEPT ![r] = Append(trail[r], Answered(status, d))]
      BY <2>2 DEF Decided, Answered
    <3>6. trail'[r] = Append(<<Asked>>, Answered(status, d))
      BY <2>0, <3>2, <3>5
    <3>7. Asked \in Entry /\ Answered(status, d) \in Entry
      BY DEF Asked, Answered, Entry
    <3>8. trail'[r] = <<Asked, Answered(status, d)>>
      BY <3>6, <3>7, TrailGrows
    <3>9. \A s \in ReqIds : s # r => req'[s] = req[s] /\ trail'[s] = trail[s]
      BY <2>0, <3>3, <3>5
    <3>10. req'[r] # None /\ req'[r].status = status /\ req'[r].by = d /\ req[r] # None
      BY <2>0, <3>1, <3>3, <3>4
    <3> QED
      BY <3>2, <3>8, <3>9, <3>10 DEF DecidesRow
  <2>3. ASSUME NEW d \in Deciders, NEW g \in GrantIds, ApproveCommit(d, g)
        PROVE TrailTellsAll' /\ Untold'
    <3>1. PICK r \in ReqIds : r = verdict[d].req
      BY <2>3 DEF ApproveCommit, Begun, Verdict
    <3>2. DecidesRow(d, r, "approved")
      BY <2>2, <2>3, <3>1 DEF ApproveCommit
    <3>3. /\ grant[g] = None /\ grant'[g].req = r /\ grant'[g].by = d
          /\ \A h \in GrantIds : h # g => grant'[h] = grant[h]
      BY <2>0, <2>3, <3>1 DEF ApproveCommit
    <3>4. grant'[g] # None
      BY <2>3, Minted, ApprovalsAssumption
    <3>5. GrantsOf(r)' = {g}
      <4>1. GrantsOf(r) = {}
        BY <3>2 DEF DecidesRow
      <4> QED
        BY <3>3, <3>4, <4>1 DEF GrantsOf
    <3>6. Told(r)'
      <4>1. /\ req'[r].status = "approved" /\ req'[r].by = d
            /\ trail'[r] = <<Asked, Answered("approved", d)>>
        BY <3>2 DEF DecidesRow
      <4> QED
        BY <3>3, <3>5, <4>1 DEF Told, Asked, Answered
    <3>7. ASSUME NEW s \in ReqIds, s # r, req'[s] # None PROVE Told(s)'
      <4>1. GrantsOf(s)' = GrantsOf(s) /\ g \notin GrantsOf(s)
        BY <3>3, <3>7 DEF GrantsOf
      <4>2. \A h \in GrantsOf(s) : grant'[h].by = grant[h].by
        BY <3>3, <4>1 DEF GrantsOf
      <4>3. req'[s] = req[s] /\ trail'[s] = trail[s]
        BY <3>2, <3>7 DEF DecidesRow
      <4>4. Told(s)
        BY <2>a, <3>7, <4>3
      <4> QED
        BY <4>1, <4>2, <4>3, <4>4, StoryStays
    <3> QED
      BY <2>b, <3>2, <3>6, <3>7 DEF Untold, DecidesRow
  <2>4. ASSUME NEW d \in Deciders, DenyCommit(d) PROVE TrailTellsAll' /\ Untold'
    <3>1. PICK r \in ReqIds : r = verdict[d].req
      BY <2>4 DEF DenyCommit, Begun, Verdict
    <3>2. DecidesRow(d, r, "denied")
      BY <2>2, <2>4, <3>1 DEF DenyCommit
    <3>3. \A s \in ReqIds : /\ GrantsOf(s)' = GrantsOf(s)
                           /\ \A g \in GrantsOf(s) : grant'[g].by = grant[g].by
      BY <2>4 DEF DenyCommit, GrantsOf
    <3>4. Told(r)'
      <4>1. /\ req'[r].status = "denied" /\ req'[r].by = d
            /\ trail'[r] = <<Asked, Answered("denied", d)>> /\ GrantsOf(r) = {}
        BY <3>2 DEF DecidesRow
      <4> QED
        BY <3>3, <4>1 DEF Told, Asked, Answered
    <3>5. ASSUME NEW s \in ReqIds, s # r, req'[s] # None PROVE Told(s)'
      <4>1. req'[s] = req[s] /\ trail'[s] = trail[s]
        BY <3>2, <3>5 DEF DecidesRow
      <4>2. Told(s)
        BY <2>a, <3>5, <4>1
      <4> QED
        BY <3>3, <4>1, <4>2, StoryStays
    <3> QED
      BY <2>b, <3>2, <3>4, <3>5 DEF Untold, DecidesRow
  <2>5. ASSUME NEW u \in Uses, UseCommit(u, "granted") \/ UseCommit(u, "lost")
        PROVE TrailTellsAll' /\ Untold'
    <3>1. \A g \in GrantIds : grant[g] # None => SameGrant(g)
      BY GrantStays
    <3>2. \A g \in GrantIds : grant[g] = None => grant'[g] = None
      BY <2>0, <2>5 DEF UseCommit, Begun
    <3>3. \A r \in ReqIds : GrantsOf(r)' = GrantsOf(r)
      BY <3>1, <3>2 DEF GrantsOf, SameGrant
    <3>4. req' = req /\ trail' = trail
      BY <2>5 DEF UseCommit, decisions
    <3>5. ASSUME NEW r \in ReqIds, req'[r] # None PROVE Told(r)'
      <4>1. \A g \in GrantsOf(r) : grant'[g].by = grant[g].by
        BY <3>1 DEF GrantsOf, SameGrant
      <4>2. Told(r)
        BY <2>a, <3>4, <3>5
      <4> QED
        BY <3>3, <3>4, <4>1, <4>2, StoryStays
    <3> QED
      BY <2>b, <3>4, <3>5 DEF Untold
  <2>6. CASE UNCHANGED <<req, trail, grant>>
    BY <2>6 DEF TrailTellsAll, Untold, GrantsOf
  <2> QED
    BY <2>1, <2>3, <2>4, <2>5, <2>6 DEF Next, DecideStep, UseStep, DecideBegin, DecideLock,
       DecideRefused, DecideFail, UseBegin, UseRefuse, UseTake, UseGranted,
       UseReplyLost, UseFail, Tick, vars, decisions
<1> QED
  BY <1>1, <1>2, TypeCorrect, DecideDiscipline, GrantsBound, PTL DEF Spec

-----------------------------------------------------------------------------
\* A step that leaves the bounds and the count of g leaves its permit.
LEMMA PermitStays ==
  ASSUME TypeOK, Begun, [Next]_vars, NEW g \in GrantIds, grant[g] # None
  PROVE  /\ covers'[g] = covers[g]
         /\ grant'[g].uses = grant[g].uses => left'[g] = left[g]
<1>1. SameGrant(g)
  BY GrantStays
<1>2. \A k \in Keys : Admits(g, k)' <=> Admits(g, k)
  BY <1>1 DEF SameGrant, Admits
<1> QED
  BY <1>1, <1>2 DEF SameGrant, covers, left

\* The acts a grant has left are a number, or None without a count.
LEMMA LeftTyped ==
  ASSUME TypeOK, UsesExact, NEW g \in GrantIds
  PROVE  left[g] \in Nat \cup {None}
<1>1. CASE grant[g] = None \/ grant[g].maxUses = None
  BY <1>1 DEF left
<1>2. CASE grant[g] # None /\ grant[g].maxUses # None
  <2>1. PICK x \in GrantRow : x = grant[g]
    BY <1>2 DEF TypeOK
  <2>2. x.uses \in Nat /\ x.maxUses \in Nat /\ x.uses <= x.maxUses
    BY <1>2, <2>1 DEF GrantRow, UsesExact
  <2> QED
    BY <1>2, <2>1, <2>2 DEF left
<1> QED
  BY <1>1, <1>2

\* The store implements Permit: filing, waiting, refusing and failing are
\* stuttering; an approval issues a permit for one call; a use takes one.
THEOREM Implements == Spec => ImplementsPermit
<1>1. Init => Permits!Init
  <2> SUFFICES ASSUME Init PROVE Permits!Init
    OBVIOUS
  <2>1. PICK done \in BOOLEAN, by \in Deciders, n \in 1..MaxUses : OldRows(done, by, n)
    BY DEF Init
  <2>2. covers \in [GrantIds -> SUBSET Keys]
    BY DEF covers
  <2>3. ASSUME NEW g \in GrantIds PROVE left[g] \in Nat \cup {None}
    <3>1. grant[g] # None => grant[g].uses = 0 /\ grant[g].maxUses = n
      BY <2>1 DEF OldRows
    <3> QED
      BY <3>1 DEF left
  <2>4. taken = [u \in Uses |-> None]
    BY DEF Init, taken
  <2> QED
    BY <2>2, <2>3, <2>4 DEF Permits!Init, left
<1>2. TypeOK /\ TypeOK' /\ Begun /\ DecideInv /\ UseInv /\ UsesExact /\ UsesExact' /\ [Next]_vars
        => [Permits!Next]_<<covers, left, taken>>
  <2> SUFFICES ASSUME TypeOK, TypeOK', Begun, DecideInv, UseInv, UsesExact, UsesExact', [Next]_vars
               PROVE  Permits!Next \/ UNCHANGED <<covers, left, taken>>
    OBVIOUS
  <2>0. /\ grant \in [GrantIds -> GrantRow \cup {None}]
        /\ upc \in [Uses -> {"idle", "waiting", "taking", "granted", "lost", "refused"}]
        /\ use \in [Uses -> Use \cup {None}] /\ burn \in [Uses -> GrantIds \cup {None}]
    BY DEF TypeOK
  <2>1. left' \in [GrantIds -> Nat \cup {None}]
    <3>1. \A g \in GrantIds : left'[g] \in Nat \cup {None}
      <4> SUFFICES ASSUME NEW g \in GrantIds PROVE (left[g] \in Nat \cup {None})'
        OBVIOUS
      <4> QED
        BY LeftTyped, PTL
    <3> QED
      BY <3>1 DEF left
  <2>2. ASSUME NEW d \in Deciders, NEW g \in GrantIds, ApproveCommit(d, g) PROVE Permits!Issue(g)
    <3>1. PICK c \in Keys : c = req[verdict[d].req].key /\ (c.kind = "tool" => c.digest # NoDigest)
      <4>1. dpc[d] = "holding" /\ verdict[d].terms # None
        BY <2>2 DEF ApproveCommit
      <4>2. verdict[d].req \in ReqIds /\ req[verdict[d].req] \in ReqRow
        BY <4>1 DEF Begun, Verdict, TypeOK
      <4>3. req[verdict[d].req].key \in Keys
        BY <4>2 DEF ReqRow
      <4>4. Grantable(req[verdict[d].req].key, verdict[d].terms)
        BY <4>1 DEF DecideInv, Decidable
      <4> QED
        BY <4>3, <4>4 DEF Grantable
    <3>2. /\ grant[g] = None /\ grant'[g] # None
          /\ grant'[g].kind = c.kind /\ grant'[g].subject = c.subject
          /\ grant'[g].digest = IF c.kind = "tool" THEN c.digest ELSE None
          /\ \A h \in GrantIds : h # g => grant'[h] = grant[h]
      BY <2>0, <2>2, <3>1, Minted, ApprovalsAssumption DEF ApproveCommit
    <3>3. ASSUME NEW k \in Keys PROVE Admits(g, k)' <=> k = c
      <4>1. k.kind = c.kind /\ k.subject = c.subject /\ k.digest = c.digest => k = c
        BY ApprovalsAssumption
      <4>2. c.digest # None
        BY ApprovalsAssumption
      <4>3. k.kind = c.kind /\ k.kind # "tool" => k.digest = c.digest
        BY ApprovalsAssumption
      <4> QED
        BY <3>2, <4>1, <4>2, <4>3 DEF Admits
    <3>4. covers[g] = {} /\ covers'[g] = {c}
      BY <3>2, <3>3 DEF covers
    <3>5. \A h \in GrantIds \ {g} : covers'[h] = covers[h] /\ left'[h] = left[h]
      BY <3>2 DEF covers, left, Admits
    <3>6. covers' = [covers EXCEPT ![g] = {c}]
      BY <3>4, <3>5 DEF covers
    <3>7. taken' = taken
      BY <2>2 DEF ApproveCommit, DecideEnd, consumption, taken
    <3> QED
      BY <2>1, <3>1, <3>4, <3>5, <3>6, <3>7 DEF Permits!Issue
  <2>3. ASSUME NEW u \in Uses, UseCommit(u, "granted") \/ UseCommit(u, "lost")
        PROVE  Permits!Take(u)
    <3>1. PICK g \in GrantIds : g = burn[u] /\ upc[u] = "taking" /\ grant[g] # None
      BY <2>3 DEF UseCommit, Begun
    <3>2. PICK c \in Keys : c = use[u].key /\ Admits(g, c) /\ Live(g, use[u].at)
      BY <3>1 DEF Begun, Use, UseInv
    <3>3. PICK x \in GrantRow : x = grant[g]
      BY <2>0, <3>1
    <3>4. grant'[g] = [x EXCEPT !.uses = x.uses + 1]
      BY <2>0, <2>3, <3>1, <3>3 DEF UseCommit
    <3>5. /\ grant'[g].uses = x.uses + 1 /\ grant'[g].maxUses = x.maxUses /\ grant'[g] # None
          /\ x.uses \in Nat /\ x.maxUses \in Nat \cup {None}
          /\ x.maxUses # None => x.uses < x.maxUses
      <4>1. grant'[g] \in GrantRow /\ grant'[g].uses = x.uses + 1 /\ grant'[g].maxUses = x.maxUses
        BY <3>4, UsedRow
      <4>2. grant'[g] # None
        BY <4>1, ApprovalsAssumption
      <4>3. x.uses \in Nat /\ x.maxUses \in Nat \cup {None}
        BY DEF GrantRow
      <4>4. x.maxUses # None => x.uses < x.maxUses
        BY <3>2, <3>3 DEF Live
      <4> QED
        BY <4>1, <4>2, <4>3, <4>4
    <3>6. \A h \in GrantIds : h # g => grant'[h] = grant[h]
      BY <2>0, <2>3, <3>1 DEF UseCommit
    <3>7. covers' = covers
      <4>1. ASSUME NEW h \in GrantIds PROVE covers'[h] = covers[h]
        BY <3>6, <3>1, PermitStays DEF covers, Admits
      <4> QED
        BY <4>1 DEF covers
    <3>8. left[g] # 0 /\ left'[g] = IF left[g] = None THEN None ELSE left[g] - 1
      BY <3>3, <3>5, <3>1, ApprovalsAssumption DEF left
    <3>9. left' = [left EXCEPT ![g] = IF @ = None THEN None ELSE @ - 1]
      BY <3>6, <3>8 DEF left
    <3>10. c \in covers[g] /\ taken[u] = None
      BY <3>1, <3>2 DEF covers, taken
    <3>11. taken' = [taken EXCEPT ![u] = <<g, c>>]
      BY <2>0, <2>3, <3>1, <3>2 DEF UseCommit, taken
    <3> QED
      BY <3>7, <3>8, <3>9, <3>10, <3>11 DEF Permits!Take
  <2>4. ASSUME grant' = grant, \/ UNCHANGED <<upc, use, burn>>
                              \/ \E u \in Uses : /\ upc[u] \notin {"granted", "lost"}
                                               /\ upc'[u] \notin {"granted", "lost"}
                                               /\ \A w \in Uses \ {u} : /\ upc'[w] = upc[w]
                                                    /\ use'[w] = use[w] /\ burn'[w] = burn[w]
        PROVE  UNCHANGED <<covers, left, taken>>
    BY <2>4 DEF covers, left, taken, Admits
  <2>5. ASSUME NEW u \in Uses, UseRefuse(u) \/ UseTake(u) \/ UseFail(u) \/ \E k \in Keys : UseBegin(u, k)
        PROVE  UNCHANGED <<covers, left, taken>>
    BY <2>0, <2>4, <2>5 DEF UseRefuse, UseTake, UseFail, UseBegin
  <2> QED
    BY <2>2, <2>3, <2>4, <2>5 DEF Permits!Next, Next, DecideStep, UseStep, FileRequest, DecideBegin,
       DecideLock, DecideRefused, DenyCommit, DecideFail, DecideEnd, UseGranted, UseReplyLost,
       Tick, vars, consumption
<1> QED
  BY <1>1, <1>2, TypeCorrect, DecideDiscipline, UseDiscipline, ExactUses, PTL
     DEF Spec, ImplementsPermit, Permits!Spec
=============================================================================

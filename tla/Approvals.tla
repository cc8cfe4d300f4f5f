----------------------------- MODULE Approvals -----------------------------
(***************************************************************************)
(* Approvals and bounded grants of one credential (store/approvals.go).    *)
(*                                                                         *)
(* A denied action files a request, at most one pending per call.  A human *)
(* decides it, from the admin API or from Slack, in a transaction that     *)
(* holds the request's row: approving mints a grant bounded by an end, a   *)
(* number of uses or both, welded to the digest of the call.  A use of a   *)
(* grant is taken under the credential's row lock.  Budget uses are taken  *)
(* by the admission of module Spend; this module has every other kind.     *)
(***************************************************************************)
EXTENDS Naturals, FiniteSets, Sequences

CONSTANTS
  ReqIds, GrantIds,     \* rows that may ever be inserted
  Keys,                 \* what requests are filed for: [kind, subject, digest]
  Uses,                 \* attempts to act under a grant
  Deciders,             \* who decides: the admin port, people in Slack
  OldReq, OldGrant,     \* rows older than argument binding, or None
  OldKey,               \* what they are for
  NoDigest,             \* the digest column of a request that names no call
  MaxUses, MaxTime,     \* bounds on a grant's uses and on the clock
  None                  \* SQL NULL

Kinds == {"tool", "budget", "inbound"}

\* The bounds a human approves with, never both absent (the admin handler
\* and the Slack parser refuse that), and whether an amount came with them.
Terms == {t \in [expires : 1..MaxTime \cup {None}, maxUses : 1..MaxUses \cup {None},
                 amount : BOOLEAN] : t.expires # None \/ t.maxUses # None}

ReqRow == [key : Keys, status : {"pending", "approved", "denied"},
           by : Deciders \cup {None}]

GrantRow == [req : ReqIds, kind : Kinds, subject : {k.subject : k \in Keys},
             digest : {k.digest : k \in Keys} \cup {None},
             expires : Nat \cup {None}, maxUses : Nat \cup {None},
             uses : Nat, created : Nat, by : Deciders]

Verdict == [req : ReqIds, terms : Terms \cup {None}, at : Nat]

Use == [key : Keys, at : Nat]

Entry == [action : {"requested", "approved", "denied"}, by : Deciders \cup {None}]

ASSUME ApprovalsAssumption ==
  /\ IsFiniteSet(Uses)
  /\ \A k \in Keys : /\ k.kind \in Kinds
                     /\ k.kind # "tool" => k.digest = NoDigest
                     /\ k = [kind |-> k.kind, subject |-> k.subject, digest |-> k.digest]
  /\ None \notin ReqIds \cup GrantIds \cup Uses \cup Deciders \cup Nat
  /\ None \notin ReqRow \cup GrantRow /\ None \notin {k.digest : k \in Keys}
  /\ OldReq \in ReqIds \cup {None} /\ OldGrant \in GrantIds \cup {None}
  /\ OldKey \in Keys /\ OldKey.kind = "tool" /\ OldKey.digest = NoDigest
  /\ Deciders # {}
  /\ MaxUses \in Nat \ {0} /\ MaxTime \in Nat

VARIABLES
  now,       \* the database clock
  req,       \* approval_request, None: no such row yet
  grant,     \* permit_grant, None: no such row yet
  trail,     \* approval_audit, in order, per request
  rowLock,   \* who holds a request's row (SELECT ... FOR UPDATE)
  dpc,       \* where each decider's transaction is
  verdict,   \* what it is about: [req, terms, at], None when idle
  credLock,  \* the use whose transaction holds the credential row
  upc,       \* where each use is
  use,       \* what it is for: [key, at], None before it begins
  burn       \* the grant it takes a use of

vars == <<now, req, grant, trail, rowLock, dpc, verdict, credLock, upc, use, burn>>
decisions == <<req, trail, rowLock, dpc, verdict>>
consumption == <<credLock, upc, use, burn>>

-----------------------------------------------------------------------------
Pending(k) == {r \in ReqIds : req[r] # None /\ req[r].status = "pending" /\ req[r].key = k}

\* Fault: an expired grant still admits.
LiveExpired(g, t) ==
  /\ grant[g] # None
  /\ grant[g].maxUses = None \/ grant[g].uses < grant[g].maxUses

Live(g, t) ==
  /\ grant[g] # None
  /\ grant[g].expires = None \/ grant[g].expires > t
  /\ grant[g].maxUses = None \/ grant[g].uses < grant[g].maxUses

\* Fault: a grant for the verb admits any call of it.
AdmitsVerb(g, k) == grant[g].kind = k.kind /\ grant[g].subject = k.subject

\* A tool grant admits the call it is welded to; one from before argument
\* binding admits its verb.
Admits(g, k) ==
  /\ grant[g].kind = k.kind /\ grant[g].subject = k.subject
  /\ k.kind = "tool" => grant[g].digest \in {k.digest, None}

Consumable(k, t) == {g \in GrantIds : Live(g, t) /\ Admits(g, k)}

\* An exact match before a verb-level one, then the oldest.
Before(g, h) ==
  \/ grant[g].digest # None /\ grant[h].digest = None
  \/ /\ (grant[g].digest = None) = (grant[h].digest = None)
     /\ grant[g].created <= grant[h].created

Preferred(k, t) ==
  {g \in Consumable(k, t) : k.kind = "tool" => \A h \in Consumable(k, t) : Before(g, h)}

\* What ApproveRequest checks under the row lock.
Grantable(k, t) ==
  /\ t.expires # None \/ t.maxUses # None
  /\ (k.kind = "budget") = t.amount
  /\ k.kind = "tool" => k.digest # NoDigest

-----------------------------------------------------------------------------
\* A deployment older than argument binding may bring one tool request that
\* names no call, pending or approved with a verb-level grant.
OldRows(done, by, n) ==
  /\ req = [r \in ReqIds |->
              IF r # OldReq THEN None
              ELSE [key |-> OldKey, status |-> IF done THEN "approved" ELSE "pending",
                    by |-> IF done THEN by ELSE None]]
  /\ grant = [g \in GrantIds |->
                IF g # OldGrant \/ ~done THEN None
                ELSE [req |-> OldReq, kind |-> "tool", subject |-> OldKey.subject,
                      digest |-> None, expires |-> None, maxUses |-> n,
                      uses |-> 0, created |-> 0, by |-> by]]
  /\ trail = [r \in ReqIds |->
                IF r # OldReq THEN <<>>
                ELSE IF done THEN <<[action |-> "requested", by |-> None],
                                    [action |-> "approved", by |-> by]>>
                ELSE <<[action |-> "requested", by |-> None]>>]

Init ==
  /\ now = 0
  /\ \E done \in BOOLEAN, by \in Deciders, n \in 1..MaxUses :
       /\ done => OldReq # None /\ OldGrant # None
       /\ OldRows(done, by, n)
  /\ rowLock = [r \in ReqIds |-> None]
  /\ dpc = [d \in Deciders |-> "idle"]
  /\ verdict = [d \in Deciders |-> None]
  /\ credLock = None
  /\ upc = [u \in Uses |-> "idle"]
  /\ use = [u \in Uses |-> None]
  /\ burn = [u \in Uses |-> None]

(* Store.FileRequest *)

\* A fresh filing and its audit row; one that finds an identical request
\* pending changes nothing.  The credential exists (else ErrNotFound), and
\* every path that files a tool request today names the call.
FileRequest(r, k) ==
  /\ req[r] = None
  /\ Pending(k) = {}
  /\ k.kind = "tool" => k.digest # NoDigest
  /\ req' = [req EXCEPT ![r] = [key |-> k, status |-> "pending", by |-> None]]
  /\ trail' = [trail EXCEPT ![r] = Append(@, [action |-> "requested", by |-> None])]
  /\ UNCHANGED <<now, grant, rowLock, dpc, verdict, consumption>>

(* Store.ApproveRequest and Store.DenyApprovalRequest *)

\* Without terms, it is a denial.
DecideBegin(d, r, t) ==
  /\ dpc[d] = "idle" /\ req[r] # None
  /\ t # None /\ t.expires # None => t.expires > now
  /\ dpc' = [dpc EXCEPT ![d] = "waiting"]
  /\ verdict' = [verdict EXCEPT ![d] = [req |-> r, terms |-> t, at |-> now]]
  /\ UNCHANGED <<now, req, grant, trail, rowLock, consumption>>

\* Whether the row the decider locks may be decided the way it wants.
Decidable(d) ==
  LET v == verdict[d] IN
  /\ req[v.req].status = "pending"
  /\ v.terms # None => Grantable(req[v.req].key, v.terms)

\* Fault: the row is read without FOR UPDATE.
DecideUnlocked(d) ==
  /\ dpc[d] = "waiting"
  /\ Decidable(d)
  /\ rowLock' = [rowLock EXCEPT ![verdict[d].req] = d]
  /\ dpc' = [dpc EXCEPT ![d] = "holding"]
  /\ UNCHANGED <<now, req, grant, trail, verdict, consumption>>

DecideLock(d) ==
  /\ dpc[d] = "waiting"
  /\ rowLock[verdict[d].req] = None
  /\ Decidable(d)
  /\ rowLock' = [rowLock EXCEPT ![verdict[d].req] = d]
  /\ dpc' = [dpc EXCEPT ![d] = "holding"]
  /\ UNCHANGED <<now, req, grant, trail, verdict, consumption>>

\* The transaction ends and its row lock with it.
DecideEnd(d) ==
  /\ dpc' = [dpc EXCEPT ![d] = "idle"]
  /\ rowLock' = [r \in ReqIds |-> IF rowLock[r] = d THEN None ELSE rowLock[r]]
  /\ verdict' = [verdict EXCEPT ![d] = None]
  /\ UNCHANGED <<now, consumption>>

\* ErrNotPending or ErrBounds.
DecideRefused(d) ==
  /\ dpc[d] = "waiting"
  /\ rowLock[verdict[d].req] = None
  /\ ~Decidable(d)
  /\ DecideEnd(d)
  /\ UNCHANGED <<req, grant, trail>>

\* The request's status and the trail, in one commit.
Decided(d, status) ==
  LET r == verdict[d].req IN
  /\ req' = [req EXCEPT ![r].status = status, ![r].by = d]
  /\ trail' = [trail EXCEPT ![r] = Append(@, [action |-> status, by |-> d])]

\* ... with the grant, bounded and welded to the request's call.
ApproveCommit(d, g) ==
  LET v == verdict[d]
      k == req[v.req].key IN
  /\ dpc[d] = "holding" /\ v.terms # None /\ grant[g] = None
  /\ grant' = [grant EXCEPT ![g] =
       [req |-> v.req, kind |-> k.kind, subject |-> k.subject,
        digest |-> IF k.kind = "tool" THEN k.digest ELSE None,
        expires |-> v.terms.expires, maxUses |-> v.terms.maxUses,
        uses |-> 0, created |-> v.at, by |-> d]]
  /\ Decided(d, "approved")
  /\ DecideEnd(d)

DenyCommit(d) ==
  /\ dpc[d] = "holding" /\ verdict[d].terms = None
  /\ Decided(d, "denied")
  /\ DecideEnd(d)
  /\ UNCHANGED grant

\* A store error, a lost connection, a dead replica: rolled back.
DecideFail(d) ==
  /\ dpc[d] # "idle"
  /\ DecideEnd(d)
  /\ UNCHANGED <<req, grant, trail>>

-----------------------------------------------------------------------------
(* Store.ConsumeToolGrant, and the consume inside AdmitInboundEvent *)

\* now() is fixed when the transaction begins, before any wait.
UseBegin(u, k) ==
  /\ upc[u] = "idle" /\ k.kind # "budget" /\ (k.kind = "tool" => k.digest # NoDigest)
  /\ upc' = [upc EXCEPT ![u] = "waiting"]
  /\ use' = [use EXCEPT ![u] = [key |-> k, at |-> now]]
  /\ UNCHANGED <<now, grant, decisions, credLock, burn>>

\* No consumable grant: nothing is consumed, the caller denies.
UseRefuse(u) ==
  /\ upc[u] = "waiting" /\ credLock = None
  /\ Consumable(use[u].key, use[u].at) = {}
  /\ upc' = [upc EXCEPT ![u] = "refused"]
  /\ UNCHANGED <<now, grant, decisions, credLock, use, burn>>

UseTake(u) ==
  /\ upc[u] = "waiting" /\ credLock = None
  /\ \E g \in Preferred(use[u].key, use[u].at) : burn' = [burn EXCEPT ![u] = g]
  /\ credLock' = u
  /\ upc' = [upc EXCEPT ![u] = "taking"]
  /\ UNCHANGED <<now, grant, decisions, use>>

\* The use is burned; the caller may never learn it.
UseCommit(u, outcome) ==
  /\ upc[u] = "taking"
  /\ grant' = [grant EXCEPT ![burn[u]].uses = @ + 1]
  /\ credLock' = None
  /\ upc' = [upc EXCEPT ![u] = outcome]
  /\ UNCHANGED <<now, decisions, use, burn>>

UseGranted(u) == UseCommit(u, "granted")
UseReplyLost(u) == UseCommit(u, "lost")

UseFail(u) ==
  /\ upc[u] \in {"waiting", "taking"}
  /\ upc' = [upc EXCEPT ![u] = "refused"]
  /\ credLock' = IF credLock = u THEN None ELSE credLock
  /\ burn' = [burn EXCEPT ![u] = None]
  /\ UNCHANGED <<now, grant, decisions, use>>

-----------------------------------------------------------------------------
Tick ==
  /\ now < MaxTime
  /\ now' = now + 1
  /\ UNCHANGED <<grant, decisions, consumption>>

DecideStep(d) ==
  \/ \E r \in ReqIds, t \in Terms \cup {None} : DecideBegin(d, r, t)
  \/ DecideLock(d) \/ DecideRefused(d)
  \/ \E g \in GrantIds : ApproveCommit(d, g)
  \/ DenyCommit(d) \/ DecideFail(d)

UseStep(u) ==
  \/ \E k \in Keys : UseBegin(u, k)
  \/ UseRefuse(u) \/ UseTake(u) \/ UseGranted(u) \/ UseReplyLost(u) \/ UseFail(u)

Next ==
  \/ \E r \in ReqIds, k \in Keys : FileRequest(r, k)
  \/ \E d \in Deciders : DecideStep(d)
  \/ \E u \in Uses : UseStep(u)
  \/ Tick

Spec == Init /\ [][Next]_vars

-----------------------------------------------------------------------------
(* Properties. *)

\* Type invariant.
TypeOK ==
  /\ now \in Nat
  /\ req \in [ReqIds -> ReqRow \cup {None}]
  /\ grant \in [GrantIds -> GrantRow \cup {None}]
  /\ trail \in [ReqIds -> Seq(Entry)]
  /\ rowLock \in [ReqIds -> Deciders \cup {None}]
  /\ dpc \in [Deciders -> {"idle", "waiting", "holding"}]
  /\ verdict \in [Deciders -> Verdict \cup {None}]
  /\ credLock \in Uses \cup {None}
  /\ upc \in [Uses -> {"idle", "waiting", "taking", "granted", "lost", "refused"}]
  /\ use \in [Uses -> Use \cup {None}]
  /\ burn \in [Uses -> GrantIds \cup {None}]

GrantsOf(r) == {g \in GrantIds : grant[g] # None /\ grant[g].req = r}

\* A request is decided once, by one person, whatever the admin API and
\* Slack do at the same time: its row, its grants and the trail tell the
\* same story, and an approval has minted exactly one grant.
TrailTellsAll ==
  \A r \in ReqIds : req[r] # None =>
    LET asked == [action |-> "requested", by |-> None]
        answer == [action |-> req[r].status, by |-> req[r].by] IN
    IF req[r].status = "pending"
      THEN trail[r] = <<asked>> /\ GrantsOf(r) = {}
      ELSE /\ trail[r] = <<asked, answer>>
           /\ IF req[r].status = "denied" THEN GrantsOf(r) = {}
              ELSE \E g \in GrantsOf(r) : GrantsOf(r) = {g} /\ grant[g].by = req[r].by

\* However often an agent retries, one call has one pending request.
OnePendingPerCall == \A r, s \in ReqIds :
  /\ req[r] # None /\ req[r].status = "pending"
  /\ req[s] # None /\ req[s].status = "pending"
  /\ req[r].key = req[s].key
  => r = s

Spent(g) == {u \in Uses : burn[u] = g /\ upc[u] \in {"granted", "lost"}}

\* A grant with N uses admits exactly N uses, never N+1 and never fewer
\* than were counted: a refusal or a failure consumes nothing.
UsesExact ==
  \A g \in GrantIds : grant[g] # None =>
    /\ grant[g].uses = Cardinality(Spent(g))
    /\ grant[g].maxUses # None => grant[g].uses <= grant[g].maxUses

\* What was admitted is the call a human approved: same kind, same subject
\* and, for a tool, the same digest.  The one exception is the verb-level
\* grant from before argument binding, a class that never grows.
UseWasApproved ==
  \A u \in Uses : upc[u] = "granted" =>
    LET g == grant[burn[u]] IN
    /\ req[g.req].status = "approved"
    /\ \/ req[g.req].key = use[u].key
       \/ burn[u] = OldGrant /\ use[u].key.kind = "tool" /\ use[u].key.subject = OldKey.subject
    /\ g.expires = None \/ g.expires > use[u].at

\* The permits the tables stand for.
covers == [g \in GrantIds |-> IF grant[g] = None THEN {} ELSE {k \in Keys : Admits(g, k)}]

left == [g \in GrantIds |-> IF grant[g] = None \/ grant[g].maxUses = None THEN None
                            ELSE grant[g].maxUses - grant[g].uses]

taken == [u \in Uses |-> IF upc[u] \in {"granted", "lost"}
                         THEN <<burn[u], use[u].key>> ELSE None]

Permits == INSTANCE Permit WITH Permits <- GrantIds, Acts <- Uses, Calls <- Keys

\* The store implements what an approval promises: whatever waits, fails
\* or races, a grant only ever admits the call it was issued for, as many
\* times as its human said, one act at a time.
ImplementsPermit == Permits!Spec
=============================================================================

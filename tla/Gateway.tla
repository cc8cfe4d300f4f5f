------------------------------ MODULE Gateway ------------------------------
(***************************************************************************)
(* The MCP gateway (gateway/gateway.go) between one agent's credential and *)
(* a tool server, with the runs that say for whom the agent acts           *)
(* (store/identity.go).                                                    *)
(*                                                                         *)
(* A tools/call passes the door, the audit gate, the canonical parse and   *)
(* then one of three ways in: a standing constraint it is inside, the      *)
(* allowlist where no constraint exists, or a use of a grant for exactly   *)
(* this call, taken before it is sent.  What became of it is audited       *)
(* after; an audit that fails shuts the gate for the replica.  Grants are  *)
(* the permits of module Permit, which module Approvals implements.        *)
(***************************************************************************)
EXTENDS Naturals, FiniteSets

CONSTANTS
  Calls,        \* messages the agent sends, each once
  Grants,       \* grants that may be issued
  Runs, People, \* agent turns the bridge opens, who they are for
  Tools, Args,  \* a call is of a tool with (the digest of) its arguments
  Messages,     \* what the agent may send: [method, key]
  Allowlist,    \* tools the credential may always call ...
  Bounds,       \* ... unless a standing constraint exists: tool -> arguments inside
  RunTTL, TurnLimit, \* when a run stops counting; how long a turn may take
  MaxUses, MaxTime, \* bounds on a grant's uses and on the clock
  None

Keys == [tool : Tools, args : Args]

Methods == {"relayed", "call", "other"}

\* A run: until is when its turn has ended at the latest.
RunRow == [actor : People \cup {"none"}, expires : Nat, until : Nat, ended : BOOLEAN]

\* What an audit row says of a call.
Row == [decision : {"allowed", "denied"}, how : Grants \cup {"allowlist", "constraint", "none"},
        actor : People \cup {"none", "unknown"}]

ASSUME GatewayAssumption ==
  /\ Messages \subseteq [method : Methods, key : Keys]
  /\ Allowlist \subseteq Tools
  /\ DOMAIN Bounds \subseteq Tools
  /\ None \notin Calls \cup Grants \cup Runs \cup People \cup Nat \cup RunRow \cup Row \cup (Grants \X Keys)
  /\ Grants \cap {"allowlist", "constraint", "none"} = {}
  /\ People \cap {"none", "unknown"} = {}
  /\ RunTTL \in Nat /\ TurnLimit \in Nat /\ MaxTime \in Nat /\ MaxUses \in Nat \ {0}
  /\ TurnLimit < RunTTL  \* openRuns: the turn's limit and a minute

VARIABLES
  now,       \* the database clock
  run,       \* agent_run: [actor, expires, ended], None before the turn
  turn,      \* runs whose agent is at work
  covers, left, taken,   \* the grants (Permit)
  expired,   \* grants past their end
  pending,   \* calls with a pending approval request
  pc,        \* where each call is in the handler
  by,        \* the turn a call is of, None for an operator's
  overdue,   \* calls that came after their turn had ended (history)
  what,      \* [method, key] of the message
  stamp,     \* the attribution its context carries
  how,       \* how it was admitted
  sent,      \* calls whose message reached the tool server
  row,       \* its tool_audit row
  degraded,  \* the replica's auditDegraded
  failing,   \* an audit write failed and none has landed since (history)
  late,      \* calls whose write landed before that and whose flag had not (history)
  unwritten  \* calls whose audit write failed (history)

identity == <<now, run, turn>>
permits == <<covers, left, taken, expired>>
calls == <<pc, by, overdue, what, stamp, how, sent, row>>
gate == <<degraded, failing, late, unwritten>>
vars == <<identity, permits, pending, calls, gate>>

P == INSTANCE Permit WITH Permits <- Grants, Acts <- Calls, Calls <- Keys

-----------------------------------------------------------------------------
(* Runs: store/identity.go, opened and closed by the bridge around a turn. *)

Open == {r \in Runs : run[r] # None /\ ~run[r].ended /\ run[r].expires > now}

\* A run over long ago, and the calls of its agent with it.
Past == [actor |-> "none", expires |-> 0, until |-> 0, ended |-> TRUE]

\* Fault: of two open runs, one is taken.
ActorOfFirst == IF Open = {} THEN "none" ELSE run[CHOOSE r \in Open : TRUE].actor

\* Who a call is made for: nobody, the actor of the only open run, or, with
\* two, nobody can say.
ActorFor ==
  IF Open = {} THEN "none"
  ELSE IF \E r \in Open : Open = {r} THEN run[CHOOSE r \in Open : TRUE].actor
  ELSE "unknown"

OpenRun(r, actor) ==
  /\ run[r] = None
  /\ run' = [run EXCEPT ![r] = [actor |-> actor, expires |-> now + RunTTL,
                               until |-> now + TurnLimit, ended |-> FALSE]]
  /\ turn' = turn \cup {r}
  /\ UNCHANGED <<now, permits, pending, calls, gate>>

\* The agent answers, or the bridge's wait for it times out; the run is
\* closed after.  Nothing stops the agent: its calls may come later.
TurnEnds(r) ==
  /\ r \in turn
  /\ turn' = turn \ {r}
  /\ UNCHANGED <<now, run, permits, pending, calls, gate>>

\* A close that fails, or a replica that dies, leaves the run to expire.
CloseRun(r) ==
  /\ run[r] # None /\ r \notin turn /\ ~run[r].ended
  /\ run' = [run EXCEPT ![r].ended = TRUE]
  /\ UNCHANGED <<now, turn, permits, pending, calls, gate>>

Tick ==
  /\ now < MaxTime
  /\ \A r \in turn : now < run[r].until
  /\ now' = now + 1
  /\ UNCHANGED <<run, turn, permits, pending, calls, gate>>

-----------------------------------------------------------------------------
(* Grants, as the approvals store issues them. *)

\* What a grant from before argument binding admits: its tool, whatever the
\* arguments.  The others, exact matches, are burned first.
Verb(tool) == [tool : {tool}, args : Args]

\* A human approves a pending request.
Approve(g) ==
  /\ covers[g] = {} /\ g \notin expired
  /\ \E k \in pending, n \in 1..MaxUses \cup {None} :
       /\ covers' = [covers EXCEPT ![g] = {k}]
       /\ left' = [left EXCEPT ![g] = n]
       /\ pending' = pending \ {k}
  /\ UNCHANGED <<identity, taken, expired, calls, gate>>

Expire(g) ==
  /\ covers[g] # {} /\ g \notin expired
  /\ expired' = expired \cup {g}
  /\ UNCHANGED <<identity, covers, left, taken, pending, calls, gate>>

\* Live for this call, as ConsumeToolGrant reads it.
Usable(k) == {g \in Grants \ expired : k \in covers[g] /\ left[g] # 0}

Preferred(k) ==
  IF \E g \in Usable(k) : covers[g] = {k} THEN {g \in Usable(k) : covers[g] = {k}} ELSE Usable(k)

Granted == UNION {covers[g] : g \in {h \in Grants \ expired : left[h] # 0}}

-----------------------------------------------------------------------------
(* handler.relay *)

Go(c, step) == pc' = [pc EXCEPT ![c] = step]

\* A denial or an outcome, on its way to the audit trail.
Reach(c, step) ==
  /\ Go(c, step)
  /\ UNCHANGED <<identity, permits, pending, by, overdue, what, stamp, how, sent, row, gate>>

Deny(c) == Reach(c, "deny")

\* authenticate: the identity is resolved once, at the door.  Before it, an
\* unknown token or an unreadable store is turned away without a row.  The
\* name is of whoever has the only run open, so of a late call not its own.
Arrive(c, m, t) ==
  /\ pc[c] = "idle"
  /\ t # None => run[t] \notin {None, Past}
  /\ overdue' = IF t \in turn \cup {None} THEN overdue ELSE overdue \cup {c}
  /\ by' = [by EXCEPT ![c] = t]
  /\ what' = [what EXCEPT ![c] = m]
  /\ \E s \in {ActorFor, "unknown"} : stamp' = [stamp EXCEPT ![c] = s]
  /\ Go(c, "door")
  /\ UNCHANGED <<identity, permits, pending, how, sent, row, gate>>

TurnedAway(c) == pc[c] = "idle" /\ Reach(c, "done")

\* An expired credential, or a name outside the upstream table.
DoorDenies(c) == pc[c] = "door" /\ Deny(c)

\* The tripped gate denies, and the denial's own row is the probe.
Pass(c) == pc[c] = "door" /\ ~degraded /\ Reach(c, "parse")
GateDenies(c) == pc[c] = "door" /\ degraded /\ Deny(c)

\* Unreadable, a batch, not canonical, no tool name, arguments that are no
\* object; or a method outside the scope.
ParseDenies(c) == pc[c] = "parse" /\ Deny(c)

\* The handshake is relayed and a ping answered here, neither audited; so is
\* a listing, projected to what is callable now.
Unaudited(c) == pc[c] = "parse" /\ what[c].method = "relayed" /\ Reach(c, "done")

\* The tools a listing shows.
Projected == Allowlist \cup {k.tool : k \in Granted} \cup DOMAIN Bounds

Constrained(k) == k.tool \in DOMAIN Bounds
Inside(k) == Constrained(k) /\ k.args \in Bounds[k.tool]

\* The ways in that need nobody.
Standing(k) ==
  IF Constrained(k) THEN IF Inside(k) THEN {"constraint"} ELSE {}
  ELSE IF k.tool \in Allowlist THEN {"allowlist"} ELSE {}

\* Fault: the allowlist also admits what a constraint bounds.
AdmitListed(c) ==
  /\ pc[c] = "parse" /\ what[c].method = "call"
  /\ \/ \E h \in Standing(what[c].key) : how' = [how EXCEPT ![c] = h]
     \/ what[c].key.tool \in Allowlist /\ how' = [how EXCEPT ![c] = "allowlist"]
  /\ Go(c, "send")
  /\ UNCHANGED <<identity, permits, pending, by, overdue, what, stamp, sent, row, gate>>

Admit(c) ==
  /\ pc[c] = "parse" /\ what[c].method = "call"
  /\ \E h \in Standing(what[c].key) : how' = [how EXCEPT ![c] = h]
  /\ Go(c, "send")
  /\ UNCHANGED <<identity, permits, pending, by, overdue, what, stamp, sent, row, gate>>

\* The use is taken before the call is sent, so a failure burns it.
Consume(c) ==
  /\ pc[c] = "parse" /\ what[c].method = "call" /\ Standing(what[c].key) = {}
  /\ P!Take(c)
  /\ \E g \in Preferred(what[c].key) :
       /\ taken'[c] = <<g, what[c].key>>
       /\ how' = [how EXCEPT ![c] = g]
  /\ pc' \in {[pc EXCEPT ![c] = s] : s \in {"send", "deny"}}  \* or its answer is lost
  /\ UNCHANGED <<identity, expired, pending, by, overdue, what, stamp, sent, row, gate>>

\* The store cannot say, or there is no grant: then a request is filed, if
\* the store takes it, and the denial stands.
GrantCheckFails(c) ==
  /\ pc[c] = "parse" /\ what[c].method = "call" /\ Standing(what[c].key) = {}
  /\ Deny(c)

NoGrant(c) ==
  /\ pc[c] = "parse" /\ what[c].method = "call" /\ Standing(what[c].key) = {}
  /\ Usable(what[c].key) = {}
  /\ pending' \in {pending, pending \cup {what[c].key}}
  /\ Go(c, "deny")
  /\ UNCHANGED <<identity, permits, by, overdue, what, stamp, how, sent, row, gate>>

\* Fault: a call that fails on its way returns without its row.
ForwardOnly(c) ==
  /\ pc[c] = "send"
  /\ sent' \in {sent, sent \cup {c}}
  /\ \E step \in {"record", "done"} : Go(c, step)
  /\ UNCHANGED <<identity, permits, pending, by, overdue, what, stamp, how, row, gate>>

\* do and forward: the message reached the server, whatever came back, or
\* the credential, the egress policy or the network kept it.
Forward(c) ==
  /\ pc[c] = "send"
  /\ sent' \in {sent, sent \cup {c}}
  /\ Go(c, "record")
  /\ UNCHANGED <<identity, permits, pending, by, overdue, what, stamp, how, row, gate>>

(* handler.audit: the row, then the replica's flag. *)

RowOf(c) == [decision |-> IF pc[c] = "deny" THEN "denied" ELSE "allowed",
             how |-> IF pc[c] = "deny" THEN "none" ELSE how[c], actor |-> stamp[c]]

WriteLands(c) ==
  /\ pc[c] \in {"deny", "record"}
  /\ row' = [row EXCEPT ![c] = RowOf(c)]
  /\ Go(c, "clear")
  /\ failing' = FALSE /\ late' = {}
  /\ UNCHANGED <<identity, permits, pending, by, overdue, what, stamp, how, sent, degraded, unwritten>>

\* The write, or only its answer, is lost.
WriteFails(c) ==
  /\ pc[c] \in {"deny", "record"}
  /\ row' \in {row, [row EXCEPT ![c] = RowOf(c)]}
  /\ Go(c, "trip")
  /\ failing' = TRUE
  /\ unwritten' = unwritten \cup {c}
  /\ late' = IF failing THEN late ELSE {d \in Calls : pc[d] = "clear"}
  /\ UNCHANGED <<identity, permits, pending, by, overdue, what, stamp, how, sent, degraded>>

\* Fault: a failed write leaves the gate open.
FlagCleared(c) ==
  /\ pc[c] \in {"clear", "trip"}
  /\ degraded' = FALSE
  /\ Go(c, "done")
  /\ UNCHANGED <<identity, permits, pending, by, overdue, what, stamp, how, sent, row, failing, late, unwritten>>

Flag(c) ==
  /\ pc[c] \in {"clear", "trip"}
  /\ degraded' = (pc[c] = "trip")
  /\ Go(c, "done")
  /\ UNCHANGED <<identity, permits, pending, by, overdue, what, stamp, how, sent, row, failing, late, unwritten>>

\* The replica dies with its flag and its handlers.
Crash ==
  /\ \E c \in Calls : pc[c] \notin {"idle", "done", "dead"}
  /\ pc' = [c \in Calls |-> IF pc[c] \in {"idle", "done"} THEN pc[c] ELSE "dead"]
  /\ degraded' = FALSE /\ failing' = FALSE /\ late' = {}
  /\ UNCHANGED <<identity, permits, pending, by, overdue, what, stamp, how, sent, row, unwritten>>

-----------------------------------------------------------------------------
\* The deployment may have runs, grants and calls behind it, and grants from
\* before argument binding.
Init ==
  /\ now = 0
  /\ run \in [Runs -> {None, Past}]
  /\ turn = {}
  /\ covers \in [Grants -> {{}} \cup {Verb(tool) : tool \in Tools}]
  /\ left \in [Grants -> {None} \cup 1..MaxUses]
  /\ taken = [c \in Calls |-> None]
  /\ expired \in {{}, Grants}
  /\ pending = {}
  /\ pc \in [Calls -> {"idle", "done"}]
  /\ by = [c \in Calls |-> None]
  /\ overdue = {}
  /\ what = [c \in Calls |-> None]
  /\ stamp = [c \in Calls |-> "unknown"]
  /\ how = [c \in Calls |-> "none"]
  /\ sent = {}
  /\ row = [c \in Calls |-> None]
  /\ degraded = FALSE
  /\ failing = FALSE
  /\ late = {}
  /\ unwritten = {}

Handle(c) ==
  \/ \E m \in Messages, t \in Runs \cup {None} : Arrive(c, m, t)
  \/ TurnedAway(c) \/ DoorDenies(c) \/ Pass(c) \/ GateDenies(c)
  \/ ParseDenies(c) \/ Unaudited(c)
  \/ Admit(c) \/ Consume(c) \/ GrantCheckFails(c) \/ NoGrant(c)
  \/ Forward(c) \/ WriteLands(c) \/ WriteFails(c) \/ Flag(c)

Turns(r) == (\E actor \in People \cup {"none"} : OpenRun(r, actor)) \/ TurnEnds(r) \/ CloseRun(r)

Next ==
  \/ \E c \in Calls : Handle(c)
  \/ \E r \in Runs : Turns(r)
  \/ \E g \in Grants : Approve(g) \/ Expire(g)
  \/ Tick \/ Crash

Spec == Init /\ [][Next]_vars

-----------------------------------------------------------------------------
(* Properties. *)

Steps == {"idle", "door", "parse", "send", "deny", "record", "clear", "trip", "done", "dead"}

\* Type invariant.
TypeOK ==
  /\ now \in Nat
  /\ run \in [Runs -> RunRow \cup {None}]
  /\ turn \subseteq {r \in Runs : run[r] # None}
  /\ covers \in [Grants -> SUBSET Keys]
  /\ left \in [Grants -> Nat \cup {None}]
  /\ taken \in [Calls -> (Grants \X Keys) \cup {None}]
  /\ expired \subseteq Grants
  /\ pending \subseteq Keys
  /\ pc \in [Calls -> Steps]
  /\ by \in [Calls -> Runs \cup {None}]
  /\ what \in [Calls -> Messages \cup {None}]
  /\ stamp \in [Calls -> People \cup {"none", "unknown"}]
  /\ how \in [Calls -> Grants \cup {"allowlist", "constraint", "none"}]
  /\ overdue \subseteq Calls /\ sent \subseteq Calls /\ late \subseteq Calls /\ unwritten \subseteq Calls
  /\ row \in [Calls -> Row \cup {None}]
  /\ degraded \in BOOLEAN /\ failing \in BOOLEAN

\* Nothing reaches a tool server but by one of the three ways in: inside a
\* standing constraint, on the allowlist where no constraint exists, or on a
\* use taken of a grant for this call, one use for each message; and the
\* grant is for exactly this call but where it is older than argument binding.
SentWasCleared ==
  \A c \in sent : LET k == what[c].key IN
    \/ how[c] = "constraint" /\ Inside(k)
    \/ how[c] = "allowlist" /\ k.tool \in Allowlist /\ ~Constrained(k)
    \/ /\ how[c] \in Grants /\ taken[c] = <<how[c], k>>
       /\ covers[how[c]] \in {{k}, Verb(k.tool)}

\* The use is taken before the call and the row written after, so either may
\* be missing, but only as announced: a row that claims a grant has its use,
\* a call that was sent is never recorded as denied, and a handler that
\* returned without a row, having sent or spent anything, saw its write fail.
RecordTellsAll ==
  \A c \in Calls :
    /\ row[c] # None /\ row[c].how \in Grants => taken[c] = <<row[c].how, what[c].key>>
    /\ row[c] # None /\ c \in sent => row[c].decision = "allowed"
    /\ pc[c] = "done" /\ (c \in sent \/ taken[c] # None) => row[c] # None \/ c \in unwritten

\* A call an agent makes while its turn is open is recorded for the person of
\* that turn or for nobody the plane can name, never for someone else: not
\* when runs overlap, when a close fails, or when one is left to expire, and
\* however late the row is written.  The agent's later calls have no such
\* promise: one can carry the name of whoever's turn is open by then.
NeverTheWrongPerson ==
  \A c \in Calls \ overdue : row[c] # None /\ by[c] # None =>
    row[c].actor \in {run[by[c]].actor, "unknown"}

\* After a failed audit write no message passes the gate until a write has
\* landed, but for two moments the flag cannot cover: before the failure has
\* set it, and after a write older than the failure has cleared it.
FailureShutsGate ==
  [][\A c \in Calls : pc[c] = "door" /\ pc'[c] = "parse" =>
       ~failing \/ late # {} \/ \E d \in Calls : pc[d] = "trip"]_vars
=============================================================================

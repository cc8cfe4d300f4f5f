--------------------------- MODULE Gateway_proofs ---------------------------
(***************************************************************************)
(* What a tool call went through, what is recorded of it and for whom, for *)
(* any number of calls, grants, runs and people.                           *)
(***************************************************************************)
EXTENDS Gateway, TLAPS



-----------------------------------------------------------------------------
(* Types. *)

\* A message in the handler.
CalledInv == \A c \in Calls : pc[c] \in {"door", "parse", "send"} => what[c] \in Messages

LEMMA InitType == Init => TypeOK
<1> SUFFICES ASSUME Init PROVE TypeOK
  OBVIOUS
<1>1. Past \in RunRow
  BY DEF Past, RunRow
<1>2. run \in [Runs -> RunRow \cup {None}] /\ turn \subseteq {r \in Runs : run[r] # None}
  BY <1>1 DEF Init
<1>3. pc \in [Calls -> Steps] /\ now \in Nat
  BY DEF Init, Steps
<1>4. covers \in [Grants -> SUBSET Keys] /\ left \in [Grants -> Nat \cup {None}]
  <2>1. \A tool \in Tools : Verb(tool) \subseteq Keys
    BY DEF Verb, Keys
  <2>2. 1..MaxUses \subseteq Nat
    BY GatewayAssumption
  <2>3. QED
    BY <2>1, <2>2 DEF Init
<1>5. QED
  BY <1>2, <1>3, <1>4 DEF Init, TypeOK

LEMMA RunIsNot == None \notin RunRow
  BY GatewayAssumption

\* A run, or the clock.
LEMMA RunsType == TypeOK /\ ((\E r \in Runs : Turns(r)) \/ Tick) => TypeOK'
<1> SUFFICES ASSUME TypeOK, (\E r \in Runs : Turns(r)) \/ Tick PROVE TypeOK'
  OBVIOUS
<1> USE DEF TypeOK, RunRow, permits, calls, gate
<1>1. ASSUME NEW r \in Runs, NEW actor \in People \cup {"none"}, OpenRun(r, actor) PROVE TypeOK'
  <2>1. /\ now + RunTTL \in Nat /\ now + TurnLimit \in Nat
    BY GatewayAssumption
  <2>2. run'[r] \in RunRow /\ run'[r] # None
    <3>1. run'[r] = [actor |-> actor, expires |-> now + RunTTL, until |-> now + TurnLimit, ended |-> FALSE]
      BY <1>1 DEF OpenRun
    <3>2. run'[r] \in RunRow
      BY <2>1, <3>1
    <3>3. QED
      BY <3>2, RunIsNot
  <2>3. run' \in [Runs -> RunRow \cup {None}]
    BY <1>1, <2>2 DEF OpenRun
  <2>4. turn' \subseteq {q \in Runs : run'[q] # None}
    BY <1>1, <2>2 DEF OpenRun
  <2>5. QED
    BY <1>1, <2>3, <2>4 DEF OpenRun
<1>2. ASSUME NEW r \in Runs, TurnEnds(r) PROVE TypeOK'
  BY <1>2 DEF TurnEnds
<1>3. ASSUME NEW r \in Runs, CloseRun(r) PROVE TypeOK'
  <2>1. run'[r] \in RunRow /\ run'[r] # None
    <3>1. run[r] \in RunRow /\ run'[r] = [run[r] EXCEPT !.ended = TRUE]
      BY <1>3 DEF CloseRun
    <3>2. QED
      BY <3>1, RunIsNot
  <2>2. run' \in [Runs -> RunRow \cup {None}]
    BY <1>3, <2>1 DEF CloseRun
  <2>3. turn' \subseteq {q \in Runs : run'[q] # None}
    BY <1>3, <2>1 DEF CloseRun
  <2>4. QED
    BY <1>3, <2>2, <2>3 DEF CloseRun
<1>4. CASE Tick
  BY <1>4 DEF Tick
<1>5. QED
  BY <1>1, <1>2, <1>3, <1>4 DEF Turns

LEMMA GrantsType == TypeOK /\ (\E g \in Grants : Approve(g) \/ Expire(g)) => TypeOK'
<1> SUFFICES ASSUME TypeOK, NEW g \in Grants, Approve(g) \/ Expire(g) PROVE TypeOK'
  OBVIOUS
<1> USE DEF TypeOK, identity, calls, gate
<1>1. CASE Approve(g)
  BY <1>1 DEF Approve
<1>2. CASE Expire(g)
  BY <1>2 DEF Expire
<1>3. QED
  BY <1>1, <1>2

\* The steps of a handler that only move it on.
Moves(c) ==
  \/ TurnedAway(c) \/ DoorDenies(c) \/ Pass(c) \/ GateDenies(c)
  \/ ParseDenies(c) \/ Unaudited(c) \/ GrantCheckFails(c)

LEMMA MovesType == ASSUME TypeOK, NEW c \in Calls, Moves(c) PROVE TypeOK'
  BY DEF TypeOK, Moves, TurnedAway, DoorDenies, Pass, GateDenies, ParseDenies, Unaudited,
         GrantCheckFails, Deny, Reach, Go, Steps, identity, permits, gate

LEMMA ActorType == TypeOK => ActorFor \in People \cup {"none", "unknown"}
  BY DEF TypeOK, ActorFor, Open, RunRow

LEMMA HandleType == ASSUME TypeOK, CalledInv, NEW c \in Calls, Handle(c) PROVE TypeOK'
<1> USE DEF TypeOK, Go, Steps, identity, permits, gate
<1>1. ASSUME NEW m \in Messages, NEW t \in Runs \cup {None}, Arrive(c, m, t) PROVE TypeOK'
  BY <1>1, ActorType DEF Arrive
<1>2. CASE Moves(c)
  BY <1>2, MovesType
<1>3. CASE Admit(c)
  BY <1>3 DEF Admit, Standing
<1>4. CASE Consume(c)
  <2>0. PICK p \in Grants, k \in Keys :
          /\ k \in covers[p] /\ left[p] # 0
          /\ left' = [left EXCEPT ![p] = IF @ = None THEN None ELSE @ - 1]
          /\ taken' = [taken EXCEPT ![c] = <<p, k>>] /\ covers' = covers
    <3>1. \E p \in Grants : \E k \in covers[p] :
            /\ left[p] # 0
            /\ left' = [left EXCEPT ![p] = IF @ = None THEN None ELSE @ - 1]
            /\ taken' = [taken EXCEPT ![c] = <<p, k>>]
      BY <1>4 DEF Consume, P!Take
    <3>2. covers' = covers
      BY <1>4 DEF Consume, P!Take
    <3>3. QED
      BY <3>1, <3>2
  <2>1. /\ taken' \in [Calls -> (Grants \X Keys) \cup {None}]
        /\ left' \in [Grants -> Nat \cup {None}] /\ covers' = covers
    <3>1. k \in Keys
      BY <2>0
    <3>2. (IF left[p] = None THEN None ELSE left[p] - 1) \in Nat \cup {None}
      <4>1. CASE left[p] = None
        BY <4>1
      <4>2. CASE left[p] # None
        <5>1. left[p] \in Nat \ {0}
          BY <2>0, <4>2
        <5>2. \A n \in Nat \ {0} : n - 1 \in Nat
          OBVIOUS
        <5>3. left[p] - 1 \in Nat
          BY <5>1, <5>2
        <5>4. QED
          BY <4>2, <5>3
      <4>3. QED
        BY <4>1, <4>2
    <3>3. QED
      BY <2>0, <3>1, <3>2
  <2>2. PICK g \in Preferred(what[c].key) : how' = [how EXCEPT ![c] = g]
    BY <1>4 DEF Consume
  <2>3. g \in Grants
    BY DEF Preferred, Usable
  <2>4. QED
    <3>1. pc' \in [Calls -> Steps] /\ how' \in [Calls -> Grants \cup {"allowlist", "constraint", "none"}]
      BY <1>4, <2>2, <2>3 DEF Consume
    <3>2. QED
      BY <1>4, <2>1, <3>1 DEF Consume
<1>5. CASE NoGrant(c)
  <2>1. what[c].key \in Keys
    <3>1. what[c] \in Messages
      BY <1>5 DEF NoGrant, CalledInv
    <3>2. QED
      BY <3>1, GatewayAssumption
  <2>2. QED
    BY <1>5, <2>1 DEF NoGrant
<1>6. CASE Forward(c)
  BY <1>6 DEF Forward
<1>7. ASSUME pc[c] \in {"deny", "record"} PROVE RowOf(c) \in Row
  BY <1>7 DEF RowOf, Row
<1>8. CASE WriteLands(c)
  BY <1>7, <1>8 DEF WriteLands
<1>9. CASE WriteFails(c)
  BY <1>7, <1>9 DEF WriteFails
<1>10. CASE Flag(c)
  BY <1>10 DEF Flag
<1>11. QED
  BY <1>1, <1>2, <1>3, <1>4, <1>5, <1>6, <1>8, <1>9, <1>10 DEF Handle, Moves

LEMMA CrashType == TypeOK /\ Crash => TypeOK'
  BY DEF TypeOK, Crash, Steps, identity, permits

LEMMA StutterType == TypeOK /\ UNCHANGED vars => TypeOK'
  BY DEF TypeOK, vars, identity, permits, calls, gate

\* No step but those of a call's own handler, or its death, moves the call.
LEMMA CalledStep == TypeOK /\ CalledInv /\ [Next]_vars => CalledInv'
<1> SUFFICES ASSUME TypeOK, CalledInv, [Next]_vars PROVE CalledInv'
  OBVIOUS
<1>1. ASSUME NEW c \in Calls, Handle(c) PROVE CalledInv'
  <2>1. ASSUME NEW m \in Messages, NEW t \in Runs \cup {None}, Arrive(c, m, t) PROVE CalledInv'
    BY <2>1 DEF TypeOK, CalledInv, Arrive, Go
  <2>2. CASE Moves(c)
    BY <2>2 DEF TypeOK, CalledInv, Moves, TurnedAway, DoorDenies, Pass, GateDenies, ParseDenies, Unaudited,
                GrantCheckFails, Deny, Reach, Go
  <2>3. CASE Admit(c) \/ Consume(c) \/ NoGrant(c)
    BY <2>3 DEF TypeOK, CalledInv, Admit, Consume, NoGrant, Go
  <2>4. CASE Forward(c) \/ WriteLands(c) \/ WriteFails(c) \/ Flag(c)
    BY <2>4 DEF TypeOK, CalledInv, Forward, WriteLands, WriteFails, Flag, Go
  <2>5. QED
    BY <1>1, <2>1, <2>2, <2>3, <2>4 DEF Handle, Moves
<1>2. CASE Crash
  BY <1>2 DEF TypeOK, CalledInv, Crash
<1>3. CASE UNCHANGED <<pc, what>>
  BY <1>3 DEF CalledInv
<1>4. QED
  BY <1>1, <1>2, <1>3 DEF Next, Turns, OpenRun, TurnEnds, CloseRun, Approve, Expire, Tick, calls, vars

\* The variables keep their types (handler, the stores behind it), and a
\* message is there while it is handled.
THEOREM TypeCorrect == Spec => [](TypeOK /\ CalledInv)
<1>1. Init => CalledInv
  BY DEF Init, CalledInv
<1>2. TypeOK /\ CalledInv /\ [Next]_vars => TypeOK'
  BY RunsType, GrantsType, HandleType, CrashType, StutterType DEF Next
<1>3. QED
  BY InitType, CalledStep, <1>1, <1>2, PTL DEF Spec

-----------------------------------------------------------------------------
(* What a call went through and what is recorded of it. *)

\* A grant is for one call, or older than argument binding and for its tool.
CoversInv ==
  \A g \in Grants : covers[g] \in {{}} \cup {{k} : k \in Keys} \cup {Verb(tool) : tool \in Tools}

\* Once issued it keeps what it is for.
CoversKept == \A g \in Grants : covers[g] # {} => covers'[g] = covers[g]

LEMMA CoversStep == TypeOK /\ CoversInv /\ [Next]_vars => CoversInv' /\ CoversKept
<1> SUFFICES ASSUME TypeOK, CoversInv, [Next]_vars PROVE CoversInv' /\ CoversKept
  OBVIOUS
<1>1. ASSUME NEW g \in Grants, Approve(g) PROVE CoversInv' /\ CoversKept
  <2>1. covers[g] = {} /\ \E k \in Keys : covers' = [covers EXCEPT ![g] = {k}]
    BY <1>1 DEF Approve, TypeOK
  <2>2. QED
    BY <2>1 DEF CoversInv, CoversKept, TypeOK, Verb
<1>2. CASE UNCHANGED covers
  BY <1>2 DEF CoversInv, CoversKept, Verb
<1>3. ASSUME NEW c \in Calls, Handle(c) PROVE UNCHANGED covers
  <2>1. CASE Consume(c)
    BY <2>1 DEF Consume, P!Take
  <2>2. CASE ~Consume(c)
    BY <1>3, <2>2 DEF Handle, Arrive, TurnedAway, DoorDenies, Pass, GateDenies, ParseDenies, Unaudited, Admit,
            GrantCheckFails, NoGrant, Forward, WriteLands, WriteFails, Flag, Deny, Reach, permits
  <2>3. QED
    BY <2>1, <2>2
<1>4. QED
  BY <1>1, <1>2, <1>3 DEF Next, Turns, OpenRun, TurnEnds, CloseRun, Expire, Tick, Crash, permits, vars

\* The grant a call takes is for that call, or for its tool.
LEMMA PreferredCovers ==
  ASSUME CoversInv, NEW k, NEW g \in Preferred(k)
  PROVE  k \in covers[g] /\ covers[g] \in {{k}, Verb(k.tool)}
<1>1. g \in Grants /\ k \in covers[g]
  BY DEF Preferred, Usable
<1>2. CASE \E q \in Keys : covers[g] = {q}
  BY <1>1, <1>2
<1>3. CASE \E tool \in Tools : covers[g] = Verb(tool)
  <2>1. PICK tool \in Tools : covers[g] = Verb(tool)
    BY <1>3
  <2>2. k.tool = tool
    BY <1>1, <2>1 DEF Verb
  <2>3. QED
    BY <1>1, <2>1, <2>2
<1>4. QED
  BY <1>1, <1>2, <1>3 DEF CoversInv

\* How a message that is sent was cleared: SentWasCleared, of one call.
Cleared(c) ==
  LET k == what[c].key IN
    \/ how[c] = "constraint" /\ Inside(k)
    \/ how[c] = "allowlist" /\ k.tool \in Allowlist /\ ~Constrained(k)
    \/ /\ how[c] \in Grants /\ taken[c] = <<how[c], k>>
       /\ k \in covers[how[c]] /\ covers[how[c]] \in {{k}, Verb(k.tool)}

\* SentWasCleared and RecordTellsAll of one call, and what they rest on at
\* each step of its handler: nothing taken, sent or written before its time.
CallInv(c) ==
  /\ pc[c] \in {"idle", "door", "parse"} => taken[c] = None
  /\ pc[c] \in {"idle", "door", "parse", "send", "deny"} => c \notin sent
  /\ pc[c] \in {"idle", "door", "parse", "send", "deny", "record"} => row[c] = None
  /\ pc[c] \in {"send", "record"} \/ c \in sent => Cleared(c)
  /\ pc[c] = "clear" => row[c] # None
  /\ pc[c] = "trip" => c \in unwritten
  /\ row[c] # None /\ row[c].how \in Grants => taken[c] = <<row[c].how, what[c].key>>
  /\ row[c] # None /\ c \in sent => row[c].decision = "allowed"
  /\ pc[c] = "done" /\ (c \in sent \/ taken[c] # None) => row[c] # None \/ c \in unwritten

CallsInv == \A c \in Calls : CallInv(c)

\* A call that a step leaves alone keeps what is known of it.
LEMMA CallKept ==
  ASSUME NEW c, CallInv(c), CoversKept,
         pc'[c] = pc[c] \/ pc'[c] = "dead",
         what'[c] = what[c], how'[c] = how[c], taken'[c] = taken[c], row'[c] = row[c],
         (c \in sent') <=> (c \in sent), c \in unwritten => c \in unwritten'
  PROVE  CallInv(c)'
<1>1. Cleared(c) => Cleared(c)'
  BY DEF Cleared, CoversKept, Inside, Constrained, Verb
<1>2. QED
  BY <1>1 DEF CallInv

\* One step of a handler does to its own call what CallInv allows for.
LEMMA OwnStep ==
  ASSUME TypeOK, CoversInv, NEW c \in Calls, CallInv(c), Handle(c), CoversKept
  PROVE  CallInv(c)'
<1> USE DEF TypeOK, CallInv, Go, identity, permits, gate
<1>1. ASSUME NEW m \in Messages, NEW t \in Runs \cup {None}, Arrive(c, m, t) PROVE CallInv(c)'
  BY <1>1 DEF Arrive
<1>2. CASE Moves(c)
  BY <1>2 DEF Moves, TurnedAway, DoorDenies, Pass, GateDenies, ParseDenies, Unaudited, GrantCheckFails,
              Deny, Reach
<1>3. CASE Admit(c)
  <2>1. PICK h \in Standing(what[c].key) : how' = [how EXCEPT ![c] = h]
    BY <1>3 DEF Admit
  <2>2. Cleared(c)'
    <3>1. how'[c] = h /\ what'[c] = what[c]
      BY <1>3, <2>1 DEF Admit
    <3>2. QED
      BY <2>1, <3>1 DEF Cleared, Standing, Inside, Constrained
  <2>3. QED
    BY <1>3, <2>2 DEF Admit
<1>4. CASE Consume(c)
  <2>1. PICK g \in Preferred(what[c].key) :
          taken'[c] = <<g, what[c].key>> /\ how' = [how EXCEPT ![c] = g]
    BY <1>4 DEF Consume
  <2>2. g \in Grants
    BY DEF Preferred, Usable
  <2>3. how'[c] = g /\ what'[c] = what[c]
    BY <1>4, <2>1, <2>2 DEF Consume
  <2>4. Cleared(c)'
    <3>1. LET k == what[c].key IN k \in covers[g] /\ covers[g] \in {{k}, Verb(k.tool)}
      BY <2>1, PreferredCovers
    <3>2. covers' = covers
      BY <1>4 DEF Consume, P!Take
    <3>3. QED
      BY <2>1, <2>2, <2>3, <3>1, <3>2 DEF Cleared, Verb
  <2>5. pc'[c] \in {"send", "deny"} /\ UNCHANGED <<sent, row>>
    BY <1>4 DEF Consume
  <2>6. QED
    BY <1>4, <2>4, <2>5 DEF Consume
<1>5. CASE NoGrant(c)
  BY <1>5 DEF NoGrant
<1>6. CASE Forward(c)
  <2>1. Cleared(c)'
    BY <1>6 DEF Forward, Cleared, Inside, Constrained, Verb
  <2>2. QED
    BY <1>6, <2>1 DEF Forward
<1>7. CASE WriteLands(c) \/ WriteFails(c)
  <2>1. /\ pc[c] \in {"deny", "record"} /\ pc'[c] \in {"clear", "trip"}
        /\ row'[c] \in {row[c], RowOf(c)} /\ (pc'[c] = "clear" => row'[c] = RowOf(c))
        /\ (pc'[c] = "trip" => c \in unwritten') /\ UNCHANGED <<what, how, taken, sent>>
    BY <1>7 DEF WriteLands, WriteFails
  <2>2. RowOf(c) # None
    BY GatewayAssumption DEF RowOf, Row
  <2>3. /\ RowOf(c).how \in Grants => taken[c] = <<RowOf(c).how, what[c].key>>
        /\ c \in sent => RowOf(c).decision = "allowed"
    BY <2>1, GatewayAssumption DEF RowOf, Cleared
  <2>4. Cleared(c) => Cleared(c)'
    BY <2>1, <1>7 DEF WriteLands, WriteFails, Cleared, Inside, Constrained, Verb
  <2>5. QED
    BY <2>1, <2>2, <2>3, <2>4
<1>8. CASE Flag(c)
  BY <1>8 DEF Flag, Cleared, Inside, Constrained, Verb
<1>9. QED
  BY <1>1, <1>2, <1>3, <1>4, <1>5, <1>6, <1>7, <1>8 DEF Handle, Moves

\* A handler leaves every other call as it is.
Alike(d) ==
  /\ pc'[d] = pc[d] /\ what'[d] = what[d] /\ how'[d] = how[d] /\ taken'[d] = taken[d]
  /\ row'[d] = row[d] /\ by'[d] = by[d] /\ stamp'[d] = stamp[d]
  /\ (d \in overdue') <=> (d \in overdue)
  /\ (d \in sent') <=> (d \in sent)
  /\ d \in unwritten => d \in unwritten'

LEMMA OthersAlike ==
  ASSUME TypeOK, NEW c \in Calls, Handle(c), NEW d \in Calls, d # c
  PROVE  Alike(d)
<1> USE DEF TypeOK, Alike, Go, identity, permits, gate
<1>1. ASSUME NEW m \in Messages, NEW t \in Runs \cup {None}, Arrive(c, m, t) PROVE Alike(d)
  BY <1>1 DEF Arrive
<1>2. CASE Moves(c)
  BY <1>2 DEF Moves, TurnedAway, DoorDenies, Pass, GateDenies, ParseDenies, Unaudited, GrantCheckFails,
              Deny, Reach
<1>3. CASE Admit(c) \/ NoGrant(c)
  BY <1>3 DEF Admit, NoGrant
<1>4. CASE Consume(c)
  <2>1. taken'[d] = taken[d]
    BY <1>4 DEF Consume, P!Take
  <2>2. pc'[d] = pc[d] /\ how'[d] = how[d] /\ UNCHANGED <<what, row, by, overdue, stamp, sent, unwritten>>
    BY <1>4 DEF Consume
  <2>3. QED
    BY <2>1, <2>2
<1>5. CASE Forward(c)
  BY <1>5 DEF Forward
<1>6. CASE WriteLands(c) \/ WriteFails(c) \/ Flag(c)
  BY <1>6 DEF WriteLands, WriteFails, Flag
<1>7. QED
  BY <1>1, <1>2, <1>3, <1>4, <1>5, <1>6 DEF Handle, Moves

LEMMA CallsStep == TypeOK /\ CoversInv /\ CallsInv /\ [Next]_vars => CallsInv'
<1> SUFFICES ASSUME TypeOK, CoversInv, CallsInv, [Next]_vars PROVE CallsInv'
  OBVIOUS
<1> CoversKept
  BY CoversStep
<1>1. ASSUME NEW c \in Calls, Handle(c) PROVE CallsInv'
  <2>1. ASSUME NEW d \in Calls, d # c PROVE CallInv(d)'
    BY <1>1, <2>1, OthersAlike, CallKept DEF Alike, CallsInv
  <2>2. CallInv(c)'
    BY <1>1, OwnStep DEF CallsInv
  <2>3. QED
    BY <2>1, <2>2 DEF CallsInv
<1>2. CASE Crash
  <2>1. ASSUME NEW d \in Calls PROVE CallInv(d)'
    <3>1. pc'[d] = pc[d] \/ pc'[d] = "dead"
      BY <1>2 DEF TypeOK, Crash
    <3>2. QED
      BY <1>2, <3>1, CallKept DEF CallsInv, Crash, permits
  <2>2. QED
    BY <2>1 DEF CallsInv
<1>3. CASE UNCHANGED <<taken, calls, unwritten>>
  <2>1. UNCHANGED <<pc, what, how, taken, row, sent, unwritten>>
    BY <1>3 DEF calls
  <2>2. QED
    BY <2>1, CallKept DEF CallsInv
<1>4. ASSUME NEW g \in Grants, Approve(g) \/ Expire(g) PROVE UNCHANGED <<taken, calls, unwritten>>
  BY <1>4 DEF Approve, Expire, gate
<1>5. QED
  BY <1>1, <1>2, <1>3, <1>4
  DEF Next, Turns, OpenRun, TurnEnds, CloseRun, Tick, permits, gate, vars

LEMMA CallsInit == Init => CallsInv /\ CoversInv
  BY DEF Init, CallsInv, CallInv, CoversInv, Verb

\* Nothing reaches a tool server but inside a constraint, on the allowlist or
\* on its own use of a grant for exactly this call, or for its tool where the
\* grant is older than argument binding (handler.relay, ConsumeToolGrant).
THEOREM SentCleared == Spec => []SentWasCleared
<1>1. TypeOK /\ CallsInv => SentWasCleared
  BY DEF TypeOK, CallsInv, CallInv, Cleared, SentWasCleared
<1>2. QED
  BY TypeCorrect, CallsInit, CoversStep, CallsStep, <1>1, PTL DEF Spec

\* What the trail says of a call is what became of it, and what it leaves out
\* a failed write left out (handler.audit, the consume before the send).
THEOREM Recorded == Spec => []RecordTellsAll
<1>1. CallsInv => RecordTellsAll
  BY DEF CallsInv, CallInv, RecordTellsAll
<1>2. QED
  BY TypeCorrect, CallsInit, CoversStep, CallsStep, <1>1, PTL DEF Spec

-----------------------------------------------------------------------------
(* For whom a call is recorded. *)

\* A turn in progress has its run open, and until after the turn.
TurnInv ==
  \A r \in turn :
    /\ run[r] # None /\ ~run[r].ended
    /\ now <= run[r].until /\ run[r].until < run[r].expires

\* The attribution a call carries is its turn's or nobody's, if it came while
\* the turn was open, and its row has it.
Stamped(c) ==
  /\ pc[c] = "idle" => row[c] = None
  /\ by[c] # None => run[by[c]] # None
  /\ pc[c] # "idle" /\ by[c] # None /\ c \notin overdue => stamp[c] \in {run[by[c]].actor, "unknown"}
  /\ row[c] # None => row[c].actor = stamp[c]

StampInv == \A c \in Calls : Stamped(c)

LEMMA TurnStep == TypeOK /\ TurnInv /\ [Next]_vars => TurnInv'
<1> SUFFICES ASSUME TypeOK, TurnInv, [Next]_vars PROVE TurnInv'
  OBVIOUS
<1> USE DEF TypeOK, TurnInv
<1>1. ASSUME NEW r \in Runs, NEW actor \in People \cup {"none"}, OpenRun(r, actor) PROVE TurnInv'
  <2>1. run'[r] = [actor |-> actor, expires |-> now + RunTTL, until |-> now + TurnLimit, ended |-> FALSE]
    BY <1>1 DEF OpenRun
  <2>2. run'[r] \in RunRow /\ run'[r] # None
    <3>1. now + RunTTL \in Nat /\ now + TurnLimit \in Nat
      BY GatewayAssumption
    <3>2. run'[r] \in RunRow
      BY <2>1, <3>1 DEF RunRow
    <3>3. QED
      BY <3>2, RunIsNot
  <2>3. now <= now + TurnLimit /\ now + TurnLimit < now + RunTTL
    BY GatewayAssumption
  <2>4. \A q \in turn : q # r /\ run'[q] = run[q]
    BY <1>1 DEF OpenRun
  <2>5. turn' = turn \cup {r} /\ now' = now
    BY <1>1 DEF OpenRun
  <2>6. QED
    BY <2>1, <2>2, <2>3, <2>4, <2>5
<1>2. ASSUME NEW r \in Runs, TurnEnds(r) PROVE TurnInv'
  BY <1>2 DEF TurnEnds
<1>3. ASSUME NEW r \in Runs, CloseRun(r) PROVE TurnInv'
  BY <1>3 DEF CloseRun
<1>4. CASE Tick
  <2>1. \A r \in turn : run[r] \in RunRow
    OBVIOUS
  <2>2. QED
    BY <1>4, <2>1 DEF Tick, RunRow
<1>5. CASE UNCHANGED identity
  BY <1>5 DEF identity
<1>6. ASSUME NEW c \in Calls, Handle(c) PROVE UNCHANGED identity
  BY <1>6 DEF Handle, Arrive, TurnedAway, DoorDenies, Pass, GateDenies, ParseDenies, Unaudited, Admit, Consume,
              GrantCheckFails, NoGrant, Forward, WriteLands, WriteFails, Flag, Deny, Reach
<1>7. QED
  BY <1>1, <1>2, <1>3, <1>4, <1>5, <1>6 DEF Next, Turns, Approve, Expire, Crash, vars

\* In its own turn a call is made for the turn's person, or for nobody known.
LEMMA OwnTurn ==
  ASSUME TypeOK, TurnInv, NEW r \in turn
  PROVE  ActorFor \in {run[r].actor, "unknown"}
<1>1. r \in Open
  <2>1. run[r] \in RunRow
    BY DEF TypeOK, TurnInv
  <2>2. run[r].expires > now
    BY <2>1 DEF TypeOK, TurnInv, RunRow
  <2>3. QED
    BY <2>2 DEF TypeOK, TurnInv, Open
<1>2. CASE \E q \in Open : Open = {q}
  <2>1. (CHOOSE q \in Open : TRUE) = r
    BY <1>1, <1>2
  <2>2. QED
    BY <1>1, <1>2, <2>1 DEF ActorFor
<1>3. CASE ~ \E q \in Open : Open = {q}
  BY <1>1, <1>3 DEF ActorFor
<1>4. QED
  BY <1>2, <1>3

\* A run that was opened stays, and is for whom it was.
LEMMA RunKept ==
  ASSUME TypeOK, [Next]_vars, NEW r \in Runs, run[r] # None
  PROVE  run'[r] # None /\ run'[r].actor = run[r].actor
<1>1. ASSUME NEW q \in Runs, NEW actor \in People \cup {"none"}, OpenRun(q, actor)
      PROVE  run'[r] = run[r]
  BY <1>1 DEF OpenRun, TypeOK
<1>2. ASSUME NEW q \in Runs, CloseRun(q)
      PROVE  run'[r] # None /\ run'[r].actor = run[r].actor
  <2>1. run[r] \in RunRow
    BY DEF TypeOK
  <2>2. run'[r] \in {run[r], [run[r] EXCEPT !.ended = TRUE]}
    BY <1>2 DEF CloseRun, TypeOK
  <2>3. [run[r] EXCEPT !.ended = TRUE] \in RunRow /\ [run[r] EXCEPT !.ended = TRUE].actor = run[r].actor
    BY <2>1 DEF RunRow
  <2>4. QED
    BY <2>2, <2>3, RunIsNot
<1>3. ASSUME NEW c \in Calls, Handle(c) PROVE UNCHANGED run
  BY <1>3 DEF Handle, Arrive, TurnedAway, DoorDenies, Pass, GateDenies, ParseDenies, Unaudited, Admit, Consume,
              GrantCheckFails, NoGrant, Forward, WriteLands, WriteFails, Flag, Deny, Reach, identity
<1>4. QED
  BY <1>1, <1>2, <1>3 DEF Next, Turns, TurnEnds, Tick, Approve, Expire, Crash, identity, vars

\* A call that keeps its turn and its stamp, and writes no other in its row.
LEMMA StampKept ==
  ASSUME TypeOK, [Next]_vars, NEW c \in Calls, Stamped(c), by'[c] = by[c], stamp'[c] = stamp[c],
         (c \in overdue') <=> (c \in overdue),
         pc'[c] = "idle" => pc[c] = "idle" /\ row'[c] = row[c], pc[c] = "idle" => by[c] = None \/ pc'[c] = "idle",
         row'[c] = row[c] \/ row'[c].actor = stamp[c]
  PROVE  Stamped(c)'
<1>1. by[c] # None => run'[by[c]] # None /\ run'[by[c]].actor = run[by[c]].actor
  BY RunKept DEF TypeOK, Stamped
<1>2. QED
  BY <1>1 DEF Stamped

IdleInv == \A c \in Calls : pc[c] = "idle" => by[c] = None

LEMMA StampStep == TypeOK /\ TurnInv /\ StampInv /\ IdleInv /\ [Next]_vars => StampInv' /\ IdleInv'
<1> SUFFICES ASSUME TypeOK, TurnInv, StampInv, IdleInv, [Next]_vars PROVE StampInv' /\ IdleInv'
  OBVIOUS
<1>1. ASSUME NEW c \in Calls, Handle(c) PROVE StampInv' /\ IdleInv'
  <2>1. ASSUME NEW d \in Calls, d # c PROVE Stamped(d)' /\ (pc'[d] = "idle" => by'[d] = None)
    BY <1>1, <2>1, OthersAlike, StampKept DEF Alike, StampInv, IdleInv, Stamped
  <2>2. ASSUME NEW m \in Messages, NEW t \in Runs \cup {None}, Arrive(c, m, t)
        PROVE  Stamped(c)' /\ pc'[c] # "idle"
    <3>1. /\ pc[c] = "idle" /\ pc'[c] = "door" /\ by'[c] = t /\ stamp'[c] \in {ActorFor, "unknown"}
          /\ row'[c] = row[c] /\ run' = run /\ (t # None => run[t] # None)
          /\ (c \notin overdue' => t \in turn \cup {None})
      BY <2>2 DEF Arrive, Go, TypeOK, identity
    <3>2. t # None /\ c \notin overdue' => ActorFor \in {run[t].actor, "unknown"}
      BY <3>1, OwnTurn DEF TurnInv
    <3>3. QED
      BY <3>1, <3>2 DEF Stamped, StampInv
  <2>3. ASSUME ~ \E m \in Messages, t \in Runs \cup {None} : Arrive(c, m, t)
        PROVE  Stamped(c)' /\ pc'[c] # "idle"
    <3>1. by' = by /\ overdue' = overdue /\ stamp' = stamp /\ pc'[c] # "idle"
      BY <1>1, <2>3 DEF Handle, TurnedAway, DoorDenies, Pass, GateDenies, ParseDenies, Unaudited, Admit, Consume,
              GrantCheckFails, NoGrant, Forward, WriteLands, WriteFails, Flag, Deny, Reach, Go, TypeOK
    <3>2. row'[c] = row[c] \/ row'[c].actor = stamp[c]
      BY <1>1, <2>3 DEF Handle, TurnedAway, DoorDenies, Pass, GateDenies, ParseDenies, Unaudited, Admit, Consume,
              GrantCheckFails, NoGrant, Forward, WriteLands, WriteFails, Flag, Deny, Reach, RowOf, TypeOK
    <3>3. QED
      BY <3>1, <3>2, StampKept DEF StampInv, IdleInv
  <2>4. QED
    BY <2>1, <2>2, <2>3 DEF StampInv, IdleInv
<1>2. CASE Crash
  <2>1. ASSUME NEW d \in Calls PROVE pc'[d] = "idle" <=> pc[d] = "idle"
    BY <1>2 DEF TypeOK, Crash
  <2>2. QED
    BY <1>2, <2>1, StampKept DEF Crash, StampInv, IdleInv
<1>3. CASE UNCHANGED calls
  BY <1>3, StampKept DEF calls, StampInv, IdleInv
<1>4. QED
  BY <1>1, <1>2, <1>3
  DEF Next, Turns, OpenRun, TurnEnds, CloseRun, Approve, Expire, Tick, gate, vars

\* A row names the person of the turn its call was made in, or nobody
\* (Store.ActorFor at the door, OpenRun and CloseRun around the turn).
THEOREM RightPerson == Spec => []NeverTheWrongPerson
<1>1. Init => TurnInv /\ StampInv /\ IdleInv
  BY DEF Init, TurnInv, StampInv, Stamped, IdleInv
<1>2. TypeOK /\ StampInv => NeverTheWrongPerson
  BY DEF StampInv, Stamped, NeverTheWrongPerson
<1>3. QED
  BY TypeCorrect, TurnStep, StampStep, <1>1, <1>2, PTL DEF Spec

-----------------------------------------------------------------------------
(* The gate. *)

\* After a failed write the gate is shut, or about to be, or was opened by an
\* older write; a write that landed and is not older has not failed.
ShutInv ==
  failing => /\ degraded \/ late # {} \/ \E d \in Calls : pc[d] = "trip"
             /\ \A d \in Calls : pc[d] = "clear" => d \in late

LEMMA ShutStep == TypeOK /\ ShutInv /\ [Next]_vars => ShutInv'
<1> SUFFICES ASSUME TypeOK, ShutInv, [Next]_vars PROVE ShutInv'
  OBVIOUS
<1> USE DEF TypeOK, ShutInv
<1>1. ASSUME NEW c \in Calls, Handle(c) PROVE ShutInv'
  <2>1. CASE WriteLands(c)
    BY <2>1 DEF WriteLands
  <2>2. CASE WriteFails(c)
    BY <2>2 DEF WriteFails, Go
  <2>3. CASE Flag(c)
    BY <2>3 DEF Flag, Go
  <2>4. ASSUME ~WriteLands(c), ~WriteFails(c), ~Flag(c) PROVE ShutInv'
    <3>1. UNCHANGED gate /\ pc[c] \notin {"clear", "trip"} /\ pc'[c] \notin {"clear", "trip"}
      BY <1>1, <2>4 DEF Handle, Arrive, TurnedAway, DoorDenies, Pass, GateDenies, ParseDenies, Unaudited, Admit,
              Consume, GrantCheckFails, NoGrant, Forward, Deny, Reach, Go
    <3>2. \A d \in Calls : d # c => pc'[d] = pc[d]
      BY <1>1, OthersAlike DEF Alike
    <3>3. QED
      BY <3>1, <3>2 DEF gate
  <2>5. QED
    BY <2>1, <2>2, <2>3, <2>4
<1>2. CASE Crash
  BY <1>2 DEF Crash
<1>3. CASE UNCHANGED <<calls, gate>>
  BY <1>3 DEF calls, gate
<1>4. QED
  BY <1>1, <1>2, <1>3
  DEF Next, Turns, OpenRun, TurnEnds, CloseRun, Approve, Expire, Tick, vars

\* No message passes the gate after a failed audit write before one lands, but
\* in the two moments a flag cannot cover (handler.auditGate, auditDegraded).
THEOREM GateShuts == Spec => FailureShutsGate
<1>1. Init => ShutInv
  BY DEF Init, ShutInv
<1>2. ASSUME TypeOK, ShutInv, [Next]_vars, NEW c \in Calls, pc[c] = "door", pc'[c] = "parse"
      PROVE  ~failing \/ late # {} \/ \E d \in Calls : pc[d] = "trip"
  <2>1. CASE Handle(c)
    <3>1. Pass(c)
      BY <1>2, <2>1 DEF TypeOK, Handle, Arrive, TurnedAway, DoorDenies, GateDenies, ParseDenies, Unaudited, Admit,
              Consume, GrantCheckFails, NoGrant, Forward, WriteLands, WriteFails, Flag, Deny, Reach, Go
    <3>2. QED
      BY <1>2, <3>1 DEF Pass, ShutInv
  <2>2. ASSUME NEW d \in Calls, Handle(d), d # c PROVE FALSE
    BY <1>2, <2>2, OthersAlike DEF Alike
  <2>3. QED
    BY <1>2, <2>1, <2>2
    DEF TypeOK, Next, Turns, OpenRun, TurnEnds, CloseRun, Approve, Expire, Tick, Crash, calls, vars
<1>3. TypeOK /\ ShutInv /\ [Next]_vars =>
        [\A c \in Calls : pc[c] = "door" /\ pc'[c] = "parse" =>
           ~failing \/ late # {} \/ \E d \in Calls : pc[d] = "trip"]_vars
  BY <1>2
<1>4. QED
  BY TypeCorrect, ShutStep, <1>1, <1>3, PTL DEF Spec, FailureShutsGate

=============================================================================

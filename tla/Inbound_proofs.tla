--------------------------- MODULE Inbound_proofs ---------------------------
(***************************************************************************)
(* The inbound bridge implements Delivery, for any number of deliveries,   *)
(* requests, replicas and workers, and any queue.                          *)
(*                                                                         *)
(* "At most once" rests on the index alone at the door (IndexInv), and     *)
(* from there on an admitted event having at most one carrier: a handler   *)
(* about to queue it, a place in a queue, or a worker (OneCarrier).  What  *)
(* the event has been through follows from who carries it (StageInv).      *)
(* RunInv does the same for the runs: the worker an event is with is the   *)
(* only one to open or close them.                                         *)
(* SlotInv counts the slots of a replica by what holds them.               *)
(***************************************************************************)
EXTENDS Inbound, FiniteSetTheorems, TLAPS

\* The types the argument needs, and whose event each step is about.
TypeInv ==
  /\ pc \in [Attempts -> Phases]
  /\ of \in [Attempts -> Deliveries \cup {None}]
  /\ at \in [Attempts -> Replicas \cup {None}]
  /\ inserting \in [Deliveries -> Attempts \cup {None}]
  /\ admitted \subseteq Deliveries
  /\ left \in 0..MaxLeft
  /\ outcomes \in [Deliveries -> Nat]
  /\ jobs \in [Replicas -> Seq(Deliveries)]
  /\ wpc \in [Workers -> Turn \cup {"idle", "exited"}]
  /\ on \in [Workers -> Deliveries \cup {None}]
  /\ turns \in [Deliveries -> Nat]
  /\ \A a \in Attempts :
       /\ pc[a] # "idle" => at[a] \in Replicas
       /\ pc[a] \in Holding \cup {"door", "filing"} => of[a] \in Deliveries
  /\ \A w \in Workers : on[w] \in Deliveries <=> wpc[w] \in Turn

\* An index entry not yet committed belongs to the transaction that inserts it.
IndexInv ==
  /\ \A a \in Attempts : pc[a] = "inserted" => inserting[of[a]] = a
  /\ \A d \in Deliveries, a \in Attempts :
       inserting[d] = a => pc[a] = "inserted" /\ of[a] = d /\ d \notin admitted

Places(p) == 1..Len(jobs[p])

OneCarrier ==
  /\ \A a, b \in Attempts : pc[a] = "admitted" /\ pc[b] = "admitted" /\ of[a] = of[b] => a = b
  /\ \A p, q \in Replicas : \A i \in Places(p), j \in Places(q) :
       jobs[p][i] = jobs[q][j] => p = q /\ i = j
  /\ \A v, w \in Workers : on[v] = on[w] /\ on[v] \in Deliveries => v = w
  /\ \A a \in Attempts, p \in Replicas : \A i \in Places(p) :
       pc[a] = "admitted" => of[a] # jobs[p][i]
  /\ \A a \in Attempts, w \in Workers : pc[a] = "admitted" => of[a] # on[w]
  /\ \A w \in Workers, p \in Replicas : \A i \in Places(p) : on[w] # jobs[p][i]

\* Nothing has become of the event yet.
Untouched(d) == d \in admitted /\ turns[d] = 0 /\ outcomes[d] = 0

StageInv ==
  /\ \A d \in Deliveries : turns[d] \in {0, 1} /\ outcomes[d] \in {0, 1}
  /\ \A d \in Deliveries : d \notin admitted => turns[d] = 0 /\ outcomes[d] = 0
  /\ \A a \in Attempts : pc[a] = "admitted" => Untouched(of[a])
  /\ \A p \in Replicas : \A i \in Places(p) : Untouched(jobs[p][i])
  /\ \A w \in Workers :
       /\ on[w] \in Deliveries => on[w] \in admitted
       /\ wpc[w] \in {"opening", "invoking"} => Untouched(on[w])
       /\ wpc[w] \in {"recording", "refusing"} => outcomes[on[w]] = 0

IInv == TypeInv /\ IndexInv /\ OneCarrier /\ StageInv

USE InboundAssumption DEF MoveTo, WorkerTo

-----------------------------------------------------------------------------
LEMMA InitInv == Init => IInv
BY DEF Init, IInv, TypeInv, IndexInv, OneCarrier, StageInv, Untouched, Places,
       Phases, Holding, Turn

\* A handler that neither becomes nor stops being the carrier of an event, and
\* neither begins nor ends its insert.
LEMMA HandlerFrame ==
  ASSUME IInv, NEW a \in Attempts,
         pc[a] \notin {"inserted", "admitted"}, pc'[a] \notin {"inserted", "admitted"},
         pc' \in [Attempts -> Phases],
         of' \in [Attempts -> Deliveries \cup {None}],
         at' \in [Attempts -> Replicas \cup {None}],
         \A b \in Attempts \ {a} : pc'[b] = pc[b] /\ of'[b] = of[b] /\ at'[b] = at[b],
         pc'[a] # "idle" => at'[a] \in Replicas,
         pc'[a] \in Holding \cup {"door", "filing"} => of'[a] \in Deliveries,
         left' \in 0..MaxLeft,
         UNCHANGED <<inserting, admitted, outcomes, jobs, wpc, on, turns>>
  PROVE  IInv'
<1>1. TypeInv'
  BY DEF IInv, TypeInv
<1>2. IndexInv'
  BY DEF IInv, TypeInv, IndexInv, Phases
<1>3. OneCarrier'
  BY DEF IInv, OneCarrier, Places
<1>4. StageInv'
  BY DEF IInv, StageInv, Untouched, Places
<1> QED BY <1>1, <1>2, <1>3, <1>4 DEF IInv

LEMMA DoorInv ==
  ASSUME IInv, NEW a \in Attempts,
         \/ \E d \in Deliveries, p \in Replicas : Arrive(a, d, p)
         \/ TurnAway(a) \/ HandleCommand(a) \/ TakeSlot(a) \/ Replay(a)
         \/ FileRequest(a) \/ Audit(a)
  PROVE  IInv'
<1>1. ASSUME NEW d \in Deliveries, NEW p \in Replicas, Arrive(a, d, p) PROVE IInv'
  <2>1. /\ pc' = [pc EXCEPT ![a] = IF degraded[p] THEN "auditing" ELSE "door"]
        /\ of' = [of EXCEPT ![a] = IF degraded[p] THEN None ELSE d]
        /\ at' = [at EXCEPT ![a] = p]
        /\ pc[a] = "idle" /\ UNCHANGED <<inserting, admitted, left, outcomes, jobs, wpc, on, turns>>
    BY <1>1 DEF Arrive, tables, queue, workers, trail
  <2>2. /\ pc' \in [Attempts -> Phases] /\ pc'[a] \in {"auditing", "door"}
        /\ of' \in [Attempts -> Deliveries \cup {None}] /\ (pc'[a] = "door" => of'[a] \in Deliveries)
        /\ at' \in [Attempts -> Replicas \cup {None}] /\ at'[a] \in Replicas
    BY <2>1 DEF IInv, TypeInv, Phases
  <2>3. \A b \in Attempts \ {a} : pc'[b] = pc[b] /\ of'[b] = of[b] /\ at'[b] = at[b]
    BY <2>1 DEF IInv, TypeInv
  <2>4. left' \in 0..MaxLeft
    BY <2>1 DEF IInv, TypeInv
  <2>5. pc[a] \notin {"inserted", "admitted"} /\ pc'[a] \notin {"inserted", "admitted"}
    BY <2>1, <2>2
  <2>6. /\ pc'[a] # "idle" => at'[a] \in Replicas
        /\ pc'[a] \in Holding \cup {"door", "filing"} => of'[a] \in Deliveries
    BY <2>2 DEF Holding
  <2>7. UNCHANGED <<inserting, admitted, outcomes, jobs, wpc, on, turns>>
    BY <2>1
  <2> QED BY <2>2, <2>3, <2>4, <2>5, <2>6, <2>7, HandlerFrame
<1>2. CASE TurnAway(a)
  BY <1>2, HandlerFrame DEF TurnAway, Refuse, IInv, TypeInv, Phases, Holding, tables, queue, workers, trail
<1>3. CASE HandleCommand(a)
  <2>1. left' \in 0..MaxLeft /\ UNCHANGED <<inserting, admitted>>
    BY <1>3 DEF HandleCommand, Decide, IInv, TypeInv, tables
  <2> QED
    BY <1>3, <2>1, HandlerFrame
    DEF HandleCommand, Refuse, IInv, TypeInv, Phases, Holding, queue, workers, trail
<1>4. CASE TakeSlot(a)
  <2>1. UNCHANGED <<tables, jobs, workers, trail>>
    BY <1>4 DEF TakeSlot
  <2>2. pc[a] = "door" /\ (MoveTo(a, "admitting") \/ Refuse(a))
    BY <1>4 DEF TakeSlot
  <2>3. CASE MoveTo(a, "admitting")
    BY <2>1, <2>2, <2>3, HandlerFrame DEF IInv, TypeInv, Phases, Holding, tables, workers, trail
  <2>4. CASE Refuse(a)
    BY <2>1, <2>2, <2>4, HandlerFrame
    DEF Refuse, IInv, TypeInv, Phases, Holding, tables, workers, trail
  <2> QED BY <2>2, <2>3, <2>4
<1>5. CASE Replay(a)
  BY <1>5, HandlerFrame
  DEF Replay, Release, Refuse, IInv, TypeInv, Phases, Holding, tables, queue, workers, trail
<1>6. CASE FileRequest(a)
  BY <1>6, HandlerFrame
  DEF FileRequest, Refuse, IInv, TypeInv, Phases, Holding, queue, workers, trail
<1>7. CASE Audit(a)
  BY <1>7, HandlerFrame
  DEF Audit, Answer, IInv, TypeInv, Phases, Holding, tables, queue, workers, trail
<1> QED BY <1>1, <1>2, <1>3, <1>4, <1>5, <1>6, <1>7

LEMMA InsertInv ==
  ASSUME IInv, NEW a \in Attempts, Insert(a) PROVE IInv'
<1>1. TypeInv'
  BY DEF Insert, IInv, TypeInv, Phases, Holding, queue, workers, trail
<1>2. IndexInv'
  BY DEF Insert, IInv, TypeInv, IndexInv, Holding
<1>3. OneCarrier'
  BY DEF Insert, IInv, TypeInv, OneCarrier, Places, queue, workers
<1>4. StageInv'
  BY DEF Insert, IInv, TypeInv, StageInv, Untouched, Places, queue, workers, trail
<1> QED BY <1>1, <1>2, <1>3, <1>4 DEF IInv

\* A transaction that commits is the first for its event, which nothing
\* carries yet.
LEMMA FirstOfItsEvent ==
  ASSUME IInv, NEW a \in Attempts, pc[a] = "inserted"
  PROVE  /\ of[a] \in Deliveries /\ of[a] \notin admitted
         /\ turns[of[a]] = 0 /\ outcomes[of[a]] = 0
         /\ \A b \in Attempts : pc[b] = "admitted" => of[b] # of[a]
         /\ \A b \in Attempts : pc[b] = "inserted" /\ of[b] = of[a] => b = a
         /\ \A p \in Replicas : \A i \in Places(p) : jobs[p][i] # of[a]
         /\ \A w \in Workers : on[w] # of[a]
<1>1. of[a] \in Deliveries /\ of[a] \notin admitted
  BY DEF IInv, TypeInv, IndexInv, Holding
<1> QED BY <1>1 DEF IInv, IndexInv, StageInv, Untouched

LEMMA CommitInv ==
  ASSUME IInv, NEW a \in Attempts, Admit(a) \/ AdmitReplyLost(a) PROVE IInv'
<1> DEFINE d == of[a]
<1>0. /\ pc[a] = "inserted" /\ left' = left - 1 /\ left > 0
      /\ admitted' = admitted \cup {d} /\ inserting' = [inserting EXCEPT ![d] = None]
      /\ UNCHANGED <<at, jobs, wpc, on, outcomes, turns>>
  BY DEF Admit, AdmitReplyLost, CommitAdmission, Refuse, Release, MoveTo, queue, workers, trail
<1>1. /\ pc' \in [Attempts -> Phases] /\ of' \in [Attempts -> Deliveries \cup {None}]
      /\ pc'[a] \in {"admitted", "auditing"} /\ (pc'[a] = "admitted" => of'[a] = d)
      /\ \A b \in Attempts \ {a} : pc'[b] = pc[b] /\ of'[b] = of[b]
  <2>1. CASE Admit(a)
    BY <2>1 DEF Admit, IInv, TypeInv, Phases, Holding
  <2>2. CASE AdmitReplyLost(a)
    BY <2>2 DEF AdmitReplyLost, Refuse, IInv, TypeInv, Phases
  <2> QED BY <2>1, <2>2
<1>2. /\ d \in Deliveries /\ d \notin admitted /\ turns[d] = 0 /\ outcomes[d] = 0
      /\ \A b \in Attempts : pc[b] = "admitted" => of[b] # d
      /\ \A b \in Attempts : pc[b] = "inserted" /\ of[b] = d => b = a
      /\ \A p \in Replicas : \A i \in Places(p) : jobs[p][i] # d
      /\ \A w \in Workers : on[w] # d
  BY <1>0, FirstOfItsEvent
<1> HIDE DEF d
<1>3. TypeInv'
  <2>1. inserting' \in [Deliveries -> Attempts \cup {None}] /\ left' \in 0..MaxLeft
    BY <1>0, <1>2 DEF IInv, TypeInv
  <2>2. \A b \in Attempts :
          /\ pc'[b] # "idle" => at'[b] \in Replicas
          /\ pc'[b] \in Holding \cup {"door", "filing"} => of'[b] \in Deliveries
    BY <1>0, <1>1, <1>2 DEF IInv, TypeInv, Holding
  <2> QED BY <1>0, <1>1, <1>2, <2>1, <2>2 DEF IInv, TypeInv
<1>4. IndexInv'
  <2>1. \A b \in Attempts : pc'[b] = "inserted" => b # a /\ of[b] # d
    BY <1>1, <1>2
  <2>2. \A e \in Deliveries : inserting'[e] = IF e = d THEN None ELSE inserting[e]
    BY <1>0, <1>2 DEF IInv, TypeInv
  <2>3. \A b \in Attempts : pc'[b] = "inserted" => inserting'[of'[b]] = b
    BY <1>1, <2>1, <2>2 DEF IInv, TypeInv, IndexInv, Holding
  <2>4. \A e \in Deliveries, b \in Attempts :
          inserting'[e] = b => pc'[b] = "inserted" /\ of'[b] = e /\ e \notin admitted'
    <3> SUFFICES ASSUME NEW e \in Deliveries, NEW b \in Attempts, inserting'[e] = b
                 PROVE  pc'[b] = "inserted" /\ of'[b] = e /\ e \notin admitted'
      OBVIOUS
    <3>1. e # d /\ inserting[e] = b
      BY <2>2
    <3>2. pc[b] = "inserted" /\ of[b] = e /\ e \notin admitted
      BY <3>1 DEF IInv, IndexInv
    <3>3. b # a
      BY <3>1, <3>2 DEF d
    <3> QED BY <1>0, <1>1, <3>1, <3>2, <3>3
  <2> QED BY <2>3, <2>4 DEF IndexInv
<1>5. OneCarrier'
  BY <1>0, <1>1, <1>2 DEF IInv, OneCarrier, Places
<1>6. StageInv'
  BY <1>0, <1>1, <1>2 DEF IInv, StageInv, Untouched, Places
<1> QED BY <1>3, <1>4, <1>5, <1>6 DEF IInv

LEMMA RollbackInv ==
  ASSUME IInv, NEW a \in Attempts, AdmitRollback(a) PROVE IInv'
<1>0. /\ pc' \in [Attempts -> Phases] /\ of' \in [Attempts -> Deliveries \cup {None}]
      /\ UNCHANGED <<at, jobs, admitted, left, workers, trail>>
      /\ pc'[a] \in {"filing", "auditing"} /\ (pc'[a] = "filing" => of'[a] = of[a])
      /\ \A b \in Attempts \ {a} : pc'[b] = pc[b] /\ of'[b] = of[b]
      /\ inserting' = [d \in Deliveries |-> IF inserting[d] = a THEN None ELSE inserting[d]]
      /\ pc[a] \in Holding
  BY DEF AdmitRollback, Refuse, Release, IInv, TypeInv, Phases, Holding
<1>1. TypeInv'
  BY <1>0 DEF IInv, TypeInv, Holding, workers, trail
<1>2. IndexInv'
  <2>1. \A d \in Deliveries, b \in Attempts : inserting'[d] = b <=> b # a /\ inserting[d] = b
    BY <1>0 DEF IInv, TypeInv
  <2> QED BY <1>0, <2>1 DEF IInv, TypeInv, IndexInv, Holding
<1>3. OneCarrier'
  BY <1>0 DEF IInv, OneCarrier, Places, workers
<1>4. StageInv'
  BY <1>0 DEF IInv, StageInv, Untouched, Places, workers, trail
<1> QED BY <1>1, <1>2, <1>3, <1>4 DEF IInv

-----------------------------------------------------------------------------
\* The two ends of a queue.
LEMMA AppendPlaces ==
  ASSUME NEW S, NEW s \in Seq(S), NEW e \in S
  PROVE  /\ Append(s, e) \in Seq(S) /\ Len(Append(s, e)) = Len(s) + 1
         /\ \A i \in 1..(Len(s) + 1) : Append(s, e)[i] = IF i = Len(s) + 1 THEN e ELSE s[i]
OBVIOUS

LEMMA TailPlaces ==
  ASSUME NEW S, NEW s \in Seq(S), s # << >>
  PROVE  /\ Head(s) = s[1] /\ 1 \in 1..Len(s) /\ Head(s) \in S
         /\ Tail(s) \in Seq(S) /\ Len(Tail(s)) = Len(s) - 1
         /\ \A i \in 1..(Len(s) - 1) : i + 1 \in 1..Len(s) /\ Tail(s)[i] = s[i + 1]
OBVIOUS

\* The handler hands its event over to the queue.
LEMMA EnqueueInv ==
  ASSUME IInv, NEW a \in Attempts, Enqueue(a) PROVE IInv'
<1> DEFINE d == of[a]  p == at[a]  n == Len(jobs[p]) + 1
<1>0. /\ pc[a] = "admitted" /\ d \in Deliveries /\ p \in Replicas
      /\ pc' = [pc EXCEPT ![a] = "idle"] /\ of' = [of EXCEPT ![a] = None]
      /\ at' = [at EXCEPT ![a] = None]
      /\ jobs' = [jobs EXCEPT ![p] = Append(jobs[p], d)]
      /\ UNCHANGED <<inserting, admitted, left, outcomes, wpc, on, turns>>
  BY DEF Enqueue, Answer, IInv, TypeInv, Holding, tables, workers, trail
<1>1. /\ jobs[p] \in Seq(Deliveries) /\ jobs' \in [Replicas -> Seq(Deliveries)]
      /\ \A q \in Replicas : q # p => jobs'[q] = jobs[q]
      /\ Len(jobs'[p]) = n /\ n \in Nat
      /\ \A i \in 1..n : jobs'[p][i] = IF i = n THEN d ELSE jobs[p][i]
  BY <1>0, AppendPlaces DEF IInv, TypeInv
<1>2. \A q \in Replicas : \A i \in Places(q)' :
        \/ q = p /\ i = n /\ jobs'[q][i] = d
        \/ i \in Places(q) /\ jobs'[q][i] = jobs[q][i]
  BY <1>0, <1>1 DEF Places
<1>3. /\ \A q \in Replicas : \A i \in Places(q) : jobs[q][i] # d
      /\ \A w \in Workers : on[w] # d
      /\ \A b \in Attempts \ {a} : pc[b] = "admitted" => of[b] # d
      /\ Untouched(d)
  BY <1>0 DEF IInv, OneCarrier, StageInv, Places
<1>4. \A b \in Attempts : pc'[b] # "idle" =>
        b # a /\ pc'[b] = pc[b] /\ of'[b] = of[b] /\ at'[b] = at[b]
  BY <1>0 DEF IInv, TypeInv
<1>5. pc[a] # "inserted"
  BY <1>0
<1> HIDE DEF d, p, n
<1>6. TypeInv'
  BY <1>0, <1>1, <1>4 DEF IInv, TypeInv, Phases, Holding
<1>7. IndexInv'
  BY <1>0, <1>4, <1>5 DEF IInv, TypeInv, IndexInv
<1>8. OneCarrier'
  <2>1. \A q, r \in Replicas : \A i \in Places(q)', j \in Places(r)' :
          jobs'[q][i] = jobs'[r][j] => q = r /\ i = j
    <3> SUFFICES ASSUME NEW q \in Replicas, NEW r \in Replicas, NEW i \in Places(q)', NEW j \in Places(r)',
                        jobs'[q][i] = jobs'[r][j]
                 PROVE  q = r /\ i = j
      OBVIOUS
    <3>1. CASE i \in Places(q) /\ jobs'[q][i] = jobs[q][i] /\ j \in Places(r) /\ jobs'[r][j] = jobs[r][j]
      <4>1. OneCarrier
        BY DEF IInv
      <4>2. \A e, f \in Replicas : \A m \in Places(e), o \in Places(f) :
              jobs[e][m] = jobs[f][o] => e = f /\ m = o
        BY <4>1 DEF OneCarrier
      <4>3. jobs[q][i] = jobs[r][j]
        BY <3>1
      <4> QED BY <3>1, <4>2, <4>3
    <3>2. CASE (q = p /\ i = n /\ jobs'[q][i] = d) \/ (r = p /\ j = n /\ jobs'[r][j] = d)
      BY <1>2, <1>3, <3>2
    <3> QED BY <1>2, <3>1, <3>2
  <2>2. \A b \in Attempts, q \in Replicas : \A i \in Places(q)' :
          pc'[b] = "admitted" => of'[b] # jobs'[q][i]
    BY <1>2, <1>3, <1>4 DEF IInv, OneCarrier, Places
  <2>3. \A w \in Workers, q \in Replicas : \A i \in Places(q)' : on'[w] # jobs'[q][i]
    BY <1>0, <1>2, <1>3 DEF IInv, OneCarrier, Places
  <2> QED BY <1>0, <1>4, <2>1, <2>2, <2>3 DEF IInv, OneCarrier, Places
<1>9. StageInv'
  <2>1. \A q \in Replicas : \A i \in Places(q)' : Untouched(jobs'[q][i])
    BY <1>2, <1>3 DEF IInv, StageInv, Places
  <2> QED BY <1>0, <1>4, <2>1 DEF IInv, StageInv, Untouched, Places
<1> QED BY <1>6, <1>7, <1>8, <1>9 DEF IInv

\* The queue hands its event over to a worker.
LEMMA TakeInv ==
  ASSUME IInv, NEW w \in Workers, Take(w) PROVE IInv'
<1> DEFINE p == On[w]  d == Head(jobs[p])
<1>0. /\ wpc[w] = "idle" /\ p \in Replicas /\ jobs[p] # << >>
      /\ on' = [on EXCEPT ![w] = d] /\ wpc' = [wpc EXCEPT ![w] = "opening"]
      /\ jobs' = [jobs EXCEPT ![p] = Tail(jobs[p])]
      /\ UNCHANGED <<pc, of, at, inserting, admitted, left, outcomes, turns>>
  BY DEF Take, attempts, tables, trail
<1>1. /\ jobs' \in [Replicas -> Seq(Deliveries)] /\ d \in Deliveries
      /\ \A q \in Replicas : q # p => jobs'[q] = jobs[q]
      /\ 1 \in Places(p) /\ jobs[p][1] = d
      /\ Len(jobs'[p]) = Len(jobs[p]) - 1
      /\ \A i \in 1..(Len(jobs[p]) - 1) : i + 1 \in Places(p) /\ jobs'[p][i] = jobs[p][i + 1]
  BY <1>0, TailPlaces DEF IInv, TypeInv, Places
<1>2. \A q \in Replicas : \A i \in Places(q)' :
        \/ q = p /\ i \in Nat /\ i >= 1 /\ i + 1 \in Places(q) /\ jobs'[q][i] = jobs[q][i + 1]
        \/ q # p /\ i \in Places(q) /\ jobs'[q][i] = jobs[q][i]
  BY <1>0, <1>1 DEF Places
<1> HIDE DEF p, d
<1>3. /\ Untouched(d)
      /\ \A q \in Replicas : \A i \in Places(q)' : jobs'[q][i] # d /\ Untouched(jobs'[q][i])
      /\ \A v \in Workers : on[v] # d
      /\ \A a \in Attempts : pc[a] = "admitted" => of[a] # d
  <2>1. \A q \in Replicas : \A i \in Places(q)' : jobs'[q][i] # d /\ Untouched(jobs'[q][i])
    <3> SUFFICES ASSUME NEW q \in Replicas, NEW i \in Places(q)'
                 PROVE  jobs'[q][i] # d /\ Untouched(jobs'[q][i])
      OBVIOUS
    <3>1. PICK k \in Places(q) : jobs'[q][i] = jobs[q][k] /\ (q # p \/ k # 1)
      BY <1>2
    <3>2. jobs[q][k] # d
      BY <1>0, <1>1, <3>1 DEF IInv, OneCarrier
    <3> QED BY <3>1, <3>2 DEF IInv, StageInv
  <2>2. Untouched(d)
    BY <1>0, <1>1 DEF IInv, StageInv
  <2>3. /\ \A v \in Workers : on[v] # d
        /\ \A a \in Attempts : pc[a] = "admitted" => of[a] # d
    BY <1>0, <1>1 DEF IInv, OneCarrier
  <2> QED BY <2>1, <2>2, <2>3
<1>4. TypeInv'
  BY <1>0, <1>1 DEF IInv, TypeInv, Turn
<1>5. IndexInv'
  BY <1>0 DEF IInv, IndexInv
<1>6. OneCarrier'
  <2>1. \A q, r \in Replicas : \A i \in Places(q)', j \in Places(r)' :
          jobs'[q][i] = jobs'[r][j] => q = r /\ i = j
    BY <1>2 DEF IInv, OneCarrier, Places
  <2>2. \A b \in Attempts, q \in Replicas : \A i \in Places(q)' :
          pc'[b] = "admitted" => of'[b] # jobs'[q][i]
    <3>1. \A b \in Attempts, q \in Replicas : \A i \in Places(q) :
            pc'[b] = "admitted" => of'[b] # jobs[q][i]
      BY <1>0 DEF IInv, OneCarrier
    <3> QED BY <1>2, <3>1
  <2>3. \A v \in Workers : on'[v] = IF v = w THEN d ELSE on[v]
    BY <1>0 DEF IInv, TypeInv
  <2>4. \A v \in Workers, q \in Replicas : \A i \in Places(q)' : on'[v] # jobs'[q][i]
    BY <1>2, <1>3, <2>3 DEF IInv, OneCarrier, Places
  <2>5. \A u, v \in Workers : on'[u] = on'[v] /\ on'[u] \in Deliveries => u = v
    BY <1>3, <2>3 DEF IInv, OneCarrier
  <2>6. \A b \in Attempts, v \in Workers : pc'[b] = "admitted" => of'[b] # on'[v]
    BY <1>0, <1>3, <2>3 DEF IInv, OneCarrier
  <2>7. \A a, b \in Attempts :
          pc'[a] = "admitted" /\ pc'[b] = "admitted" /\ of'[a] = of'[b] => a = b
    BY <1>0 DEF IInv, OneCarrier
  <2> QED BY <2>1, <2>2, <2>4, <2>5, <2>6, <2>7 DEF OneCarrier, Places
<1>7. StageInv'
  <2>1. \A e \in Deliveries : turns'[e] = turns[e] /\ outcomes'[e] = outcomes[e] /\ (e \in admitted' <=> e \in admitted)
    BY <1>0
  <2>2. \A e \in Deliveries : Untouched(e) => Untouched(e)'
    BY <2>1 DEF Untouched
  <2>3. /\ \A e \in Deliveries : turns'[e] \in {0, 1} /\ outcomes'[e] \in {0, 1}
        /\ \A e \in Deliveries : e \notin admitted' => turns'[e] = 0 /\ outcomes'[e] = 0
    BY <2>1 DEF IInv, StageInv
  <2>4. \A a \in Attempts : pc'[a] = "admitted" => Untouched(of[a])'
    <3>1. \A a \in Attempts : pc[a] = "admitted" => Untouched(of[a]) /\ of[a] \in Deliveries
      BY DEF IInv, TypeInv, StageInv, Holding
    <3> QED BY <1>0, <3>1 DEF Untouched
  <2>5. \A q \in Replicas : \A i \in Places(q)' : Untouched(jobs[q][i])'
    BY <1>0, <1>3 DEF Untouched
  <2>6. \A v \in Workers :
          /\ on'[v] \in Deliveries => on'[v] \in admitted'
          /\ wpc'[v] \in {"opening", "invoking"} => Untouched(on[v])'
          /\ wpc'[v] \in {"recording", "refusing"} => outcomes'[on'[v]] = 0
    <3> SUFFICES ASSUME NEW v \in Workers
                 PROVE  /\ on'[v] \in Deliveries => on'[v] \in admitted'
                        /\ wpc'[v] \in {"opening", "invoking"} => Untouched(on[v])'
                        /\ wpc'[v] \in {"recording", "refusing"} => outcomes'[on'[v]] = 0
      OBVIOUS
    <3>1. CASE v = w
      BY <1>0, <1>1, <1>3, <2>2, <3>1 DEF IInv, TypeInv, Untouched
    <3>2. CASE v # w
      BY <1>0, <3>2 DEF IInv, TypeInv, StageInv, Untouched
    <3> QED BY <3>1, <3>2
  <2> QED BY <2>3, <2>4, <2>5, <2>6 DEF StageInv
<1> QED BY <1>4, <1>5, <1>6, <1>7 DEF IInv

\* A worker's turn: it keeps its event, of which only the number of turns and
\* of outcomes changes.
LEMMA TurnFrame ==
  ASSUME IInv, NEW w \in Workers, wpc[w] \in Turn, wpc'[w] \in Turn,
         wpc' \in [Workers -> Turn \cup {"idle", "exited"}],
         \A v \in Workers \ {w} : wpc'[v] = wpc[v],
         turns' \in [Deliveries -> Nat], outcomes' \in [Deliveries -> Nat],
         \A e \in Deliveries : e # on[w] => turns'[e] = turns[e] /\ outcomes'[e] = outcomes[e],
         turns'[on[w]] \in {0, 1}, outcomes'[on[w]] \in {0, 1},
         wpc'[w] \in {"opening", "invoking"} => turns'[on[w]] = 0 /\ outcomes'[on[w]] = 0,
         wpc'[w] \in {"recording", "refusing"} => outcomes'[on[w]] = 0,
         UNCHANGED <<attempts, tables, jobs, on>>
  PROVE  IInv'
<1>0. UNCHANGED <<pc, of, at, inserting, admitted, left, jobs, on>>
  BY DEF attempts, tables
<1>1. TypeInv'
  BY <1>0 DEF IInv, TypeInv
<1>2. IndexInv' /\ OneCarrier'
  BY <1>0 DEF IInv, IndexInv, OneCarrier, Places
<1>3. on[w] \in Deliveries /\ on[w] \in admitted
  BY DEF IInv, TypeInv, StageInv
<1>4. /\ \A a \in Attempts : pc[a] = "admitted" => of[a] # on[w] /\ of[a] \in Deliveries
      /\ \A p \in Replicas : \A i \in Places(p) : jobs[p][i] # on[w] /\ jobs[p][i] \in Deliveries
      /\ \A v \in Workers : v # w => on[v] # on[w]
  <2>1. /\ \A a \in Attempts : pc[a] = "admitted" => of[a] # on[w]
        /\ \A p \in Replicas : \A i \in Places(p) : jobs[p][i] # on[w]
        /\ \A v \in Workers : v # w => on[v] # on[w]
    BY <1>3 DEF IInv, OneCarrier
  <2>2. \A a \in Attempts : pc[a] = "admitted" => of[a] \in Deliveries
    BY DEF IInv, TypeInv, Holding
  <2>3. \A p \in Replicas : \A i \in Places(p) : jobs[p][i] \in Deliveries
    BY DEF IInv, TypeInv, Places
  <2> QED BY <2>1, <2>2, <2>3
<1>5. StageInv'
  <2>1. /\ \A a \in Attempts : pc'[a] = "admitted" => Untouched(of[a])'
        /\ \A p \in Replicas : \A i \in Places(p)' : Untouched(jobs[p][i])'
    BY <1>0, <1>4 DEF IInv, StageInv, Untouched, Places
  <2>2. \A v \in Workers :
          /\ on'[v] \in Deliveries => on'[v] \in admitted'
          /\ wpc'[v] \in {"opening", "invoking"} => Untouched(on[v])'
          /\ wpc'[v] \in {"recording", "refusing"} => outcomes'[on'[v]] = 0
    <3> SUFFICES ASSUME NEW v \in Workers
                 PROVE  /\ on'[v] \in Deliveries => on'[v] \in admitted'
                        /\ wpc'[v] \in {"opening", "invoking"} => Untouched(on[v])'
                        /\ wpc'[v] \in {"recording", "refusing"} => outcomes'[on'[v]] = 0
      OBVIOUS
    <3>1. CASE v = w
      BY <1>0, <1>3, <3>1 DEF Untouched
    <3>2. CASE v # w
      BY <1>0, <1>4, <3>2 DEF IInv, TypeInv, StageInv, Untouched, Turn
    <3> QED BY <3>1, <3>2
  <2> QED BY <1>0, <1>3, <2>1, <2>2 DEF IInv, StageInv, Untouched, Places
<1> QED BY <1>1, <1>2, <1>5 DEF IInv

LEMMA TurnInv ==
  ASSUME IInv, NEW w \in Workers,
         OpenFail(w) \/ Opened(w) \/ Invoke(w) \/ Record(w) \/ Close(w)
  PROVE  IInv'
<1>0. wpc[w] \in Turn => on[w] \in Deliveries
  BY DEF IInv, TypeInv
<1>1. CASE OpenFail(w) \/ Opened(w)
  <2>1. /\ wpc[w] = "opening" /\ wpc'[w] \in {"refusing", "invoking"}
        /\ wpc' \in [Workers -> Turn \cup {"idle", "exited"}]
        /\ \A v \in Workers \ {w} : wpc'[v] = wpc[v]
        /\ UNCHANGED <<attempts, tables, jobs, on, outcomes, turns>>
    BY <1>1 DEF OpenFail, Opened, IInv, TypeInv, Turn, queue, trail
  <2>2. turns'[on[w]] = 0 /\ outcomes'[on[w]] = 0
    BY <2>1 DEF IInv, StageInv, Untouched
  <2>3. turns' \in [Deliveries -> Nat] /\ outcomes' \in [Deliveries -> Nat]
    BY <2>1 DEF IInv, TypeInv
  <2> QED BY <2>1, <2>2, <2>3, TurnFrame DEF Turn
<1>2. CASE Invoke(w)
  <2>1. /\ wpc[w] = "invoking" /\ wpc' = [wpc EXCEPT ![w] = "recording"] /\ on[w] \in Deliveries
        /\ turns' = [turns EXCEPT ![on[w]] = @ + 1]
        /\ UNCHANGED <<attempts, tables, jobs, on, outcomes>>
    BY <1>0, <1>2 DEF Invoke, Turn, queue
  <2>2. turns[on[w]] = 0 /\ outcomes[on[w]] = 0
    BY <2>1 DEF IInv, StageInv, Untouched
  <2>3. /\ turns' \in [Deliveries -> Nat] /\ outcomes' \in [Deliveries -> Nat]
        /\ turns'[on[w]] = 1 /\ outcomes'[on[w]] = 0
        /\ \A e \in Deliveries : e # on[w] => turns'[e] = turns[e] /\ outcomes'[e] = outcomes[e]
    BY <2>1, <2>2 DEF IInv, TypeInv
  <2>4. /\ wpc' \in [Workers -> Turn \cup {"idle", "exited"}] /\ wpc'[w] = "recording"
        /\ \A v \in Workers \ {w} : wpc'[v] = wpc[v]
    BY <2>1 DEF IInv, TypeInv, Turn
  <2> QED BY <2>1, <2>3, <2>4, TurnFrame DEF Turn
<1>3. CASE Record(w)
  <2>1. /\ wpc[w] \in {"recording", "refusing"} /\ wpc'[w] \in {"closing", "returning"}
        /\ wpc' \in [Workers -> Turn \cup {"idle", "exited"}]
        /\ \A v \in Workers \ {w} : wpc'[v] = wpc[v]
        /\ outcomes' \in {outcomes, [outcomes EXCEPT ![on[w]] = @ + 1]}
        /\ UNCHANGED <<attempts, tables, jobs, on, turns>>
    BY <1>3 DEF Record, IInv, TypeInv, Turn, queue
  <2>2. on[w] \in Deliveries /\ outcomes[on[w]] = 0 /\ turns[on[w]] \in {0, 1}
    BY <1>0, <2>1 DEF IInv, StageInv, Turn
  <2>3. /\ turns' \in [Deliveries -> Nat] /\ outcomes' \in [Deliveries -> Nat]
        /\ turns'[on[w]] \in {0, 1} /\ outcomes'[on[w]] \in {0, 1}
        /\ \A e \in Deliveries : e # on[w] => turns'[e] = turns[e] /\ outcomes'[e] = outcomes[e]
    <3>1. CASE outcomes' = outcomes
      BY <2>1, <2>2, <3>1 DEF IInv, TypeInv
    <3>2. CASE outcomes' = [outcomes EXCEPT ![on[w]] = @ + 1]
      BY <2>1, <2>2, <3>2 DEF IInv, TypeInv
    <3> QED BY <2>1, <3>1, <3>2
  <2> QED BY <2>1, <2>3, TurnFrame DEF Turn
<1>4. CASE Close(w)
  <2>1. /\ wpc[w] = "closing" /\ wpc' = [wpc EXCEPT ![w] = "returning"] /\ on[w] \in Deliveries
        /\ UNCHANGED <<attempts, tables, jobs, on, outcomes, turns>>
    BY <1>0, <1>4 DEF Close, Turn, queue
  <2>2. turns'[on[w]] \in {0, 1} /\ outcomes'[on[w]] \in {0, 1}
    BY <2>1 DEF IInv, StageInv
  <2>3. turns' \in [Deliveries -> Nat] /\ outcomes' \in [Deliveries -> Nat]
    BY <2>1 DEF IInv, TypeInv
  <2>4. /\ wpc' \in [Workers -> Turn \cup {"idle", "exited"}] /\ wpc'[w] = "returning"
        /\ \A v \in Workers \ {w} : wpc'[v] = wpc[v]
    BY <2>1 DEF IInv, TypeInv, Turn
  <2> QED BY <2>1, <2>2, <2>3, <2>4, TurnFrame DEF Turn
<1> QED BY <1>1, <1>2, <1>3, <1>4

\* A worker that gives its slot back carries nothing.
LEMMA GiveBackInv ==
  ASSUME IInv, NEW w \in Workers, GiveBack(w) PROVE IInv'
<1>0. /\ wpc[w] = "returning" /\ wpc' = [wpc EXCEPT ![w] = "idle"] /\ on' = [on EXCEPT ![w] = None]
      /\ UNCHANGED <<pc, of, at, inserting, admitted, left, jobs, outcomes, turns>>
  BY DEF GiveBack, Release, attempts, tables, trail
<1>1. \A v \in Workers : on'[v] = IF v = w THEN None ELSE on[v]
  BY <1>0 DEF IInv, TypeInv
<1>2. TypeInv'
  BY <1>0 DEF IInv, TypeInv, Turn
<1>3. IndexInv'
  BY <1>0 DEF IInv, IndexInv
<1>4. OneCarrier'
  BY <1>0, <1>1 DEF IInv, TypeInv, OneCarrier, Places, Holding
<1>5. StageInv'
  BY <1>0, <1>1 DEF IInv, TypeInv, StageInv, Untouched, Places
<1> QED BY <1>2, <1>3, <1>4, <1>5 DEF IInv

LEMMA WorkerReturnInv ==
  ASSUME IInv, NEW w \in Workers, WorkerReturn(w) PROVE IInv'
<1>0. /\ wpc[w] = "idle" /\ wpc' = [wpc EXCEPT ![w] = "exited"]
      /\ UNCHANGED <<pc, of, at, inserting, admitted, left, jobs, outcomes, turns, on>>
  BY DEF WorkerReturn, attempts, tables, queue, trail
<1> QED
  BY <1>0 DEF IInv, TypeInv, IndexInv, OneCarrier, StageInv, Untouched, Places, Turn

\* The death of a replica takes carriers away and adds none.
LEMMA CrashInv ==
  ASSUME IInv, NEW p \in Replicas, Crash(p) PROVE IInv'
<1> DEFINE here == {a \in Attempts : at[a] = p}  gone == {w \in Workers : On[w] = p}
<1>0. /\ pc' = [a \in Attempts |-> IF a \in here THEN "idle" ELSE pc[a]]
      /\ of' = [a \in Attempts |-> IF a \in here THEN None ELSE of[a]]
      /\ at' = [a \in Attempts |-> IF a \in here THEN None ELSE at[a]]
      /\ inserting' = [d \in Deliveries |-> IF inserting[d] \in here THEN None ELSE inserting[d]]
      /\ jobs' = [jobs EXCEPT ![p] = << >>]
      /\ wpc' = [w \in Workers |-> IF w \in gone THEN "idle" ELSE wpc[w]]
      /\ on' = [w \in Workers |-> IF w \in gone THEN None ELSE on[w]]
      /\ UNCHANGED <<admitted, left, outcomes, turns>>
  BY DEF Crash
<1>1. \A q \in Replicas : \A i \in Places(q)' : q # p /\ i \in Places(q) /\ jobs'[q] = jobs[q]
  BY <1>0 DEF IInv, TypeInv, Places
<1>2. TypeInv'
  BY <1>0 DEF IInv, TypeInv, Phases, Turn, Holding
<1>3. IndexInv'
  BY <1>0 DEF IInv, TypeInv, IndexInv, Holding
<1>4. OneCarrier'
  BY <1>0, <1>1 DEF IInv, TypeInv, OneCarrier, Places, Holding
<1>5. StageInv'
  BY <1>0, <1>1 DEF IInv, TypeInv, StageInv, Untouched, Places
<1> QED BY <1>2, <1>3, <1>4, <1>5 DEF IInv

\* What is left changes nothing that an event's way depends on, but for the
\* uses an approval grants.
LEMMA QuietInv ==
  ASSUME IInv, left' \in 0..MaxLeft,
         UNCHANGED <<pc, of, at, inserting, admitted, jobs, wpc, on, outcomes, turns>>
  PROVE  IInv'
BY DEF IInv, TypeInv, IndexInv, OneCarrier, StageInv, Untouched, Places

LEMMA NextInv == IInv /\ [Next]_vars => IInv'
<1> SUFFICES ASSUME IInv, [Next]_vars PROVE IInv'
  OBVIOUS
<1>0. left \in 0..MaxLeft
  BY DEF IInv, TypeInv
<1>1. ASSUME NEW a \in Attempts,
             Handle(a) \/ \E d \in Deliveries, p \in Replicas : Arrive(a, d, p)
      PROVE  IInv'
  BY <1>1, DoorInv, InsertInv, CommitInv, RollbackInv, EnqueueInv DEF Handle
<1>2. ASSUME NEW w \in Workers, WorkerStep(w) PROVE IInv'
  <2>1. CASE OpenRun(w)
    BY <1>0, <2>1, QuietInv DEF OpenRun, attempts, tables, queue, workers
  <2> QED BY <1>2, <2>1, TakeInv, TurnInv, GiveBackInv, WorkerReturnInv DEF WorkerStep
<1>3. CASE AdminDecide
  BY <1>0, <1>3, QuietInv DEF AdminDecide, Decide, attempts, queue, workers, trail
<1>4. ASSUME NEW r \in runs, Expire(r) PROVE IInv'
  BY <1>0, <1>4, QuietInv DEF Expire, attempts, tables, queue, workers
<1>5. ASSUME NEW p \in Replicas, Stop(p) PROVE IInv'
  BY <1>0, <1>5, QuietInv DEF Stop, attempts, tables, queue, workers, trail
<1>6. CASE UNCHANGED vars
  BY <1>0, <1>6, QuietInv DEF vars, attempts, tables, queue, workers, trail
<1> QED
  BY <1>1, <1>2, <1>3, <1>4, <1>5, <1>6, CrashInv DEF Next

LEMMA Inductive == Spec => []IInv
BY InitInv, NextInv, PTL DEF Spec

-----------------------------------------------------------------------------
\* A step moves the stages of the events whose rows it changes.
LEMMA StageMoves ==
  ASSUME NEW d \in Deliveries, NEW x,
         \A e \in Deliveries \ {d} : /\ (e \in admitted') <=> (e \in admitted)
                                     /\ outcomes'[e] = outcomes[e] /\ turns'[e] = turns[e],
         stage'[d] = x
  PROVE  stage' = [stage EXCEPT ![d] = x]
<1>1. \A e \in Deliveries : e # d => stage'[e] = stage[e]
  BY DEF stage
<1>2. /\ stage = [e \in Deliveries |-> stage[e]]
      /\ stage' = [e \in Deliveries |-> stage'[e]]
  BY DEF stage
<1> HIDE DEF stage
<1>3. DOMAIN stage = Deliveries /\ DOMAIN stage' = Deliveries
  BY <1>2
<1>4. stage' = [e \in Deliveries |-> IF e = d THEN x ELSE stage[e]]
  BY <1>1, <1>2
<1> QED BY <1>3, <1>4

LEMMA StageStays ==
  ASSUME UNCHANGED <<admitted, outcomes, turns>> PROVE UNCHANGED stage
BY DEF stage

LEMMA StepImplements == IInv /\ IInv' /\ [Next]_vars => [Promise!Next]_<<stage, left>>
<1> SUFFICES ASSUME IInv, IInv', [Next]_vars PROVE [Promise!Next]_<<stage, left>>
  OBVIOUS
<1>1. ASSUME NEW a \in Attempts, CommitAdmission(a) PROVE Promise!Admit(of[a])
  <2> DEFINE d == of[a]
  <2>1. /\ pc[a] = "inserted" /\ left > 0 /\ left' = left - 1
        /\ admitted' = admitted \cup {d} /\ UNCHANGED <<outcomes, turns>>
    BY <1>1 DEF CommitAdmission, trail
  <2>2. d \in Deliveries /\ d \notin admitted /\ turns[d] = 0 /\ outcomes[d] = 0
    BY <2>1, FirstOfItsEvent
  <2> HIDE DEF d
  <2>3. stage[d] = "new" /\ stage'[d] = "admitted"
    BY <2>1, <2>2 DEF stage
  <2>4. stage' = [stage EXCEPT ![d] = "admitted"]
    BY <2>1, <2>2, <2>3, StageMoves
  <2> QED BY <2>1, <2>3, <2>4 DEF Promise!Admit, Promise!Advance, d
<1>2. ASSUME NEW w \in Workers, Invoke(w)
      PROVE  on[w] \in Deliveries /\ Promise!Invoke(on[w])
  <2> DEFINE d == on[w]
  <2>1. /\ wpc[w] = "invoking" /\ turns' = [turns EXCEPT ![d] = @ + 1]
        /\ UNCHANGED <<admitted, left, outcomes>>
    BY <1>2 DEF Invoke, tables
  <2>2. d \in Deliveries /\ Untouched(d)
    BY <2>1 DEF IInv, TypeInv, StageInv, Turn
  <2> HIDE DEF d
  <2>3. turns'[d] = 1 /\ \A e \in Deliveries \ {d} : turns'[e] = turns[e]
    BY <2>1, <2>2 DEF IInv, TypeInv, Untouched
  <2>4. stage[d] = "admitted" /\ stage'[d] = "invoked"
    BY <2>1, <2>2, <2>3 DEF stage, Untouched
  <2>5. stage' = [stage EXCEPT ![d] = "invoked"]
    BY <2>1, <2>2, <2>3, <2>4, StageMoves
  <2> QED BY <2>1, <2>2, <2>4, <2>5 DEF Promise!Invoke, Promise!Advance, d
<1>3. ASSUME NEW w \in Workers, Record(w)
      PROVE  UNCHANGED <<stage, left>> \/ (on[w] \in Deliveries /\ Promise!Report(on[w]))
  <2> DEFINE d == on[w]
  <2>1. /\ wpc[w] \in {"recording", "refusing"}
        /\ outcomes' \in {outcomes, [outcomes EXCEPT ![d] = @ + 1]}
        /\ UNCHANGED <<admitted, left, turns>>
    BY <1>3 DEF Record, tables
  <2>2. d \in Deliveries /\ d \in admitted /\ outcomes[d] = 0 /\ turns[d] \in {0, 1}
    BY <2>1 DEF IInv, TypeInv, StageInv, Turn
  <2>3. CASE outcomes' = outcomes
    BY <2>1, <2>3, StageStays
  <2>4. CASE outcomes' = [outcomes EXCEPT ![d] = @ + 1]
    <3> HIDE DEF d
    <3>1. outcomes'[d] = 1 /\ \A e \in Deliveries \ {d} : outcomes'[e] = outcomes[e]
      BY <2>2, <2>4 DEF IInv, TypeInv
    <3>2. stage[d] \in {"admitted", "invoked"} /\ stage'[d] = "reported"
      BY <2>1, <2>2, <3>1 DEF stage
    <3>3. stage' = [stage EXCEPT ![d] = "reported"]
      BY <2>1, <2>2, <3>1, <3>2, StageMoves
    <3> QED BY <2>1, <2>2, <3>2, <3>3 DEF Promise!Report, Promise!Advance, d
  <2> QED BY <2>1, <2>3, <2>4
<1>4. ASSUME Decide, UNCHANGED <<outcomes, turns>> PROVE Promise!Grant \/ UNCHANGED <<stage, left>>
  <2>1. left' \in Nat /\ (left' > left \/ left' = left) /\ UNCHANGED stage
    BY <1>4, StageStays DEF Decide, IInv, TypeInv
  <2> QED BY <2>1 DEF Promise!Grant
<1>5. ASSUME UNCHANGED <<admitted, left, outcomes, turns>> PROVE UNCHANGED <<stage, left>>
  BY <1>5, StageStays
<1>6. ASSUME NEW a \in Attempts,
             Handle(a) \/ \E d \in Deliveries, p \in Replicas : Arrive(a, d, p)
      PROVE  [Promise!Next]_<<stage, left>>
  <2>1. CASE Admit(a) \/ AdmitReplyLost(a)
    <3>1. of[a] \in Deliveries /\ CommitAdmission(a)
      BY <2>1 DEF Admit, AdmitReplyLost, CommitAdmission, IInv, TypeInv, Holding
    <3> QED BY <1>1, <3>1 DEF Promise!Next
  <2>2. CASE HandleCommand(a)
    BY <1>4, <1>5, <2>2 DEF HandleCommand, tables, trail, Promise!Next
  <2>3. CASE UNCHANGED <<admitted, left, outcomes, turns>>
    BY <1>5, <2>3
  <2> QED
    BY <1>6, <2>1, <2>2, <2>3
    DEF Handle, Arrive, TurnAway, TakeSlot, Insert, Replay, AdmitRollback, FileRequest, Enqueue,
        Audit, tables, trail
<1>7. ASSUME NEW w \in Workers, WorkerStep(w) PROVE [Promise!Next]_<<stage, left>>
  <2>1. CASE Invoke(w)
    BY <1>2, <2>1 DEF Promise!Next
  <2>2. CASE Record(w)
    BY <1>3, <2>2 DEF Promise!Next
  <2>3. CASE UNCHANGED <<admitted, left, outcomes, turns>>
    BY <1>5, <2>3
  <2> QED
    BY <1>7, <2>1, <2>2, <2>3
    DEF WorkerStep, Take, OpenRun, OpenFail, Opened, Close, GiveBack, WorkerReturn, tables, trail
<1>8. CASE AdminDecide
  BY <1>4, <1>8 DEF AdminDecide, trail, Promise!Next
<1>9. CASE \/ \E r \in runs : Expire(r)
           \/ \E p \in Replicas : Stop(p) \/ Crash(p)
           \/ UNCHANGED vars
  BY <1>5, <1>9 DEF Expire, Stop, Crash, vars, tables, trail
<1> QED BY <1>6, <1>7, <1>8, <1>9 DEF Next

\* Whatever is sent again, fails, stops or dies, an event takes one use, reaches
\* its agent once and is reported once at most: Bridge and AdmitInboundEvent
\* implement Delivery.
THEOREM Implements == Spec => ImplementsDelivery
<1>1. Init => Promise!Init
  BY DEF Init, Promise!Init, stage
<1> QED
  BY <1>1, Inductive, StepImplements, PTL DEF Spec, ImplementsDelivery, Promise!Spec

-----------------------------------------------------------------------------
\* The runs of an event are its one worker's, or stray; all of them are open
\* while the agent runs, and none is left to the worker once it has closed them.
RunInv ==
  /\ runs \subseteq Deliveries \X ToSet(Creds)
  /\ RunsClosed /\ TurnAttributed
  /\ \A w \in Workers : wpc[w] \in {"refusing", "returning"} => RunsOf(on[w]) \subseteq stray

\* One worker's step on its own runs leaves everyone else's alone.
LEMMA OthersRuns ==
  ASSUME IInv, RunInv, NEW w \in Workers, on[w] \in Deliveries,
         runs' \subseteq Deliveries \X ToSet(Creds), UNCHANGED on,
         \A v \in Workers \ {w} : wpc'[v] = wpc[v],
         \A r \in Deliveries \X ToSet(Creds) :
           r[1] # on[w] => (r \in runs' <=> r \in runs) /\ (r \in stray => r \in stray'),
         wpc'[w] = "invoking" => Wanted(on[w]) \subseteq runs',
         wpc'[w] \in {"refusing", "returning"} => RunsOf(on[w])' \subseteq stray'
  PROVE  RunInv'
<1>1. \A v \in Workers : v # w => on[v] # on[w]
  BY DEF IInv, OneCarrier
<1>2. RunsClosed'
  BY DEF RunInv, RunsClosed
<1>3. TurnAttributed'
  <2> SUFFICES ASSUME NEW v \in Workers, wpc'[v] = "invoking"
               PROVE  Wanted(on[v]) \subseteq runs'
    BY DEF TurnAttributed, Wanted
  <2>1. CASE v = w
    BY <2>1
  <2>2. CASE v # w
    <3>1. Wanted(on[v]) \subseteq runs /\ on[v] # on[w] /\ on[v] \in Deliveries
      BY <1>1, <2>2 DEF RunInv, TurnAttributed, IInv, TypeInv, Turn
    <3> QED BY <3>1 DEF Wanted
  <2> QED BY <2>1, <2>2
<1>4. \A v \in Workers : wpc'[v] \in {"refusing", "returning"} => RunsOf(on[v])' \subseteq stray'
  <2> SUFFICES ASSUME NEW v \in Workers, wpc'[v] \in {"refusing", "returning"}
               PROVE  RunsOf(on[v])' \subseteq stray'
    OBVIOUS
  <2>1. CASE v # w
    BY <1>1, <2>1 DEF RunInv, RunsOf
  <2> QED BY <2>1
<1> QED BY <1>2, <1>3, <1>4 DEF RunInv

LEMMA RunStep ==
  ASSUME IInv, RunInv, NEW w \in Workers, WorkerStep(w) PROVE RunInv'
<1>1. ASSUME wpc[w] \in Turn PROVE on[w] \in Deliveries
  BY <1>1 DEF IInv, TypeInv
<1>2. CASE Take(w)
  <2>1. /\ wpc[w] = "idle" /\ wpc' = [wpc EXCEPT ![w] = "opening"] /\ UNCHANGED <<runs, stray>>
        /\ \A v \in Workers \ {w} : on'[v] = on[v]
    BY <1>2 DEF Take, trail, IInv, TypeInv
  <2>2. on[w] \notin Deliveries /\ \A v \in Workers \ {w} : wpc'[v] = wpc[v]
    BY <2>1 DEF IInv, TypeInv, Turn
  <2>3. wpc'[w] = "opening"
    BY <2>1 DEF IInv, TypeInv
  <2> QED BY <2>1, <2>2, <2>3 DEF RunInv, RunsClosed, TurnAttributed, RunsOf, Wanted
<1>3. CASE OpenRun(w)
  <2>1. wpc[w] = "opening" /\ UNCHANGED <<wpc, on, stray>> /\ on[w] \in Deliveries
    BY <1>1, <1>3 DEF OpenRun, workers, Turn
  <2>2. PICK r \in Wanted(on[w]) : runs' = runs \cup {r}
    BY <1>3 DEF OpenRun
  <2>3. r \in Deliveries \X ToSet(Creds) /\ r[1] = on[w]
    BY <2>1, <2>2 DEF Wanted
  <2> QED BY <2>1, <2>2, <2>3, OthersRuns DEF RunInv
<1>4. CASE OpenFail(w)
  <2>1. wpc[w] = "opening" /\ UNCHANGED on /\ on[w] \in Deliveries
        /\ wpc' = [wpc EXCEPT ![w] = "refusing"]
    BY <1>1, <1>4 DEF OpenFail, Turn
  <2>2. PICK keep \in SUBSET (Wanted(on[w]) \cup RunsOf(on[w])) :
          /\ runs' = (runs \ RunsOf(on[w])) \cup keep
          /\ stray' = stray \cup keep
    <3>1. PICK r \in Wanted(on[w]), open \in SUBSET RunsOf(on[w]) :
            \E lost \in {{}, {r}} : /\ runs' = (runs \ RunsOf(on[w])) \cup open \cup lost
                                    /\ stray' = stray \cup open \cup lost
      BY <1>4 DEF OpenFail
    <3>2. PICK lost \in {{}, {r}} : /\ runs' = (runs \ RunsOf(on[w])) \cup (open \cup lost)
                                   /\ stray' = stray \cup (open \cup lost)
      BY <3>1
    <3>3. open \cup lost \in SUBSET (Wanted(on[w]) \cup RunsOf(on[w]))
      OBVIOUS
    <3> QED BY <3>2, <3>3
  <2>3. \A r \in keep : r \in Deliveries \X ToSet(Creds) /\ r[1] = on[w]
    BY <2>1, <2>2 DEF Wanted, RunsOf, RunInv
  <2>4. RunsOf(on[w])' \subseteq stray'
    BY <2>1, <2>2 DEF RunsOf
  <2>5. runs' \subseteq Deliveries \X ToSet(Creds)
    BY <2>2, <2>3 DEF RunInv
  <2>6. \A r \in Deliveries \X ToSet(Creds) :
          r[1] # on[w] => (r \in runs' <=> r \in runs) /\ (r \in stray => r \in stray')
    BY <2>2, <2>3 DEF RunsOf
  <2> QED BY <2>1, <2>4, <2>5, <2>6, OthersRuns DEF IInv, TypeInv
<1>5. CASE Opened(w) \/ Invoke(w) \/ Record(w)
  <2>1. /\ wpc[w] \in Turn /\ UNCHANGED <<on, runs, stray>>
        /\ wpc' \in [Workers -> Turn \cup {"idle", "exited"}]
        /\ \A v \in Workers \ {w} : wpc'[v] = wpc[v]
        /\ wpc'[w] = "invoking" => Wanted(on[w]) \subseteq runs
        /\ wpc'[w] \in {"refusing", "returning"} => wpc[w] = "refusing"
    <3> USE DEF IInv, TypeInv, Turn
    <3>1. CASE Opened(w)
      BY <3>1 DEF Opened, trail
    <3>2. CASE Invoke(w)
      BY <3>2 DEF Invoke, trail
    <3>3. CASE Record(w)
      BY <3>3 DEF Record, trail
    <3> QED BY <1>5, <3>1, <3>2, <3>3
  <2>2. wpc'[w] \in {"refusing", "returning"} => RunsOf(on[w])' \subseteq stray'
    <3>1. RunsOf(on[w])' = RunsOf(on[w])
      BY <2>1 DEF RunsOf
    <3>2. wpc[w] = "refusing" => RunsOf(on[w]) \subseteq stray
      BY DEF RunInv
    <3> QED BY <2>1, <3>1, <3>2
  <2>3. /\ runs' \subseteq Deliveries \X ToSet(Creds)
        /\ \A r \in Deliveries \X ToSet(Creds) : (r \in runs' <=> r \in runs) /\ (r \in stray => r \in stray')
        /\ wpc'[w] = "invoking" => Wanted(on[w]) \subseteq runs'
    BY <2>1 DEF RunInv
  <2>4. IInv /\ RunInv /\ on[w] \in Deliveries /\ on' = on
    BY <1>1, <2>1
  <2> QED BY <2>1, <2>2, <2>3, <2>4, OthersRuns
<1>6. CASE Close(w)
  <2>1. wpc[w] = "closing" /\ UNCHANGED on /\ on[w] \in Deliveries
        /\ wpc' = [wpc EXCEPT ![w] = "returning"]
    BY <1>1, <1>6 DEF Close, Turn
  <2>2. PICK open \in SUBSET RunsOf(on[w]) :
          runs' = (runs \ RunsOf(on[w])) \cup open /\ stray' = stray \cup open
    BY <1>6 DEF Close
  <2>3. RunsOf(on[w])' \subseteq stray'
    BY <2>1, <2>2 DEF RunsOf
  <2>4. runs' \subseteq Deliveries \X ToSet(Creds)
    BY <2>2 DEF RunInv, RunsOf
  <2>5. \A r \in Deliveries \X ToSet(Creds) :
          r[1] # on[w] => (r \in runs' <=> r \in runs) /\ (r \in stray => r \in stray')
    BY <2>2 DEF RunsOf
  <2> QED BY <2>1, <2>3, <2>4, <2>5, OthersRuns DEF IInv, TypeInv
<1>7. CASE GiveBack(w)
  <2>1. /\ wpc[w] = "returning" /\ UNCHANGED <<runs, stray>>
        /\ \A v \in Workers \ {w} : on'[v] = on[v] /\ wpc'[v] = wpc[v]
        /\ wpc'[w] = "idle" /\ RunsOf(on[w]) \subseteq stray
    BY <1>7 DEF GiveBack, trail, IInv, TypeInv, RunInv
  <2> QED BY <2>1 DEF RunInv, RunsClosed, TurnAttributed, RunsOf, Wanted
<1>8. CASE WorkerReturn(w)
  <2>1. UNCHANGED <<on, runs, stray>> /\ wpc'[w] = "exited"
        /\ \A v \in Workers \ {w} : wpc'[v] = wpc[v]
    BY <1>8 DEF WorkerReturn, trail, IInv, TypeInv
  <2> QED BY <2>1 DEF RunInv, RunsClosed, TurnAttributed, RunsOf, Wanted
<1> QED
  BY <1>2, <1>3, <1>4, <1>5, <1>6, <1>7, <1>8 DEF WorkerStep

\* The death of a replica makes strays of its workers' runs.
LEMMA RunsOutliveCrash ==
  ASSUME IInv, RunInv, NEW p \in Replicas, Crash(p) PROVE RunInv'
<1> DEFINE gone == {w \in Workers : On[w] = p}
<1>0. /\ wpc' = [w \in Workers |-> IF w \in gone THEN "idle" ELSE wpc[w]]
      /\ on' = [w \in Workers |-> IF w \in gone THEN None ELSE on[w]]
      /\ stray' = stray \cup {r \in runs : \E w \in gone : on[w] = r[1]}
      /\ UNCHANGED runs
  BY DEF Crash
<1>1. RunsClosed'
  BY <1>0 DEF RunInv, RunsClosed
<1> QED
  BY <1>0, <1>1 DEF RunInv, TurnAttributed, RunsOf, Wanted

LEMMA RunNext == IInv /\ RunInv /\ [Next]_vars => RunInv'
<1> SUFFICES ASSUME IInv, RunInv, [Next]_vars PROVE RunInv'
  OBVIOUS
<1>1. ASSUME UNCHANGED <<runs, stray, wpc, on>> PROVE RunInv'
  BY <1>1 DEF RunInv, RunsClosed, TurnAttributed, RunsOf, Wanted
<1>2. ASSUME NEW a \in Attempts,
             Handle(a) \/ \E d \in Deliveries, p \in Replicas : Arrive(a, d, p)
      PROVE  RunInv'
  BY <1>1, <1>2
  DEF Handle, Arrive, TurnAway, HandleCommand, TakeSlot, Insert, Replay, Admit, AdmitReplyLost,
      CommitAdmission, AdmitRollback, FileRequest, Enqueue, Audit, workers, trail
<1>3. ASSUME NEW r \in runs, Expire(r) PROVE RunInv'
  <2>1. /\ \A w \in Workers : on[w] # r[1]
        /\ runs' = runs \ {r} /\ stray' = stray \ {r} /\ UNCHANGED <<wpc, on>>
    BY <1>3 DEF Expire, workers
  <2>2. \A w \in Workers : r \notin Wanted(on[w])
    BY <2>1 DEF Wanted
  <2> QED BY <2>1, <2>2 DEF RunInv, RunsClosed, TurnAttributed, RunsOf
<1>4. CASE AdminDecide \/ (\E p \in Replicas : Stop(p)) \/ UNCHANGED vars
  BY <1>1, <1>4 DEF AdminDecide, Stop, vars, workers, trail
<1> QED
  BY <1>2, <1>3, <1>4, RunStep, RunsOutliveCrash DEF Next

LEMMA RunsInductive == Spec => []RunInv
<1>1. Init => RunInv
  BY DEF Init, RunInv, RunsClosed, TurnAttributed
<1> QED BY <1>1, Inductive, RunNext, PTL DEF Spec

\* The agent is only called with a run open for each of its credentials:
\* openRuns is all or nothing, and a run outlives any turn.
THEOREM Attributed == Spec => []TurnAttributed
<1>1. RunInv => TurnAttributed BY DEF RunInv
<1> QED BY <1>1, RunsInductive, PTL

\* Every way out of process closes what openRuns opened, as far as the store
\* lets it: other runs only wait for their expiry.
THEOREM Closed == Spec => []RunsClosed
<1>1. RunInv => RunsClosed BY DEF RunInv
<1> QED BY <1>1, RunsInductive, PTL

-----------------------------------------------------------------------------
(* Slots: who has one, and that nobody else's step moves it. *)

HasSlot(a, p) == at[a] = p /\ pc[a] \in Holding
AtWork(w, p) == On[w] = p /\ wpc[w] \in Turn

Held(p) == {a \in Attempts : HasSlot(a, p)}
Busy(p) == {w \in Workers : AtWork(w, p)}

\* A slot is an event being admitted, queued or run, and there are no others.
SlotInv ==
  /\ slots \in [Replicas -> 0..QueueSize]
  /\ \A p \in Replicas : slots[p] = Cardinality(Held(p)) + Len(jobs[p]) + Cardinality(Busy(p))

\* A finite set, one element of which may change sides.
LEMMA OneMoves ==
  ASSUME NEW S, IsFiniteSet(S), NEW T, NEW x, S \ {x} = T \ {x}
  PROVE  /\ IsFiniteSet(T) /\ Cardinality(S) \in Nat /\ Cardinality(T) \in Nat
         /\ (x \in S <=> x \in T) => Cardinality(T) = Cardinality(S)
         /\ x \in S /\ x \notin T => Cardinality(T) = Cardinality(S) - 1
         /\ x \notin S /\ x \in T => Cardinality(T) = Cardinality(S) + 1
<1>1. Cardinality(S) \in Nat
  BY FS_CardinalityType
<1>2. CASE x \in S <=> x \in T
  <2>1. \A y : y \in S \ {x} <=> y \in T \ {x} OBVIOUS
  <2>2. \A y : y \in S <=> y \in T BY <1>2, <2>1
  <2>3. S = T BY <2>2
  <2> QED BY <1>1, <1>2, <2>3
<1>3. CASE x \in S /\ x \notin T
  <2>1. T = S \ {x} BY <1>3
  <2>2. IsFiniteSet(T) /\ Cardinality(T) = Cardinality(S) - 1 BY <1>3, <2>1, FS_RemoveElement
  <2>3. Cardinality(T) \in Nat BY <2>2, FS_CardinalityType
  <2> QED BY <1>1, <1>3, <2>2, <2>3
<1>4. CASE x \notin S /\ x \in T
  <2>1. T = S \cup {x} BY <1>4
  <2>2. IsFiniteSet(T) /\ Cardinality(T) = Cardinality(S) + 1 BY <1>4, <2>1, FS_AddElement
  <2> QED BY <1>1, <1>4, <2>2
<1> QED BY <1>2, <1>3, <1>4

LEMMA HeldMoves ==
  ASSUME NEW a \in Attempts, NEW p \in Replicas,
         \A b \in Attempts \ {a} : pc'[b] = pc[b] /\ at'[b] = at[b]
  PROVE  /\ Cardinality(Held(p)) \in Nat /\ Cardinality(Held(p)') \in Nat
         /\ (HasSlot(a, p) <=> HasSlot(a, p)') => Cardinality(Held(p)') = Cardinality(Held(p))
         /\ HasSlot(a, p) /\ ~HasSlot(a, p)' => Cardinality(Held(p)') = Cardinality(Held(p)) - 1
         /\ ~HasSlot(a, p) /\ HasSlot(a, p)' => Cardinality(Held(p)') = Cardinality(Held(p)) + 1
<1>1. IsFiniteSet(Held(p))
  BY FS_Subset DEF Held
<1>2. Held(p) \ {a} = Held(p)' \ {a}
  BY DEF Held, HasSlot
<1>3. (a \in Held(p) <=> HasSlot(a, p)) /\ (a \in Held(p)' <=> HasSlot(a, p)')
  BY DEF Held
<1> HIDE DEF Held, HasSlot
<1> QED BY <1>1, <1>2, <1>3, OneMoves

LEMMA BusyMoves ==
  ASSUME NEW w \in Workers, NEW p \in Replicas, \A v \in Workers \ {w} : wpc'[v] = wpc[v]
  PROVE  /\ Cardinality(Busy(p)) \in Nat /\ Cardinality(Busy(p)') \in Nat
         /\ (AtWork(w, p) <=> AtWork(w, p)') => Cardinality(Busy(p)') = Cardinality(Busy(p))
         /\ AtWork(w, p) /\ ~AtWork(w, p)' => Cardinality(Busy(p)') = Cardinality(Busy(p)) - 1
         /\ ~AtWork(w, p) /\ AtWork(w, p)' => Cardinality(Busy(p)') = Cardinality(Busy(p)) + 1
<1>1. IsFiniteSet(Busy(p))
  BY FS_Subset DEF Busy
<1>2. Busy(p) \ {w} = Busy(p)' \ {w}
  BY DEF Busy, AtWork
<1>3. (w \in Busy(p) <=> AtWork(w, p)) /\ (w \in Busy(p)' <=> AtWork(w, p)')
  BY DEF Busy
<1> HIDE DEF Busy, AtWork
<1> QED BY <1>1, <1>2, <1>3, OneMoves

\* A handler's step: it keeps what it had, takes a slot, gives one back, or
\* hands it over with its event to the queue.
LEMMA HandlerSlots ==
  ASSUME IInv, SlotInv, NEW a \in Attempts,
         Handle(a) \/ \E d \in Deliveries, p \in Replicas : Arrive(a, d, p)
  PROVE  SlotInv'
<1> USE DEF MoveTo, IInv, TypeInv
<1>1. /\ \A b \in Attempts \ {a} : pc'[b] = pc[b] /\ at'[b] = at[b]
      /\ wpc' = wpc
  BY DEF Handle, Arrive, TurnAway, HandleCommand, TakeSlot, Insert, Replay, Admit, AdmitReplyLost, AdmitRollback,
         CommitAdmission, FileRequest, Enqueue, Audit, Refuse, Answer, workers
<1>a. \A q \in Replicas : Cardinality(Busy(q)') = Cardinality(Busy(q)) /\ Cardinality(Busy(q)) \in Nat
  <2>1. \A q \in Replicas : Busy(q)' = Busy(q)
    BY <1>1 DEF Busy, AtWork
  <2>2. \A q \in Replicas : IsFiniteSet(Busy(q))
    BY FS_Subset DEF Busy
  <2> QED BY <2>1, <2>2, FS_CardinalityType
<1>2. ASSUME UNCHANGED queue, \A p \in Replicas : HasSlot(a, p) <=> HasSlot(a, p)'
      PROVE  SlotInv'
  <2>1. \A p \in Replicas : Cardinality(Held(p)') = Cardinality(Held(p))
    BY <1>1, <1>2, HeldMoves
  <2>2. \A p \in Replicas : Cardinality(Busy(p)') = Cardinality(Busy(p))
    BY <1>1 DEF Busy, AtWork
  <2>3. slots' = slots /\ jobs' = jobs
    BY <1>2 DEF queue
  <2> QED BY <2>1, <2>2, <2>3 DEF SlotInv
<1>3. ASSUME NEW p \in Replicas, HasSlot(a, p), Release(p), \A q \in Replicas : ~HasSlot(a, q)'
      PROVE  SlotInv'
  <2>1. \A q \in Replicas : /\ Cardinality(Held(q)') = IF q = p THEN Cardinality(Held(q)) - 1 ELSE Cardinality(Held(q))
                            /\ Cardinality(Held(q)) \in Nat /\ Cardinality(Held(q)') \in Nat
    <3>1. \A q \in Replicas : HasSlot(a, q) <=> q = p
      BY <1>3 DEF HasSlot
    <3> QED BY <1>1, <1>3, <3>1, HeldMoves
  <2>3. /\ \A q \in Replicas : slots'[q] = IF q = p THEN slots[q] - 1 ELSE slots[q]
        /\ jobs' = jobs /\ slots' = [slots EXCEPT ![p] = slots[p] - 1]
    BY <1>3 DEF Release, SlotInv
  <2>4. \A q \in Replicas : Len(jobs[q]) \in Nat
    OBVIOUS
  <2> HIDE DEF IInv, TypeInv
  <2>5. \A q \in Replicas : slots[q] = Cardinality(Held(q)) + Len(jobs[q]) + Cardinality(Busy(q)) /\ slots[q] \in 0..QueueSize
    BY DEF SlotInv
  <2>6. \A q \in Replicas : /\ slots'[q] = Cardinality(Held(q)') + Len(jobs'[q]) + Cardinality(Busy(q)')
                            /\ slots'[q] \in 0..QueueSize
    <3> SUFFICES ASSUME NEW q \in Replicas
                 PROVE  /\ slots'[q] = Cardinality(Held(q)') + Len(jobs'[q]) + Cardinality(Busy(q)')
                        /\ slots'[q] \in 0..QueueSize
      OBVIOUS
    <3>1. jobs'[q] = jobs[q] BY <2>3
    <3>2. CASE q = p
      <4>1. slots'[q] = slots[q] - 1 BY <2>3, <3>2
      <4>2. Cardinality(Held(q)') = Cardinality(Held(q)) - 1 /\ Cardinality(Held(q)) \in Nat /\ Cardinality(Held(q)') \in Nat BY <2>1, <3>2
      <4>3. Len(jobs'[q]) = Len(jobs[q]) /\ Len(jobs[q]) \in Nat
        <5>1. Len(jobs[q]) \in Nat BY <2>4
        <5> QED BY <3>1, <5>1, Zenon
      <4>4. Cardinality(Busy(q)') = Cardinality(Busy(q)) /\ Cardinality(Busy(q)) \in Nat BY <1>a, Zenon
      <4>5. slots[q] = Cardinality(Held(q)) + Len(jobs[q]) + Cardinality(Busy(q)) /\ slots[q] \in Int /\ slots[q] <= QueueSize BY <2>5
      <4>6. slots'[q] = Cardinality(Held(q)') + Len(jobs'[q]) + Cardinality(Busy(q)') BY <4>1, <4>2, <4>3, <4>4, <4>5
      <4>7. Cardinality(Held(q)') + Len(jobs'[q]) + Cardinality(Busy(q)') \in Nat BY <4>2, <4>3, <4>4
      <4>8. slots[q] \in 0..QueueSize BY <2>5
      <4>9. slots'[q] \in 0..QueueSize BY <4>1, <4>6, <4>7, <4>8
      <4> QED BY <4>6, <4>9
    <3>3. CASE q # p BY <2>1, <1>a, <2>3, <2>4, <2>5, <3>1, <3>3
    <3> QED BY <3>2, <3>3
  <2>7. slots' \in [Replicas -> 0..QueueSize]
    BY <2>3, <2>6 DEF SlotInv
  <2> QED BY <2>6, <2>7 DEF SlotInv
<1>4. CASE TakeSlot(a) /\ MoveTo(a, "admitting")
  <2> DEFINE p == at[a]
  <2>1. /\ p \in Replicas /\ slots[p] < QueueSize /\ slots' = [slots EXCEPT ![p] = slots[p] + 1]
        /\ pc[a] = "door" /\ pc'[a] = "admitting" /\ at' = at /\ jobs' = jobs
    BY <1>4 DEF TakeSlot, Refuse
  <2> HIDE DEF p
  <2>2. \A q \in Replicas : ~HasSlot(a, q) /\ (HasSlot(a, q)' <=> q = p)
    BY <2>1 DEF HasSlot, Holding, p
  <2>3. \A q \in Replicas : /\ Cardinality(Held(q)') = IF q = p THEN Cardinality(Held(q)) + 1 ELSE Cardinality(Held(q))
                            /\ Cardinality(Held(q)) \in Nat
    BY <1>1, <2>2, HeldMoves
  <2>5. \A q \in Replicas : slots'[q] = IF q = p THEN slots[q] + 1 ELSE slots[q]
    BY <2>1 DEF SlotInv
  <2>6. \A q \in Replicas : Len(jobs[q]) \in Nat
    OBVIOUS
  <2> HIDE DEF IInv, TypeInv
  <2>7. \A q \in Replicas : slots[q] = Cardinality(Held(q)) + Len(jobs[q]) + Cardinality(Busy(q)) /\ slots[q] \in 0..QueueSize
    BY DEF SlotInv
  <2>8. \A q \in Replicas : /\ slots'[q] = Cardinality(Held(q)') + Len(jobs'[q]) + Cardinality(Busy(q)')
                            /\ slots'[q] \in 0..QueueSize
    <3> SUFFICES ASSUME NEW q \in Replicas
                 PROVE  /\ slots'[q] = Cardinality(Held(q)') + Len(jobs'[q]) + Cardinality(Busy(q)')
                        /\ slots'[q] \in 0..QueueSize
      OBVIOUS
    <3>1. jobs'[q] = jobs[q] BY <2>1
    <3>2. CASE q = p
      <4>1. slots'[q] = slots[q] + 1 /\ slots[q] < QueueSize BY <2>1, <2>5, <3>2
      <4>2. Cardinality(Held(q)') = Cardinality(Held(q)) + 1 /\ Cardinality(Held(q)) \in Nat BY <2>3, <3>2
      <4>3. Len(jobs'[q]) = Len(jobs[q]) /\ Len(jobs[q]) \in Nat
        <5>1. Len(jobs[q]) \in Nat BY <2>6
        <5> QED BY <3>1, <5>1, Zenon
      <4>4. Cardinality(Busy(q)') = Cardinality(Busy(q)) /\ Cardinality(Busy(q)) \in Nat BY <1>a, Zenon
      <4>5. slots[q] = Cardinality(Held(q)) + Len(jobs[q]) + Cardinality(Busy(q)) /\ slots[q] \in Int BY <2>7
      <4>6. slots'[q] = Cardinality(Held(q)') + Len(jobs'[q]) + Cardinality(Busy(q)')
        <5>1. slots'[q] = slots[q] + 1 BY <4>1
        <5>2. Cardinality(Held(q)') + Len(jobs'[q]) + Cardinality(Busy(q)') = (Cardinality(Held(q)) + Len(jobs[q]) + Cardinality(Busy(q))) + 1
          BY <4>2, <4>3, <4>4
        <5> QED BY <5>1, <5>2, <4>5
      <4>7. slots[q] \in 0..QueueSize BY <2>7
      <4>8. slots'[q] \in 0..QueueSize
        BY <4>1, <4>7
      <4> QED BY <4>6, <4>8
    <3>3. CASE q # p BY <2>3, <1>a, <2>5, <2>6, <2>7, <3>1, <3>3
    <3> QED BY <3>2, <3>3
  <2>9. slots' \in [Replicas -> 0..QueueSize]
    BY <2>1, <2>8 DEF SlotInv
  <2> QED BY <2>8, <2>9 DEF SlotInv
<1>5. CASE Enqueue(a)
  <2> DEFINE p == at[a]
  <2>1. /\ p \in Replicas /\ jobs' = [jobs EXCEPT ![p] = Append(jobs[p], of[a])] /\ of[a] \in Deliveries
        /\ pc[a] = "admitted" /\ pc'[a] = "idle" /\ slots' = slots
    BY <1>5 DEF Enqueue, Answer, Holding
  <2> HIDE DEF p
  <2>2. \A q \in Replicas : (HasSlot(a, q) <=> q = p) /\ ~HasSlot(a, q)'
    BY <2>1 DEF HasSlot, Holding, p
  <2>3. \A q \in Replicas : /\ Cardinality(Held(q)') = IF q = p THEN Cardinality(Held(q)) - 1 ELSE Cardinality(Held(q))
                            /\ Cardinality(Held(q)) \in Nat
    BY <1>1, <2>2, HeldMoves
  <2>5. \A q \in Replicas : Len(jobs'[q]) = (IF q = p THEN Len(jobs[q]) + 1 ELSE Len(jobs[q])) /\ Len(jobs[q]) \in Nat
    BY <2>1
  <2>6. \A q \in Replicas : slots'[q] = Cardinality(Held(q)') + Len(jobs'[q]) + Cardinality(Busy(q)')
    <3> SUFFICES ASSUME NEW q \in Replicas
                 PROVE  slots'[q] = Cardinality(Held(q)') + Len(jobs'[q]) + Cardinality(Busy(q)')
      OBVIOUS
    <3> HIDE DEF IInv, TypeInv
    <3>1. slots'[q] = Cardinality(Held(q)) + Len(jobs[q]) + Cardinality(Busy(q)) BY <2>1 DEF SlotInv
    <3>2. CASE q = p BY <1>a, <2>3, <2>5, <3>1, <3>2
    <3>3. CASE q # p BY <1>a, <2>3, <2>5, <3>1, <3>3
    <3> QED BY <3>2, <3>3
  <2> QED BY <2>1, <2>6 DEF SlotInv
<1>6. CASE Replay(a) \/ AdmitReplyLost(a) \/ AdmitRollback(a)
  <2>1. pc[a] \in Holding /\ at[a] \in Replicas /\ Release(at[a])
    BY <1>6 DEF Replay, AdmitReplyLost, AdmitRollback, CommitAdmission, Holding
  <2>2. pc'[a] \notin Holding
    BY <1>6 DEF Replay, AdmitReplyLost, AdmitRollback, Refuse, Holding
  <2> QED BY <1>3, <2>1, <2>2 DEF HasSlot
<1>7. CASE Insert(a) \/ Admit(a)
  <2>1. pc[a] \in Holding /\ pc'[a] \in Holding /\ at' = at /\ UNCHANGED queue
    BY <1>7 DEF Insert, Admit, CommitAdmission, Holding
  <2> QED BY <1>2, <2>1 DEF HasSlot
<1>8. CASE \/ \E d \in Deliveries, p \in Replicas : Arrive(a, d, p)
           \/ TurnAway(a) \/ HandleCommand(a) \/ FileRequest(a) \/ Audit(a)
           \/ (TakeSlot(a) /\ ~MoveTo(a, "admitting"))
  <2>1. pc[a] \notin Holding /\ pc'[a] \notin Holding
    BY <1>8 DEF Arrive, TurnAway, HandleCommand, FileRequest, Audit, TakeSlot, Refuse, Answer, Holding
  <2>2. UNCHANGED queue
    BY <1>8 DEF Arrive, TurnAway, HandleCommand, FileRequest, Audit, TakeSlot, queue
  <2> QED BY <1>2, <2>1, <2>2 DEF HasSlot
<1> QED BY <1>4, <1>5, <1>6, <1>7, <1>8 DEF Handle

\* A worker's step: it takes an event, and its slot, from the queue, keeps at
\* work, or gives the slot back.
LEMMA WorkerSlots ==
  ASSUME IInv, SlotInv, NEW w \in Workers, WorkerStep(w) PROVE SlotInv'
<1> DEFINE p == On[w]
<1> USE DEF IInv, TypeInv
<1>0. p \in Replicas /\ \A q \in Replicas : Len(jobs[q]) \in Nat
  OBVIOUS
<1>1. /\ \A v \in Workers \ {w} : wpc'[v] = wpc[v]
      /\ UNCHANGED attempts
  BY DEF WorkerStep, Take, OpenRun, OpenFail, Opened, Invoke, Record, Close, GiveBack, WorkerReturn, workers
<1>2. \A q \in Replicas : Cardinality(Held(q)') = Cardinality(Held(q)) /\ Cardinality(Held(q)) \in Nat
  <2>1. \A q \in Replicas : Held(q) \subseteq Attempts /\ Held(q)' = Held(q)
    BY <1>1 DEF Held, HasSlot, attempts
  <2> QED BY <2>1, FS_Subset, FS_CardinalityType
<1>3. \A q \in Replicas : slots[q] = Cardinality(Held(q)) + Len(jobs[q]) + Cardinality(Busy(q)) /\ slots[q] \in 0..QueueSize
  BY DEF SlotInv
<1>4. ASSUME UNCHANGED queue, wpc[w] \in Turn <=> wpc'[w] \in Turn
      PROVE  SlotInv'
  <2>1. \A q \in Replicas : Cardinality(Busy(q)') = Cardinality(Busy(q))
    BY <1>1, <1>4, BusyMoves DEF AtWork
  <2>2. slots' = slots /\ jobs' = jobs
    BY <1>4 DEF queue
  <2> QED BY <1>2, <2>1, <2>2 DEF SlotInv
<1>5. CASE Take(w)
  <2>1. /\ wpc[w] \notin Turn /\ wpc'[w] \in Turn /\ slots' = slots
        /\ jobs[p] # << >> /\ jobs' = [jobs EXCEPT ![p] = Tail(jobs[p])]
    BY <1>5 DEF Take, Turn
  <2>2. \A q \in Replicas : /\ Cardinality(Busy(q)') = IF q = p THEN Cardinality(Busy(q)) + 1 ELSE Cardinality(Busy(q))
                            /\ Cardinality(Busy(q)) \in Nat
    BY <1>1, <2>1, BusyMoves DEF AtWork
  <2>3. \A q \in Replicas : Len(jobs'[q]) = IF q = p THEN Len(jobs[q]) - 1 ELSE Len(jobs[q])
    BY <1>0, <2>1
  <2> HIDE DEF IInv, TypeInv, p
  <2>4. \A q \in Replicas : slots'[q] = Cardinality(Held(q)') + Len(jobs'[q]) + Cardinality(Busy(q)')
    <3> SUFFICES ASSUME NEW q \in Replicas
                 PROVE  slots'[q] = Cardinality(Held(q)') + Len(jobs'[q]) + Cardinality(Busy(q)')
      OBVIOUS
    <3>1. CASE q = p
      <4>1. slots'[q] = slots[q] /\ Cardinality(Held(q)') = Cardinality(Held(q)) BY <1>2, <2>1
      <4>2. Cardinality(Busy(q)') = Cardinality(Busy(q)) + 1 /\ Cardinality(Busy(q)) \in Nat BY <2>2, <3>1
      <4>3. Len(jobs'[q]) = Len(jobs[q]) - 1 /\ Len(jobs[q]) \in Nat BY <1>0, <2>3, <3>1
      <4>4. slots[q] = Cardinality(Held(q)) + Len(jobs[q]) + Cardinality(Busy(q)) /\ Cardinality(Held(q)) \in Nat BY <1>2, <1>3
      <4>5. Len(jobs'[q]) + Cardinality(Busy(q)') = Len(jobs[q]) + Cardinality(Busy(q)) BY <4>2, <4>3
      <4> QED BY <4>1, <4>2, <4>3, <4>4, <4>5
    <3>2. CASE q # p BY <1>0, <1>2, <1>3, <2>1, <2>2, <2>3, <3>2
    <3> QED BY <3>1, <3>2
  <2> QED BY <2>1, <2>4 DEF SlotInv
<1>6. CASE GiveBack(w)
  <2>1. wpc[w] \in Turn /\ wpc'[w] \notin Turn /\ jobs' = jobs /\ slots' = [slots EXCEPT ![p] = slots[p] - 1]
    BY <1>6 DEF GiveBack, Release, Turn
  <2>2. \A q \in Replicas : /\ Cardinality(Busy(q)') = IF q = p THEN Cardinality(Busy(q)) - 1 ELSE Cardinality(Busy(q))
                            /\ Cardinality(Busy(q)) \in Nat /\ Cardinality(Busy(q)') \in Nat
    BY <1>1, <2>1, BusyMoves DEF AtWork
  <2> HIDE DEF IInv, TypeInv, p
  <2>3. \A q \in Replicas : slots'[q] = IF q = p THEN slots[q] - 1 ELSE slots[q]
    BY <2>1 DEF SlotInv
  <2>4. \A q \in Replicas : /\ slots'[q] = Cardinality(Held(q)') + Len(jobs'[q]) + Cardinality(Busy(q)')
                            /\ slots'[q] \in 0..QueueSize
    <3> SUFFICES ASSUME NEW q \in Replicas
                 PROVE  /\ slots'[q] = Cardinality(Held(q)') + Len(jobs'[q]) + Cardinality(Busy(q)')
                        /\ slots'[q] \in 0..QueueSize
      OBVIOUS
    <3>0. jobs'[q] = jobs[q] BY <2>1
    <3>1. CASE q = p
      <4>1. slots'[q] = slots[q] - 1 /\ Cardinality(Held(q)') = Cardinality(Held(q)) BY <1>2, <2>3, <3>1
      <4>2. /\ Cardinality(Busy(q)') = Cardinality(Busy(q)) - 1
            /\ Cardinality(Busy(q)) \in Nat /\ Cardinality(Busy(q)') \in Nat
        BY <2>2, <3>1
      <4>3. Len(jobs'[q]) = Len(jobs[q]) /\ Len(jobs[q]) \in Nat BY <1>0, <3>0, Zenon
      <4>4. slots[q] = Cardinality(Held(q)) + Len(jobs[q]) + Cardinality(Busy(q)) /\ slots[q] \in 0..QueueSize BY <1>3
      <4>5. Cardinality(Held(q)) \in Nat BY <1>2
      <4>6. slots'[q] = Cardinality(Held(q)') + Len(jobs'[q]) + Cardinality(Busy(q)')
        BY <4>1, <4>2, <4>3, <4>4, <4>5
      <4>7. slots'[q] >= 0 /\ slots'[q] <= QueueSize /\ slots'[q] \in Int
        BY <4>1, <4>2, <4>3, <4>4, <4>5, <4>6
      <4> QED BY <4>6, <4>7
    <3>2. CASE q # p BY <1>0, <1>2, <1>3, <2>2, <2>3, <3>0, <3>2
    <3> QED BY <3>1, <3>2
  <2>5. slots' \in [Replicas -> 0..QueueSize]
    BY <2>1, <2>4 DEF SlotInv
  <2> QED BY <2>4, <2>5 DEF SlotInv
<1>7. CASE OpenRun(w) \/ OpenFail(w) \/ Opened(w) \/ Invoke(w) \/ Record(w) \/ Close(w) \/ WorkerReturn(w)
  <2>1. UNCHANGED queue
    BY <1>7 DEF OpenRun, OpenFail, Opened, Invoke, Record, Close, WorkerReturn
  <2>2. wpc[w] \in Turn <=> wpc'[w] \in Turn
    <3>1. CASE OpenRun(w) \/ WorkerReturn(w)
      BY <3>1 DEF OpenRun, WorkerReturn, Turn, workers
    <3>2. CASE OpenFail(w) \/ Opened(w) \/ Invoke(w) \/ Record(w) \/ Close(w)
      BY <3>2 DEF OpenFail, Opened, Invoke, Record, Close, Turn
    <3> QED BY <1>7, <3>1, <3>2
  <2> QED BY <1>4, <2>1, <2>2
<1> QED BY <1>5, <1>6, <1>7 DEF WorkerStep

\* A replica that dies takes its slots with it, and nobody else's.
LEMMA CrashSlots ==
  ASSUME IInv, SlotInv, NEW p \in Replicas, Crash(p) PROVE SlotInv'
<1> USE DEF IInv, TypeInv
<1>1. /\ slots' = [slots EXCEPT ![p] = 0] /\ jobs' = [jobs EXCEPT ![p] = << >>]
      /\ \A a \in Attempts : IF at[a] = p THEN at'[a] = None ELSE at'[a] = at[a] /\ pc'[a] = pc[a]
      /\ \A w \in Workers : wpc'[w] = IF On[w] = p THEN "idle" ELSE wpc[w]
  BY DEF Crash
<1> HIDE DEF IInv, TypeInv
<1>2. Held(p)' = {} /\ \A q \in Replicas \ {p} : Held(q)' = Held(q)
  <2>1. \A a \in Attempts : ~HasSlot(a, p)' /\ \A q \in Replicas \ {p} : HasSlot(a, q)' <=> HasSlot(a, q)
    BY <1>1 DEF HasSlot
  <2> HIDE DEF HasSlot
  <2>2. Held(p)' = {}
    BY <2>1 DEF Held
  <2>3. ASSUME NEW q \in Replicas \ {p} PROVE Held(q)' = Held(q)
    BY <2>1 DEF Held
  <2> QED BY <2>2, <2>3
<1>3. Busy(p)' = {} /\ \A q \in Replicas \ {p} : Busy(q)' = Busy(q)
  BY <1>1 DEF Busy, AtWork, Turn
<1>4. slots'[p] = 0 /\ Len(jobs'[p]) = 0 /\ Cardinality({}) = 0
  BY <1>1, FS_EmptySet DEF SlotInv, IInv, TypeInv
<1>5. \A q \in Replicas \ {p} : slots'[q] = slots[q] /\ jobs'[q] = jobs[q]
  BY <1>1 DEF SlotInv, IInv, TypeInv
<1>6. slots' \in [Replicas -> 0..QueueSize]
  BY <1>1 DEF SlotInv
<1>7. \A q \in Replicas : slots'[q] = Cardinality(Held(q)') + Len(jobs'[q]) + Cardinality(Busy(q)')
  <2> SUFFICES ASSUME NEW q \in Replicas
               PROVE  slots'[q] = Cardinality(Held(q)') + Len(jobs'[q]) + Cardinality(Busy(q)')
    OBVIOUS
  <2>1. CASE q = p
    <3>1. Cardinality(Held(q)') = 0 /\ Cardinality(Busy(q)') = 0 BY <1>2, <1>3, <1>4, <2>1, Zenon
    <3> QED BY <1>4, <2>1, <3>1
  <2>2. CASE q # p
    <3>1. q \in Replicas \ {p} BY <2>2
    <3>2. Held(q)' = Held(q) /\ Busy(q)' = Busy(q) /\ slots'[q] = slots[q] /\ jobs'[q] = jobs[q] BY <1>2, <1>3, <1>5, <3>1
    <3>3. slots[q] = Cardinality(Held(q)) + Len(jobs[q]) + Cardinality(Busy(q)) BY DEF SlotInv
    <3> QED BY <3>2, <3>3
  <2> QED BY <2>1, <2>2
<1> QED BY <1>6, <1>7 DEF SlotInv

LEMMA SlotNext == IInv /\ SlotInv /\ [Next]_vars => SlotInv'
<1> SUFFICES ASSUME IInv, SlotInv, [Next]_vars PROVE SlotInv'
  OBVIOUS
<1>1. ASSUME UNCHANGED <<attempts, workers, queue>> PROVE SlotInv'
  <2>1. \A q \in Replicas : Held(q)' = Held(q) /\ Busy(q)' = Busy(q)
    BY <1>1 DEF attempts, workers, Held, HasSlot, Busy, AtWork
  <2> QED BY <1>1, <2>1 DEF queue, SlotInv
<1>2. CASE AdminDecide \/ (\E r \in runs : Expire(r)) \/ (\E p \in Replicas : Stop(p)) \/ UNCHANGED vars
  BY <1>1, <1>2 DEF AdminDecide, Expire, Stop, vars
<1> QED BY <1>2, HandlerSlots, WorkerSlots, CrashSlots DEF Next

LEMMA InitSlots == Init => SlotInv
<1> SUFFICES ASSUME Init PROVE SlotInv
  OBVIOUS
<1>1. \A p \in Replicas : Held(p) = {} /\ Busy(p) = {}
  BY DEF Init, Held, HasSlot, Holding, Busy, AtWork, Turn
<1>2. \A p \in Replicas : slots[p] = 0 /\ Len(jobs[p]) = 0
  BY DEF Init
<1>3. Cardinality({}) = 0
  BY FS_EmptySet
<1>4. \A p \in Replicas : Cardinality(Held(p)) = 0 /\ Cardinality(Busy(p)) = 0
  BY <1>1, <1>3, Zenon
<1>5. \A p \in Replicas : slots[p] = Cardinality(Held(p)) + Len(jobs[p]) + Cardinality(Busy(p))
  BY <1>2, <1>4
<1> QED BY <1>5 DEF Init, SlotInv

\* Every exit of receive and of process gives back the one slot that it has,
\* so an event that is admitted finds room in the queue.
THEOREM Returned == Spec => []SlotsReturned
<1>2. IInv /\ SlotInv => SlotsReturned
  <2> SUFFICES ASSUME IInv, SlotInv, NEW p \in Replicas
               PROVE  /\ slots[p] = Cardinality(Held(p)) + Len(jobs[p]) + Cardinality(Busy(p))
                      /\ \A a \in Held(p) : Len(jobs[p]) < QueueSize
    BY DEF SlotsReturned, Held, HasSlot, Busy, AtWork
  <2>1. slots[p] = Cardinality(Held(p)) + Len(jobs[p]) + Cardinality(Busy(p)) /\ slots[p] <= QueueSize
    BY DEF SlotInv
  <2>2. IsFiniteSet(Held(p)) /\ IsFiniteSet(Busy(p))
    BY FS_Subset DEF Held, Busy
  <2>3. Cardinality(Held(p)) \in Nat /\ Cardinality(Busy(p)) \in Nat /\ Len(jobs[p]) \in Nat
    BY <2>2, FS_CardinalityType DEF IInv, TypeInv
  <2>4. ASSUME NEW a \in Held(p) PROVE Cardinality(Held(p)) > 0
    <3>1. Cardinality(Held(p)) # 0
      BY <2>2, FS_EmptySet
    <3> QED BY <2>3, <3>1
  <2> QED BY <2>1, <2>3, <2>4
<1> QED BY <1>2, InitSlots, Inductive, SlotNext, PTL DEF Spec

-----------------------------------------------------------------------------
LEMMA FlagsNext ==
  ASSUME IInv, TypeOK, RunInv, [Next]_vars
  PROVE  /\ asked' \in BOOLEAN
         /\ degraded' \in [Replicas -> BOOLEAN] /\ stopping' \in [Replicas -> BOOLEAN]
         /\ stray' \subseteq Deliveries \X ToSet(Creds)
<1> DEFINE Rest == /\ asked' \in BOOLEAN
                   /\ degraded' \in [Replicas -> BOOLEAN] /\ stopping' \in [Replicas -> BOOLEAN]
                   /\ stray' \subseteq Deliveries \X ToSet(Creds)
<1>0. /\ asked \in BOOLEAN /\ degraded \in [Replicas -> BOOLEAN] /\ stopping \in [Replicas -> BOOLEAN]
      /\ stray \subseteq Deliveries \X ToSet(Creds) /\ runs \subseteq Deliveries \X ToSet(Creds)
  BY DEF TypeOK
<1>1. ASSUME asked' \in BOOLEAN, degraded' \in [Replicas -> BOOLEAN], UNCHANGED <<stopping, stray>> PROVE Rest
  BY <1>0, <1>1
<1>2. ASSUME NEW a \in Attempts, Handle(a) \/ \E d \in Deliveries, p \in Replicas : Arrive(a, d, p) PROVE Rest
  <2>1. UNCHANGED <<stopping, stray>>
    BY <1>2 DEF Handle, Arrive, TurnAway, HandleCommand, TakeSlot, Insert, Replay, Admit, AdmitReplyLost,
       AdmitRollback, CommitAdmission, FileRequest, Enqueue, Audit, trail, control
  <2>2. CASE ~Audit(a) /\ ~FileRequest(a)
    <3>1. UNCHANGED degraded
      BY <1>2, <2>2 DEF Handle, Arrive, TurnAway, HandleCommand, TakeSlot, Insert, Replay, Admit, AdmitReplyLost,
         AdmitRollback, CommitAdmission, Enqueue, control
    <3>2. asked' \in {asked, FALSE}
      BY <1>2, <2>2 DEF Handle, Arrive, TurnAway, HandleCommand, Decide, TakeSlot, Insert, Replay, Admit,
         AdmitReplyLost, AdmitRollback, CommitAdmission, Enqueue, tables
    <3> QED BY <1>0, <1>1, <2>1, <3>1, <3>2
  <2>3. CASE Audit(a)
    BY <1>0, <1>1, <2>1, <2>3 DEF Audit, tables
  <2>4. CASE FileRequest(a)
    BY <1>0, <1>1, <2>1, <2>4 DEF FileRequest, control
  <2> QED BY <2>2, <2>3, <2>4
<1>3. ASSUME NEW w \in Workers, WorkerStep(w) PROVE Rest
  <2>1. UNCHANGED <<asked, stopping>>
    BY <1>3 DEF WorkerStep, Take, OpenRun, OpenFail, Opened, Invoke, Record, Close, GiveBack, WorkerReturn,
       tables, control
  <2>2. degraded' \in [Replicas -> BOOLEAN]
    <3>1. CASE Record(w)
      BY <1>0, <3>1 DEF Record
    <3>2. CASE ~Record(w)
      BY <1>0, <1>3, <3>2 DEF WorkerStep, Take, OpenRun, OpenFail, Opened, Invoke, Close, GiveBack, WorkerReturn, control
    <3> QED BY <3>1, <3>2
  <2>3. stray' \subseteq Deliveries \X ToSet(Creds)
    <3>1. CASE OpenFail(w)
      <4>1. on[w] \in Deliveries
        BY <3>1 DEF OpenFail, IInv, TypeInv, Turn
      <4>2. RunsOf(on[w]) \subseteq Deliveries \X ToSet(Creds) /\ Wanted(on[w]) \subseteq Deliveries \X ToSet(Creds)
        BY <1>0, <4>1 DEF RunsOf, Wanted
      <4>3. PICK r \in Wanted(on[w]), open \in SUBSET RunsOf(on[w]) :
              \E lost \in {{}, {r}} : stray' = stray \cup open \cup lost
        BY <3>1 DEF OpenFail
      <4> QED BY <1>0, <4>2, <4>3
    <3>2. CASE Close(w)
      BY <1>0, <3>2 DEF Close, RunsOf
    <3>3. CASE ~OpenFail(w) /\ ~Close(w)
      BY <1>0, <1>3, <3>3 DEF WorkerStep, Take, OpenRun, Opened, Invoke, Record, GiveBack, WorkerReturn, trail
    <3> QED BY <3>1, <3>2, <3>3
  <2> QED BY <1>0, <2>1, <2>2, <2>3
<1>4. CASE AdminDecide \/ UNCHANGED vars
  BY <1>0, <1>1, <1>4 DEF AdminDecide, Decide, vars, tables, trail, control
<1>5. ASSUME NEW r \in runs, Expire(r) PROVE Rest
  BY <1>0, <1>5 DEF Expire, tables, control
<1>6. ASSUME NEW p \in Replicas, Stop(p) PROVE Rest
  BY <1>0, <1>6 DEF Stop, tables, trail
<1>7. ASSUME NEW p \in Replicas, Crash(p) PROVE Rest
  <2>1. /\ degraded' = [degraded EXCEPT ![p] = FALSE] /\ stopping' = [stopping EXCEPT ![p] = FALSE]
        /\ asked' = asked /\ stray' \subseteq stray \cup runs
    BY <1>7 DEF Crash
  <2> QED BY <1>0, <2>1
<1> QED BY <1>2, <1>3, <1>4, <1>5, <1>6, <1>7 DEF Next

\* Types.
THEOREM TypeCorrect == Spec => []TypeOK
<1>1. Init => TypeOK
  <2> SUFFICES ASSUME Init PROVE TypeOK
    OBVIOUS
  <2>1. TypeInv
    BY InitInv DEF IInv
  <2>2. slots \in [Replicas -> 0..QueueSize]
    BY DEF Init
  <2>3. /\ asked \in BOOLEAN /\ runs = {} /\ stray = {}
        /\ degraded \in [Replicas -> BOOLEAN] /\ stopping \in [Replicas -> BOOLEAN]
    BY DEF Init
  <2> QED BY <2>1, <2>2, <2>3 DEF TypeInv, TypeOK
<1>2. IInv' /\ RunInv' /\ SlotInv' /\ IInv /\ RunInv /\ TypeOK /\ [Next]_vars => TypeOK'
  <2> SUFFICES ASSUME IInv, RunInv, TypeOK, IInv', RunInv', SlotInv', [Next]_vars PROVE TypeOK'
    OBVIOUS
  <2>1. TypeInv' /\ slots' \in [Replicas -> 0..QueueSize] /\ runs' \subseteq Deliveries \X ToSet(Creds)
    BY DEF IInv, RunInv, SlotInv
  <2> QED BY <2>1, FlagsNext DEF TypeInv, TypeOK
<1>3. Spec => []SlotInv
  <2>1. Init => SlotInv
    BY InitSlots
  <2> QED BY <2>1, Inductive, SlotNext, PTL DEF Spec
<1> QED BY <1>1, <1>2, <1>3, Inductive, RunsInductive, PTL DEF Spec

=============================================================================

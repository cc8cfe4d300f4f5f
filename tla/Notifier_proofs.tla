-------------------------- MODULE Notifier_proofs ---------------------------
(***************************************************************************)
(* Notifier and Shutdown proved for every number of posts, queue size and  *)
(* retry bound.                                                            *)
(*                                                                         *)
(* Neither TwiceOnlyRelayed nor PostedInOrder is inductive.  Both need to  *)
(* know what is behind the queue: the waiting posts are undecided and in   *)
(* the order Enqueue took them, the one being sent precedes them all and   *)
(* follows every decided one (QueueInv); and what has left, or may still   *)
(* arrive late, is settled for good, except the message of a call that has *)
(* landed and is not answered yet and one a relayed 503 had sent again     *)
(* (ChannelInv).                                                           *)
(*                                                                         *)
(* Then the replica that goes down around it (Shutdown): main, handlers    *)
(* and bridge only ever call the notifier, so what is proved of it alone   *)
(* holds within (NotifierInside); and they have all returned before Drain  *)
(* looks, so that the queue it finds empty stays empty (DownInv).          *)
(***************************************************************************)
EXTENDS Shutdown, SequenceTheorems, TLAPS

\* The worker owes its post an answer.
Owing == worker \in {"taken", "trying", "calling", "backoff"}

QueueInv ==
  /\ \A p \in Posts : turn[p] <= count
  /\ \A p \in Posts : turn[p] > 0 <=> fate[p] \notin {"new", "dropped"}
  /\ \A i \in 1..Len(jobs) : fate[jobs[i]] = "queued"
  /\ \A i, j \in 1..Len(jobs) : i < j => turn[jobs[i]] < turn[jobs[j]]
  /\ \A p \in Posts : fate[p] = "queued" =>
       (p = hand /\ Owing) \/ \E i \in 1..Len(jobs) : jobs[i] = p
  /\ Owing => fate[hand] = "queued"
  /\ worker = "sent" => fate[hand] \in Decided
  /\ hand # None => \A i \in 1..Len(jobs) : turn[hand] < turn[jobs[i]]

\* What is decided was taken before what waits and before what is in hand.
OrderInv ==
  \A p \in Posts : fate[p] \in Decided =>
    /\ \A i \in 1..Len(jobs) : turn[p] < turn[jobs[i]]
    /\ hand # None /\ p # hand => turn[p] < turn[hand]

\* The current call's message is in the channel, and the worker not told.
Landed(p) == p = hand /\ worker = "calling" /\ beyond = "landed"

\* A message whose place in the channel is final.
Firm(p) == fate[p] = "posted" \/ Landed(p)

Told == {"posted", "unknown"}

At(i, p) == i \in 1..Len(channel) /\ channel[i] = p

ChannelInv ==
  /\ \A p \in late \ relayed : fate[p] = "unknown"
  /\ \A p \in Posts \ relayed, i \in Nat :
       At(i, p) => p \notin late /\ (fate[p] \in Told \/ Landed(p))
  /\ \A p \in Posts : Firm(p) => \E i \in Nat : At(i, p)

NoneTwice ==
  \A p \in Posts \ relayed, i, j \in Nat : At(i, p) /\ At(j, p) => i = j

FirmInOrder ==
  \A p, q \in Posts \ relayed, i, j \in Nat :
    i < j /\ At(i, p) /\ At(j, q) /\ Firm(p) /\ Firm(q) => turn[p] < turn[q]

DrainInv ==
  /\ \A p \in early : fate[p] \notin {"new", "dropped"}
  /\ drain = "flag" => \A p \in early : fate[p] = "queued" => p = hand
  /\ drain = "answered" /\ answer = 0 =>
       \A p \in early : fate[p] = "queued" => p = hand /\ (outOfTime \/ p \in unflagged)

-----------------------------------------------------------------------------
\* What classify makes of an answer is one of three, and a refusal or a
\* success says where the message is.
LEMMA Classified ==
  ASSUME NEW h \in Happenings
  PROVE  /\ classify(h) \in Outcomes
         /\ classify(h) = "posted" => Befalls(h) \subseteq {"landed"}
         /\ classify(h) = "refused" /\ h # "unavailable" => Befalls(h) \subseteq {"gateway", "rejected"}
BY DEF classify, Befalls, Happenings, Outcomes

\* Taking the head of the queue shifts the others.
LEMMA TailShifts ==
  ASSUME NEW S, NEW s \in Seq(S), s # << >>
  PROVE  /\ Tail(s) \in Seq(S) /\ Head(s) \in S /\ Head(s) = s[1]
         /\ Len(Tail(s)) = Len(s) - 1
         /\ \A i \in 1..Len(Tail(s)) : i + 1 \in 1..Len(s) /\ Tail(s)[i] = s[i + 1]
BY HeadTailProperties

LEMMA AppendAdds ==
  ASSUME NEW S, NEW s \in Seq(S), NEW e \in S
  PROVE  /\ Append(s, e) \in Seq(S)
         /\ Len(Append(s, e)) = Len(s) + 1
         /\ Append(s, e)[Len(s) + 1] = e
         /\ \A i \in 1..Len(s) : Append(s, e)[i] = s[i]
BY AppendProperties

-----------------------------------------------------------------------------
\* What is proved of Notifier alone, and of Notifier within Shutdown, whose
\* fairness is another: neither leans on any.
Safe == Init /\ [][Next]_vars

\* Notifier keeps its types; the in-flight flag is up exactly from the first
\* attempt to the last, and a hand is full exactly while the worker is busy.
LEMMA TypeSafe == Safe => []TypeOK
<1>1. Init => TypeOK
  <2> SUFFICES ASSUME Init PROVE TypeOK
    OBVIOUS
  <2>1. /\ jobs \in Seq(Posts) /\ Len(jobs) <= QueueSize
        /\ channel \in Seq(Posts) /\ tries \in 0..MaxTries - 1
    BY NotifierAssumption DEF Init
  <2>2. /\ count \in Nat /\ turn \in [Posts -> Nat] /\ fate \in [Posts -> Fates]
    BY DEF Init, Fates
  <2>3. answer \in 0..QueueSize
    BY NotifierAssumption DEF Init
  <2> QED
    BY <2>1, <2>2, <2>3 DEF Init, TypeOK
<1>2. TypeOK /\ [Next]_vars => TypeOK'
  <2> SUFFICES ASSUME TypeOK, [Next]_vars PROVE TypeOK'
    OBVIOUS
  <2> USE NotifierAssumption DEF TypeOK
  <2>1. ASSUME NEW p \in Posts, Enqueue(p) PROVE TypeOK'
    <3>1. UNCHANGED <<sending, slack, control, draining>>
      BY <2>1 DEF Enqueue
    <3>2. CASE EnqueueTaken(p)
      <4>1. jobs' \in Seq(Posts) /\ Len(jobs') <= QueueSize
        BY <3>2, AppendAdds DEF EnqueueTaken
      <4>2. count' \in Nat /\ turn' \in [Posts -> Nat] /\ fate' \in [Posts -> Fates]
        BY <3>2 DEF EnqueueTaken, Fates
      <4> QED
        BY <4>1, <4>2, <3>1 DEF sending, slack, control, draining
    <3>3. CASE EnqueueDropped(p)
      <4>1. fate' \in [Posts -> Fates]
        BY <3>3 DEF EnqueueDropped, Fates
      <4> QED
        BY <4>1, <3>1, <3>3 DEF EnqueueDropped, sending, slack, control, draining, queue
    <3> QED
      BY <2>1, <3>2, <3>3 DEF Enqueue
  <2>2. CASE Take
    <3>1. jobs' \in Seq(Posts) /\ Len(jobs') <= QueueSize /\ hand' \in Posts
      BY <2>2, TailShifts DEF Take
    <3> QED
      BY <2>2, <3>1 DEF Take, slack, control, draining
  <2>3. CASE Raise
    BY <2>3 DEF Raise, queue, slack, control, draining
  <2>4. CASE Dial
    BY <2>4 DEF Dial, queue, control, draining
  <2>5. ASSUME NEW h \in Happenings, Settle(h), worker \in {"trying", "calling"}
        PROVE  /\ jobs' = jobs /\ hand' = hand /\ inflight' = inflight /\ count' = count
               /\ turn' = turn
               /\ listening' = listening /\ stopped' = stopped
               /\ UNCHANGED <<drain, answer, spent, early, unflagged, outOfTime>>
               /\ worker' \in {"backoff", "sent"}
               /\ tries' \in 0..MaxTries - 1
               /\ fate' \in [Posts -> Fates]
    BY <2>5 DEF Settle, queue, control, draining, Fates, Decided
  <2>6. CASE Unsent
    <3>1. PICK h \in Happenings : Settle(h) /\ worker = "trying" /\ UNCHANGED slack
      BY <2>6 DEF Unsent, Happenings
    <3> QED
      BY <3>1, <2>5 DEF slack
  <2>7. ASSUME NEW h \in Happenings, Answered(h) PROVE TypeOK'
    <3>1. Settle(h) /\ worker = "calling"
      BY <2>7 DEF Answered
    <3> QED
      BY <2>7, <3>1, <2>5 DEF Answered
  <2>8. CASE Backoff
    BY <2>8 DEF Backoff, queue, slack, control, draining, Fates, Decided
  <2>9. CASE Lower
    BY <2>9 DEF Lower, queue, slack, control, draining
  <2>10. CASE RunReturn
    BY <2>10 DEF RunReturn, queue, slack, control, draining
  <2>11. CASE Forward
    BY <2>11 DEF Forward, queue, sending, control, draining
  <2>12. CASE Land
    BY <2>12 DEF Land, queue, sending, control, draining
  <2>13. CASE Reject
    BY <2>13 DEF Reject, queue, sending, control, draining
  <2>14. ASSUME NEW p \in Posts, LandLate(p) PROVE TypeOK'
    BY <2>14 DEF LandLate, queue, sending, control, draining
  <2>15. CASE DrainBegin
    BY <2>15 DEF DrainBegin, queue, sending, slack, control
  <2>16. CASE DrainStep
    <3>1. CASE DrainLooksAtQueue
      BY <3>1 DEF DrainLooksAtQueue, queue, sending, slack, control
    <3>2. CASE DrainLooksAtFlag
      BY <3>2 DEF DrainLooksAtFlag, queue, sending, slack, control
    <3>3. CASE DrainWait
      <4>1. answer' \in 0..QueueSize
        BY <3>3 DEF DrainWait
      <4> QED
        BY <3>3, <4>1 DEF DrainWait, queue, sending, slack, control
    <3> QED
      BY <2>16, <3>1, <3>2, <3>3 DEF DrainStep
  <2>17. CASE BudgetSpent
    BY <2>17 DEF BudgetSpent, queue, sending, slack, control
  <2>18. CASE GatewayClose
    BY <2>18 DEF GatewayClose, queue, sending, slack, draining
  <2>19. CASE Stop
    BY <2>19 DEF Stop, queue, sending, slack, draining
  <2>20. CASE UNCHANGED vars
    BY <2>20 DEF vars, queue, sending, slack, control, draining
  <2> QED
    BY <2>1, <2>2, <2>3, <2>4, <2>6, <2>7, <2>8, <2>9, <2>10, <2>11, <2>12, <2>13,
       <2>14, <2>15, <2>16, <2>17, <2>18, <2>19, <2>20 DEF Next, WorkerStep, Beyond
<1> QED
  BY <1>1, <1>2, PTL DEF Safe

\* The same of the notifier as it is scheduled (Poster.Run).
THEOREM TypeCorrect == Spec => []TypeOK
BY TypeSafe, PTL DEF Spec, Safe

-----------------------------------------------------------------------------
(* What a step can do to the posts. *)

\* The worker settles the post in its hand.
Settles(o) ==
  /\ Owing /\ worker' = "sent" /\ hand' = hand
  /\ fate' = [fate EXCEPT ![hand] = o]
  /\ UNCHANGED queue

Quiet ==
  /\ UNCHANGED <<queue, fate>> /\ hand' = hand
  /\ Owing' <=> Owing
  /\ worker' = "sent" => worker = "sent"

\* A step takes a post in, hands one to the worker, settles the one in its
\* hand, empties the hand, or leaves the posts alone.
LEMMA Shapes ==
  ASSUME [Next]_vars
  PROVE  \/ \E p \in Posts : Enqueue(p)
         \/ Take
         \/ \E o \in Decided : Settles(o)
         \/ Lower
         \/ Quiet
<1>1. ASSUME NEW h \in Happenings, Settle(h), worker \in {"trying", "calling"}
      PROVE  Quiet \/ \E o \in Decided : Settles(o)
  <2>1. UNCHANGED queue /\ hand' = hand /\ Owing
    BY <1>1 DEF Settle, Owing
  <2>2. CASE worker' = "backoff" /\ UNCHANGED fate
    BY <2>1, <2>2 DEF Quiet, Owing
  <2>3. CASE worker' = "sent" /\ \E o \in Decided : fate' = [fate EXCEPT ![hand] = o]
    BY <2>1, <2>3 DEF Settles
  <2> QED
    BY <1>1, <2>2, <2>3 DEF Settle, Decided
<1>2. CASE Unsent \/ \E h \in Happenings : Answered(h)
  BY <1>2, <1>1 DEF Unsent, Answered, Happenings
<1>3. CASE Backoff
  <2>1. UNCHANGED queue /\ hand' = hand /\ Owing
    BY <1>3 DEF Backoff, Owing
  <2>2. CASE worker' = "trying" /\ UNCHANGED fate
    BY <2>1, <2>2 DEF Quiet, Owing
  <2>3. CASE worker' = "sent" /\ fate' = [fate EXCEPT ![hand] = "abandoned"]
    BY <2>1, <2>3 DEF Settles, Decided
  <2> QED
    BY <1>3, <2>2, <2>3 DEF Backoff
<1>4. CASE Raise \/ Dial \/ RunReturn
  BY <1>4 DEF Raise, Dial, RunReturn, Quiet, Owing
<1>5. CASE Beyond
  BY <1>5 DEF Beyond, Forward, Land, Reject, LandLate, sending, Quiet, Owing
<1>6. CASE DrainBegin \/ DrainStep \/ BudgetSpent \/ GatewayClose \/ Stop
  BY <1>6 DEF DrainBegin, DrainStep, DrainLooksAtQueue, DrainLooksAtFlag, DrainWait,
              BudgetSpent, GatewayClose, Stop, sending, Quiet, Owing
<1>7. CASE UNCHANGED vars
  BY <1>7 DEF vars, sending, Quiet, Owing
<1> QED
  BY <1>2, <1>3, <1>4, <1>5, <1>6, <1>7 DEF Next, WorkerStep

-----------------------------------------------------------------------------
\* Waiting posts are undecided and in the order Enqueue took them.
LEMMA QueueSafe == Safe => []QueueInv
<1>1. Init => QueueInv
  BY NotifierAssumption DEF Init, QueueInv, Owing
<1>2. TypeOK /\ QueueInv /\ [Next]_vars => QueueInv'
  <2> SUFFICES ASSUME TypeOK, QueueInv, [Next]_vars PROVE QueueInv'
    OBVIOUS
  <2>0. /\ jobs \in Seq(Posts) /\ turn \in [Posts -> Nat] /\ count \in Nat
        /\ fate \in [Posts -> Fates]
        /\ hand \in Posts \cup {None}
        /\ (hand = None) <=> (worker \in {"idle", "exited"})
        /\ None \notin Posts
    BY NotifierAssumption DEF TypeOK
  <2>1. ASSUME NEW p \in Posts, Enqueue(p) PROVE QueueInv'
    <3>1. fate[p] = "new" /\ turn[p] = 0 /\ UNCHANGED <<worker, hand>>
      BY <2>0, <2>1 DEF Enqueue, sending, QueueInv
    <3>2. CASE EnqueueTaken(p)
      <4>1. /\ jobs' \in Seq(Posts) /\ Len(jobs') = Len(jobs) + 1
            /\ jobs'[Len(jobs) + 1] = p
            /\ \A i \in 1..Len(jobs) : jobs'[i] = jobs[i] /\ jobs[i] \in Posts /\ jobs[i] # p
        BY <2>0, <3>1, <3>2, AppendAdds DEF EnqueueTaken, QueueInv
      <4>2. /\ turn'[p] = count + 1 /\ count' = count + 1 /\ fate'[p] = "queued"
            /\ \A q \in Posts : q # p => turn'[q] = turn[q] /\ fate'[q] = fate[q]
        BY <2>0, <3>2 DEF EnqueueTaken
      <4>3. \A q \in Posts : turn'[q] <= count'
        BY <2>0, <4>2 DEF QueueInv
      <4>4. \A q \in Posts : turn'[q] > 0 <=> fate'[q] \notin {"new", "dropped"}
        BY <2>0, <4>2 DEF QueueInv
      <4>0. /\ Len(jobs) \in Nat
            /\ \A i \in 1..Len(jobs') : i = Len(jobs) + 1 \/ i \in 1..Len(jobs)
            /\ \A i \in 1..Len(jobs) : /\ turn'[jobs'[i]] = turn[jobs[i]]
                                       /\ fate'[jobs'[i]] = fate[jobs[i]]
                                       /\ turn[jobs[i]] < count + 1
                                       /\ turn[jobs[i]] \in Nat
        <5>1. Len(jobs) \in Nat
          BY <2>0
        <5>2. \A i \in 1..Len(jobs') : i = Len(jobs) + 1 \/ i \in 1..Len(jobs)
          BY <5>1, <4>1
        <5>3. \A q \in Posts : turn[q] <= count /\ turn[q] \in Nat /\ turn[q] < count + 1
          BY <2>0 DEF QueueInv
        <5>4. \A i \in 1..Len(jobs) : /\ turn'[jobs'[i]] = turn[jobs[i]]
                                      /\ fate'[jobs'[i]] = fate[jobs[i]]
          BY <4>1, <4>2
        <5> QED
          BY <5>1, <5>2, <5>3, <5>4, <4>1
      <4>5. \A i \in 1..Len(jobs') : fate'[jobs'[i]] = "queued"
        BY <4>0, <4>1, <4>2 DEF QueueInv
      <4>6. \A i, j \in 1..Len(jobs') : i < j => turn'[jobs'[i]] < turn'[jobs'[j]]
        <5> SUFFICES ASSUME NEW i \in 1..Len(jobs'), NEW j \in 1..Len(jobs'), i < j
                     PROVE  turn'[jobs'[i]] < turn'[jobs'[j]]
          OBVIOUS
        <5>1. i \in 1..Len(jobs)
          BY <4>0, <4>1
        <5>2. CASE j = Len(jobs) + 1
          BY <5>1, <5>2, <4>0, <4>1, <4>2
        <5>3. CASE j \in 1..Len(jobs)
          BY <5>1, <5>3, <4>0 DEF QueueInv
        <5> QED
          BY <4>0, <5>2, <5>3
      <4>7. \A q \in Posts : fate'[q] = "queued" =>
              (q = hand /\ Owing) \/ \E i \in 1..Len(jobs') : jobs'[i] = q
        BY <2>0, <4>1, <4>2 DEF QueueInv
      <4>8. /\ Owing => fate'[hand] = "queued"
            /\ worker = "sent" => fate'[hand] \in Decided
            /\ hand # None => \A i \in 1..Len(jobs') : turn'[hand] < turn'[jobs'[i]]
        <5>1. Owing \/ worker = "sent" => hand \in Posts
          BY <2>0 DEF Owing
        <5>2. hand # None => hand # p /\ turn[hand] <= count
          BY <2>0, <3>1 DEF QueueInv, Owing, TypeOK, Decided
        <5>3. hand # None => turn'[hand] = turn[hand] /\ fate'[hand] = fate[hand]
          BY <2>0, <4>2, <5>2
        <5>4. hand # None => \A i \in 1..Len(jobs') : turn'[hand] < turn'[jobs'[i]]
          <6> SUFFICES ASSUME hand # None, NEW i \in 1..Len(jobs')
                       PROVE  turn'[hand] < turn'[jobs'[i]]
            OBVIOUS
          <6>1. CASE i = Len(jobs) + 1
            <7>1. turn[hand] \in Nat /\ count \in Nat
              BY <2>0
            <7> QED
              BY <6>1, <7>1, <4>1, <4>2, <5>2, <5>3
          <6>2. CASE i \in 1..Len(jobs)
            <7>1. turn[hand] < turn[jobs[i]]
              BY <6>2 DEF QueueInv
            <7> QED
              BY <6>2, <7>1, <4>0, <5>3
          <6> QED
            BY <4>0, <6>1, <6>2
        <5>5. Owing => fate'[hand] = "queued"
          BY <2>0, <5>1, <5>3 DEF QueueInv
        <5>6. worker = "sent" => fate'[hand] \in Decided
          BY <2>0, <5>1, <5>3 DEF QueueInv
        <5> QED
          BY <5>4, <5>5, <5>6
      <4> QED
        BY <3>1, <4>3, <4>4, <4>5, <4>6, <4>7, <4>8 DEF QueueInv, Owing
    <3>3. CASE EnqueueDropped(p)
      <4>1. /\ UNCHANGED <<jobs, count, turn>> /\ fate'[p] = "dropped"
            /\ \A q \in Posts : q # p => fate'[q] = fate[q]
        BY <2>0, <3>3 DEF EnqueueDropped, queue
      <4>2. \A i \in 1..Len(jobs) : jobs[i] \in Posts /\ jobs[i] # p
        BY <2>0, <3>1 DEF QueueInv
      <4>3. hand # p
        BY <2>0, <3>1 DEF QueueInv, Owing, TypeOK, Decided
      <4>4. hand # None => hand \in Posts /\ fate'[hand] = fate[hand]
        BY <2>0, <4>1, <4>3
      <4>5. (Owing' <=> Owing) /\ (Owing \/ worker = "sent" => hand # None)
        BY <2>0, <3>1 DEF Owing
      <4>6. \A q \in Posts : turn[q] > 0 <=> fate'[q] \notin {"new", "dropped"}
        BY <2>0, <3>1, <4>1 DEF QueueInv
      <4>7. \A q \in Posts : fate'[q] = "queued" => fate[q] = "queued"
        BY <4>1
      <4>8. \A i \in 1..Len(jobs) : fate'[jobs[i]] = "queued"
        BY <4>1, <4>2 DEF QueueInv
      <4>9. /\ Owing => fate'[hand] = "queued"
            /\ worker = "sent" => fate'[hand] \in Decided
        BY <4>4, <4>5 DEF QueueInv
      <4> QED
        BY <3>1, <4>1, <4>5, <4>6, <4>7, <4>8, <4>9 DEF QueueInv
    <3> QED
      BY <2>1, <3>2, <3>3 DEF Enqueue
  <2>2. CASE Take
    <3>1. /\ jobs' \in Seq(Posts) /\ hand' = jobs[1] /\ hand' \in Posts /\ 1 \in 1..Len(jobs)
          /\ Len(jobs') = Len(jobs) - 1
          /\ \A i \in 1..Len(jobs') : i + 1 \in 1..Len(jobs) /\ jobs'[i] = jobs[i + 1]
      BY <2>0, <2>2, TailShifts DEF Take
    <3>2. UNCHANGED <<count, turn, fate>> /\ worker' = "taken"
      BY <2>2 DEF Take
    <3>3. \A i \in 1..Len(jobs) : i = 1 \/ (i - 1 \in 1..Len(jobs') /\ jobs'[i - 1] = jobs[i])
      <4>1. Len(jobs) \in Nat
        BY <2>0
      <4>2. ASSUME NEW i \in 1..Len(jobs), i # 1
            PROVE  i - 1 \in 1..Len(jobs') /\ (i - 1) + 1 = i
        BY <3>1, <4>1, <4>2
      <4> QED
        BY <3>1, <4>2
    <3>4. \A p \in Posts : fate[p] = "queued" => \E i \in 1..Len(jobs) : jobs[i] = p
      BY <2>2 DEF QueueInv, Take, Owing
    <3>5. \A p \in Posts : fate[p] = "queued" =>
            p = hand' \/ \E i \in 1..Len(jobs') : jobs'[i] = p
      BY <3>1, <3>3, <3>4
    <3>6. /\ \A i \in 1..Len(jobs') : fate[jobs'[i]] = "queued"
          /\ \A i, j \in 1..Len(jobs') : i < j => turn[jobs'[i]] < turn[jobs'[j]]
      <4>1. ASSUME NEW i \in 1..Len(jobs') PROVE fate[jobs'[i]] = "queued"
        <5>1. i + 1 \in 1..Len(jobs) /\ jobs'[i] = jobs[i + 1]
          BY <3>1
        <5>2. fate[jobs[i + 1]] = "queued"
          BY <5>1 DEF QueueInv
        <5> QED
          BY <5>1, <5>2
      <4>2. ASSUME NEW i \in 1..Len(jobs'), NEW j \in 1..Len(jobs'), i < j
            PROVE  turn[jobs'[i]] < turn[jobs'[j]]
        <5>0. i + 1 < j + 1
          BY <4>2
        <5>1. i + 1 \in 1..Len(jobs) /\ j + 1 \in 1..Len(jobs) /\ i + 1 < j + 1
          BY <3>1, <5>0
        <5>2. turn[jobs[i + 1]] < turn[jobs[j + 1]]
          BY <5>1 DEF QueueInv
        <5> QED
          BY <3>1, <5>2
      <4> QED
        BY <4>1, <4>2
    <3>7. fate[hand'] = "queued" /\ \A i \in 1..Len(jobs') : turn[hand'] < turn[jobs'[i]]
      <4>1. \A i \in 1..Len(jobs') : 1 < i + 1
        BY <2>0, <3>1
      <4> QED
        BY <3>1, <4>1 DEF QueueInv
    <3> QED
      BY <2>0, <3>2, <3>5, <3>6, <3>7 DEF QueueInv, Owing
  <2>3. ASSUME NEW o \in Decided, Settles(o) PROVE QueueInv'
    <3>1. hand \in Posts /\ fate[hand] = "queued" /\ o \notin {"new", "dropped", "queued"}
      BY <2>0, <2>3 DEF QueueInv, Settles, Owing, Decided
    <3>2. \A p \in Posts : fate'[p] = IF p = hand THEN o ELSE fate[p]
      BY <2>0, <2>3 DEF Settles
    <3>3. \A i \in 1..Len(jobs) : jobs[i] \in Posts /\ jobs[i] # hand
      BY <2>0, <3>1 DEF QueueInv
    <3>4. /\ UNCHANGED <<jobs, count, turn>> /\ hand' = hand /\ hand # None
          /\ ~Owing' /\ worker' = "sent"
      BY <2>0, <2>3, <3>1 DEF Settles, queue, Owing
    <3> QED
      BY <2>0, <3>1, <3>2, <3>3, <3>4 DEF QueueInv
  <2>4. CASE Lower
    <3>1. UNCHANGED <<jobs, count, turn, fate>> /\ hand' = None /\ ~Owing /\ ~Owing' /\ worker' # "sent"
      BY <2>4 DEF Lower, queue, Owing
    <3> QED
      BY <2>0, <3>1 DEF QueueInv
  <2>5. CASE Quiet
    BY <2>0, <2>5 DEF QueueInv, queue, Quiet
  <2> QED
    BY <2>1, <2>2, <2>3, <2>4, <2>5, Shapes
<1> QED
  BY <1>1, <1>2, TypeSafe, PTL DEF Safe

\* The same of the notifier as it is scheduled (Poster.Enqueue, Poster.Run).
THEOREM QueueDiscipline == Spec => []QueueInv
BY QueueSafe, PTL DEF Spec, Safe

-----------------------------------------------------------------------------
\* The worker decides posts in the order Enqueue took them.
THEOREM DecidedInOrder == Spec => []OrderInv
<1>1. Init => OrderInv
  BY DEF Init, OrderInv, Decided
<1>2. TypeOK /\ QueueInv /\ OrderInv /\ [Next]_vars => OrderInv'
  <2> SUFFICES ASSUME TypeOK, QueueInv, OrderInv, [Next]_vars,
                      NEW q \in Posts, fate'[q] \in Decided
               PROVE  /\ \A i \in 1..Len(jobs') : turn'[q] < turn'[jobs'[i]]
                      /\ hand' # None /\ q # hand' => turn'[q] < turn'[hand']
    BY DEF OrderInv
  <2>0. /\ jobs \in Seq(Posts) /\ turn \in [Posts -> Nat] /\ count \in Nat
        /\ fate \in [Posts -> Fates] /\ hand \in Posts \cup {None}
        /\ (hand = None) <=> (worker \in {"idle", "exited"})
        /\ None \notin Posts
    BY NotifierAssumption DEF TypeOK
  <2>1. ASSUME NEW p \in Posts, Enqueue(p)
        PROVE  /\ \A i \in 1..Len(jobs') : turn'[q] < turn'[jobs'[i]]
               /\ hand' # None /\ q # hand' => turn'[q] < turn'[hand']
    <3>1. fate[p] = "new" /\ hand' = hand /\ hand # p
      BY <2>0, <2>1 DEF Enqueue, sending, QueueInv, Owing, TypeOK, Decided
    <3>2. CASE EnqueueTaken(p)
      <4>1. q # p /\ turn'[q] = turn[q] /\ fate'[q] = fate[q] /\ turn[q] < count + 1
        BY <2>0, <3>2 DEF EnqueueTaken, Decided, QueueInv
      <4>2. hand # None => turn'[hand] = turn[hand]
        BY <2>0, <3>1, <3>2 DEF EnqueueTaken
      <4>3. /\ Len(jobs') = Len(jobs) + 1 /\ jobs'[Len(jobs) + 1] = p /\ turn'[p] = count + 1
            /\ \A i \in 1..Len(jobs) : jobs'[i] = jobs[i] /\ jobs[i] \in Posts /\ jobs[i] # p
        BY <2>0, <3>1, <3>2, AppendAdds DEF EnqueueTaken, QueueInv
      <4>4. \A i \in 1..Len(jobs') : i = Len(jobs) + 1 \/ i \in 1..Len(jobs)
        BY <2>0, <4>3
      <4>5. \A i \in 1..Len(jobs) : turn'[jobs'[i]] = turn[jobs[i]]
        BY <2>0, <3>2, <4>3 DEF EnqueueTaken
      <4> QED
        BY <3>1, <4>1, <4>2, <4>3, <4>4, <4>5 DEF OrderInv
    <3>3. CASE EnqueueDropped(p)
      <4>1. UNCHANGED <<jobs, turn>> /\ fate'[q] = fate[q]
        BY <2>0, <3>3 DEF EnqueueDropped, queue, Decided
      <4> QED
        BY <3>1, <4>1 DEF OrderInv
    <3> QED
      BY <2>1, <3>2, <3>3 DEF Enqueue
  <2>2. CASE Take
    <3>1. /\ hand' = jobs[1] /\ 1 \in 1..Len(jobs)
          /\ \A i \in 1..Len(jobs') : i + 1 \in 1..Len(jobs) /\ jobs'[i] = jobs[i + 1]
      BY <2>0, <2>2, TailShifts DEF Take
    <3> QED
      BY <2>2, <3>1 DEF Take, OrderInv
  <2>3. ASSUME NEW o \in Decided, Settles(o)
        PROVE  /\ \A i \in 1..Len(jobs') : turn'[q] < turn'[jobs'[i]]
               /\ hand' # None /\ q # hand' => turn'[q] < turn'[hand']
    <3>1. UNCHANGED <<jobs, turn, hand>> /\ hand # None
      BY <2>0, <2>3 DEF Settles, queue, Owing
    <3>2. CASE q = hand
      BY <3>1, <3>2 DEF QueueInv
    <3>3. CASE q # hand
      BY <2>0, <2>3, <3>1, <3>3 DEF OrderInv, Settles
    <3> QED
      BY <3>2, <3>3
  <2>4. CASE Lower
    BY <2>4 DEF Lower, queue, OrderInv
  <2>5. CASE Quiet
    BY <2>5 DEF Quiet, queue, OrderInv
  <2> QED
    BY <2>1, <2>2, <2>3, <2>4, <2>5, Shapes
<1> QED
  BY <1>1, <1>2, TypeCorrect, QueueDiscipline, PTL DEF Spec

-----------------------------------------------------------------------------
\* A drain that answers zero leaves of the posts taken before it began only the
\* one in the worker's hand: out of time, or not flagged yet (Drain, Run).
THEOREM CleanDrain == Spec => []ZeroLeavesOnlyTheHand
<1>1. Init => DrainInv
  BY DEF Init, DrainInv
<1>2. TypeOK /\ QueueInv /\ DrainInv /\ [Next]_vars => DrainInv'
  <2> SUFFICES ASSUME TypeOK, QueueInv, DrainInv, [Next]_vars PROVE DrainInv'
    OBVIOUS
  <2>0. /\ early \subseteq Posts /\ fate \in [Posts -> Fates]
        /\ (hand = None) <=> (worker \in {"idle", "exited"})
        /\ inflight <=> worker \in {"trying", "calling", "backoff", "sent"}
        /\ worker \in {"idle", "taken", "trying", "calling", "backoff", "sent", "exited"}
        /\ None \notin Posts /\ hand \in Posts \cup {None}
    BY NotifierAssumption DEF TypeOK
  <2>1. ASSUME UNCHANGED draining,
               \A p \in early : fate'[p] = fate[p] \/ fate'[p] \in Decided,
               \A p \in early : fate[p] = "queued" /\ p = hand =>
                 hand' = hand \/ fate'[p] # "queued"
        PROVE  DrainInv'
    BY <2>1 DEF DrainInv, draining, Decided
  <2>2. ASSUME NEW p \in Posts, Enqueue(p) PROVE DrainInv'
    <3>1. fate[p] = "new" /\ UNCHANGED draining /\ hand' = hand /\ p \notin early
      BY <2>2 DEF Enqueue, sending, DrainInv
    <3>2. \A e \in early : fate'[e] = fate[e]
      BY <2>0, <2>2, <3>1 DEF Enqueue, EnqueueTaken, EnqueueDropped
    <3> QED
      BY <2>1, <3>1, <3>2
  <2>3. CASE Take
    BY <2>0, <2>1, <2>3 DEF Take
  <2>4. ASSUME NEW o \in Decided, Settles(o), UNCHANGED draining PROVE DrainInv'
    BY <2>0, <2>1, <2>4 DEF Settles
  <2>5. CASE Lower
    BY <2>0, <2>1, <2>5 DEF Lower, QueueInv, Decided
  <2>6. CASE Quiet /\ UNCHANGED draining
    BY <2>1, <2>6 DEF Quiet
  <2>7. CASE DrainBegin
    BY <2>7 DEF DrainBegin, DrainInv, QueueInv
  <2>8. CASE DrainLooksAtQueue
    <3>1. jobs = << >> => \A p \in early : fate[p] = "queued" => p = hand
      BY <2>0 DEF QueueInv
    <3> QED
      BY <2>8, <3>1 DEF DrainLooksAtQueue, DrainInv, sending
  <2>9. CASE DrainLooksAtFlag
    <3>1. ~inflight => \A p \in early : p = hand => worker = "taken"
      BY <2>0
    <3> QED
      BY <2>9, <3>1 DEF DrainLooksAtFlag, DrainInv, sending
  <2>10. CASE DrainWait
    <3>1. Len(jobs) = 0 => \A p \in early : fate[p] = "queued" => p = hand
      BY <2>0 DEF QueueInv
    <3> QED
      BY <2>10, <3>1 DEF DrainWait, DrainInv, sending
  <2>11. CASE BudgetSpent
    BY <2>11 DEF BudgetSpent, DrainInv, sending
  <2>12. DrainBegin \/ DrainStep \/ BudgetSpent \/ UNCHANGED draining
    BY DEF Next, Enqueue, WorkerStep, Take, Raise, Dial, Unsent, Answered, Settle, Backoff,
           Lower, RunReturn, Beyond, Forward, Land, Reject, LandLate, GatewayClose, Stop, vars
  <2> QED
    BY <2>2, <2>3, <2>4, <2>5, <2>6, <2>7, <2>8, <2>9, <2>10, <2>11, <2>12, Shapes DEF DrainStep
<1>3. TypeOK /\ DrainInv => ZeroLeavesOnlyTheHand
  BY DEF TypeOK, DrainInv, ZeroLeavesOnlyTheHand, Fates, Decided
<1> QED
  BY <1>1, <1>2, <1>3, TypeCorrect, QueueDiscipline, PTL DEF Spec

-----------------------------------------------------------------------------
(* The channel. *)

SlackInv == ChannelInv /\ NoneTwice /\ FirmInOrder

\* A step that moves no message and settles none that may have left.
Steady ==
  /\ UNCHANGED <<late, channel, relayed>>
  /\ \A p \in Posts : fate[p] \in Told \/ fate'[p] \in Told => fate'[p] = fate[p]
  /\ \A p \in Posts : turn[p] > 0 => turn'[p] = turn[p]
  /\ \A p \in Posts : Landed(p)' <=> Landed(p)

LEMMA SteadySlack ==
  ASSUME TypeOK, QueueInv, SlackInv, Steady
  PROVE  SlackInv'
<1>1. late \subseteq Posts
  BY DEF TypeOK
<1>2. \A p \in Posts : Firm(p)' <=> Firm(p)
  BY DEF Steady, Firm, Told
<1>3. \A p \in Posts : Firm(p) => turn'[p] = turn[p]
  BY DEF QueueInv, Firm, Landed, Owing, Steady
<1>4. \A p \in Posts, i \in Nat : At(i, p)' <=> At(i, p)
  BY DEF Steady, At
<1>5. ChannelInv'
  BY <1>1, <1>2, <1>4 DEF Steady, SlackInv, ChannelInv, Told
<1>6. FirmInOrder'
  BY <1>2, <1>3, <1>4 DEF Steady, SlackInv, FirmInOrder
<1>7. NoneTwice'
  BY <1>4 DEF Steady, SlackInv, NoneTwice
<1> QED
  BY <1>5, <1>6, <1>7 DEF SlackInv

\* A message lands at the end of the channel.
LEMMA Landing ==
  ASSUME TypeOK, SlackInv, NEW p \in Posts, channel' = Append(channel, p),
         UNCHANGED <<fate, turn, relayed>>,
         late' \subseteq late,
         p \notin relayed =>
           /\ \A i \in Nat : ~At(i, p)
           /\ p \notin late'
           /\ fate[p] \in Told \/ Landed(p)',
         \A q \in Posts : q # p => (Firm(q)' <=> Firm(q)) /\ (Landed(q)' <=> Landed(q)),
         p \notin relayed /\ Firm(p)' =>
           \A q \in Posts : q # p /\ Firm(q) => turn[q] < turn[p]
  PROVE  SlackInv'
<1>1. channel \in Seq(Posts) /\ Len(channel) \in Nat
  BY DEF TypeOK
<1>2. \A q \in Posts, i \in Nat : At(i, q)' <=> At(i, q) \/ (q = p /\ i = Len(channel) + 1)
  BY <1>1, AppendAdds DEF At
<1>3. \A q \in Posts, i \in Nat : At(i, q) => i < Len(channel) + 1
  BY <1>1 DEF At
<1>4. NoneTwice'
  BY <1>2 DEF SlackInv, NoneTwice
<1>5. ChannelInv'
  <2>1. \A q \in late' \ relayed' : fate'[q] = "unknown"
    BY DEF SlackInv, ChannelInv
  <2>2. \A q \in Posts \ relayed', i \in Nat : At(i, q)' =>
          q \notin late' /\ (fate'[q] \in Told \/ Landed(q)')
    BY <1>2 DEF SlackInv, ChannelInv
  <2>3. \A q \in Posts : Firm(q)' => \E i \in Nat : At(i, q)'
    BY <1>1, <1>2 DEF SlackInv, ChannelInv
  <2> QED
    BY <2>1, <2>2, <2>3 DEF ChannelInv
<1>6. FirmInOrder'
  <2> SUFFICES ASSUME NEW q \in Posts \ relayed, NEW r \in Posts \ relayed,
                      NEW i \in Nat, NEW j \in Nat, i < j,
                      At(i, q)', At(j, r)', Firm(q)', Firm(r)'
               PROVE  turn'[q] < turn'[r]
    BY DEF FirmInOrder
  <2>1. At(i, q) /\ q # p
    BY <1>1, <1>2, <1>3
  <2>2. CASE r = p
    BY <2>1, <2>2
  <2>3. CASE r # p
    BY <1>2, <2>1, <2>3 DEF SlackInv, FirmInOrder
  <2> QED
    BY <2>2, <2>3
<1> QED
  BY <1>4, <1>5, <1>6 DEF SlackInv

\* What has left the gateway is settled for good, unless it has just landed or
\* a 503 from beyond the gateway had it sent again.
THEOREM ChannelDiscipline == Spec => []SlackInv
<1>1. Init => SlackInv
  BY DEF Init, SlackInv, ChannelInv, NoneTwice, FirmInOrder, At, Firm, Landed
<1>2. TypeOK /\ QueueInv /\ OrderInv /\ SlackInv /\ [Next]_vars => SlackInv'
  <2> SUFFICES ASSUME TypeOK, QueueInv, OrderInv, SlackInv, [Next]_vars PROVE SlackInv'
    OBVIOUS
  <2>0. /\ turn \in [Posts -> Nat] /\ fate \in [Posts -> Fates]
        /\ hand \in Posts \cup {None} /\ None \notin Posts
        /\ (hand = None) <=> (worker \in {"idle", "exited"})
        /\ worker # "calling" => beyond = "gateway"
        /\ late \subseteq Posts /\ channel \in Seq(Posts)
    BY NotifierAssumption DEF TypeOK
  <2>1. ASSUME NEW p \in Posts, Enqueue(p) PROVE SlackInv'
    <3>1. /\ UNCHANGED <<late, channel, relayed, worker, hand, beyond>>
          /\ turn[p] = 0 /\ fate[p] = "new" /\ fate'[p] \notin Told
          /\ \A q \in Posts : q # p => fate'[q] = fate[q] /\ turn'[q] = turn[q]
      BY <2>0, <2>1 DEF Enqueue, EnqueueTaken, EnqueueDropped, sending, slack, queue,
                        QueueInv, Told
    <3>2. Steady
      BY <3>1 DEF Steady, Told, Landed
    <3> QED
      BY <3>2, SteadySlack
  <2>2. ASSUME UNCHANGED <<late, channel, relayed, fate, turn>>, beyond # "landed", beyond' # "landed"
        PROVE  SlackInv'
    BY <2>2, SteadySlack DEF Steady, Landed
  <2>3. CASE Take \/ Raise \/ Dial \/ Lower \/ RunReturn
    BY <2>0, <2>2, <2>3 DEF Take, Raise, Dial, Lower, RunReturn, slack, queue
  <2>4. CASE Forward \/ Reject
    BY <2>2, <2>4 DEF Forward, Reject, queue
  <2>5. CASE Unsent
    <3>1. PICK h \in {"unsent", "undialled"} : Settle(h)
      BY <2>5 DEF Unsent
    <3>2. hand \in Posts /\ fate[hand] = "queued" /\ worker = "trying"
      BY <2>0, <2>5 DEF Unsent, QueueInv, Owing
    <3>3. classify(h) = "refused"
      BY <3>1 DEF classify
    <3>4. /\ fate' = fate \/ fate' = [fate EXCEPT ![hand] = "refused"]
          /\ turn' = turn
      BY <3>1, <3>3 DEF Settle, queue
    <3>5. UNCHANGED <<late, channel, relayed, beyond>> /\ beyond = "gateway"
      BY <2>0, <2>5, <3>2 DEF Unsent, slack
    <3> QED
      BY <2>0, <3>2, <3>4, <3>5, SteadySlack DEF Steady, Landed, Told
  <2>6. CASE Backoff
    <3>1. /\ hand \in Posts /\ fate[hand] = "queued" /\ beyond = "gateway"
          /\ fate' = fate \/ fate' = [fate EXCEPT ![hand] = "abandoned"]
          /\ UNCHANGED <<turn, late, channel, relayed, beyond>>
      BY <2>0, <2>6 DEF Backoff, QueueInv, Owing, queue, slack
    <3> QED
      BY <2>0, <3>1, SteadySlack DEF Steady, Landed, Told
  <2>7. CASE Land
    <3>1. /\ channel' = Append(channel, hand) /\ UNCHANGED <<fate, turn, late, relayed, hand, worker>>
          /\ beyond = "wire" /\ beyond' = "landed" /\ worker = "calling"
      BY <2>0, <2>7 DEF Land, queue, sending
    <3>2. hand \in Posts /\ fate[hand] = "queued"
      BY <2>0, <3>1 DEF QueueInv, Owing
    <3>3. hand \notin relayed => hand \notin late /\ \A i \in Nat : ~At(i, hand)
      BY <3>1, <3>2 DEF SlackInv, ChannelInv, Told, Landed
    <3>4. \A q \in Posts : q # hand => (Firm(q)' <=> Firm(q)) /\ (Landed(q)' <=> Landed(q))
      BY <3>1 DEF Firm, Landed
    <3>5. \A q \in Posts : q # hand /\ Firm(q) => turn[q] < turn[hand]
      BY <2>0, <3>1, <3>2 DEF OrderInv, Firm, Landed, Decided
    <3>6. \A p \in Posts : p = hand => Landed(p)'
      BY <3>1 DEF Landed
    <3>7. PICK p \in Posts : p = hand
      BY <3>2
    <3>8. /\ channel' = Append(channel, p)
          /\ p \notin relayed => p \notin late' /\ \A i \in Nat : ~At(i, p)
          /\ late' \subseteq late /\ Landed(p)'
          /\ \A q \in Posts : q # p => (Firm(q)' <=> Firm(q)) /\ (Landed(q)' <=> Landed(q))
          /\ \A q \in Posts : q # p /\ Firm(q) => turn[q] < turn[p]
      BY <3>1, <3>3, <3>4, <3>5, <3>6, <3>7
    <3> QED
      BY <3>1, <3>8, Landing
  <2>8. ASSUME NEW p \in Posts, LandLate(p) PROVE SlackInv'
    <3>1. /\ channel' = Append(channel, p) /\ p \in late /\ late' = late \ {p}
          /\ UNCHANGED <<fate, turn, relayed, hand, worker, beyond>>
      BY <2>8 DEF LandLate, queue, sending
    <3>2. p \notin relayed => fate[p] = "unknown" /\ \A i \in Nat : ~At(i, p)
      BY <3>1 DEF SlackInv, ChannelInv
    <3>3. p \notin relayed => ~Landed(p)
      BY <3>2 DEF Landed, QueueInv, Owing
    <3>4. \A q \in Posts : (Firm(q)' <=> Firm(q)) /\ (Landed(q)' <=> Landed(q))
      BY <3>1 DEF Firm, Landed
    <3>5. p \notin relayed => ~Firm(p)'
      BY <3>2, <3>3, <3>4 DEF Firm
    <3> QED
      BY <3>1, <3>2, <3>4, <3>5, Landing DEF Told
  <2>9. ASSUME NEW h \in Happenings, Answered(h) PROVE SlackInv'
    <3>1. /\ worker = "calling" /\ Settle(h) /\ beyond \in Befalls(h) /\ channel' = channel
          /\ beyond' = "gateway"
          /\ late' = IF beyond = "wire" THEN late \cup {hand} ELSE late
          /\ relayed' = IF h = "unavailable" /\ beyond # "gateway" THEN relayed \cup {hand} ELSE relayed
      BY <2>9 DEF Answered
    <3>2. hand \in Posts /\ fate[hand] = "queued"
      BY <2>0, <3>1 DEF QueueInv, Owing
    <3>3. turn' = turn /\ hand' = hand /\ \A q \in Posts : ~Landed(q)'
      BY <3>1 DEF Settle, queue, Landed
    <3>4. \A p \in Posts, i \in Nat : At(i, p)' <=> At(i, p)
      BY <3>1 DEF At
    <3>5. beyond # "landed" /\ hand \notin relayed => ~Firm(hand) /\ \A i \in Nat : ~At(i, hand)
      BY <3>2 DEF SlackInv, ChannelInv, Told, Firm, Landed
    <3>9. classify("unavailable") = "refused"
      BY DEF classify
    <3>6. CASE classify(h) = "posted"
      <4>1. fate' = [fate EXCEPT ![hand] = "posted"]
        BY <3>1, <3>6 DEF Settle
      <4>2. beyond = "landed" /\ late' = late
        BY <3>1, <3>6, Classified
      <4>3. \A q \in Posts : Firm(q)' <=> Firm(q)
        BY <2>0, <3>1, <3>2, <3>3, <4>1, <4>2 DEF Firm, Landed
      <4>4. /\ \A q \in Posts : fate[q] \in Told => fate'[q] = fate[q]
            /\ \A q \in Posts : Landed(q) => fate'[q] \in Told
        BY <2>0, <3>2, <4>1 DEF Told, Landed
      <4>5. relayed' = relayed /\ (hand \notin relayed => hand \notin late)
        BY <3>1, <3>2, <3>6, <3>9 DEF SlackInv, ChannelInv
      <4>6. ChannelInv'
        BY <2>0, <3>2, <3>4, <4>1, <4>2, <4>3, <4>4, <4>5 DEF SlackInv, ChannelInv
      <4> QED
        BY <3>3, <3>4, <4>3, <4>5, <4>6 DEF SlackInv, NoneTwice, FirmInOrder
    <3>7. CASE classify(h) = "ambiguous"
      <4>1. fate' = [fate EXCEPT ![hand] = "unknown"]
        BY <3>1, <3>7 DEF Settle
      <4>2. \A q \in Posts : Firm(q)' <=> Firm(q) /\ q # hand
        BY <2>0, <3>1, <3>2, <3>3, <4>1 DEF Firm, Landed
      <4>3. \A q \in Posts : fate'[q] = IF q = hand THEN "unknown" ELSE fate[q]
        BY <2>0, <3>2, <4>1
      <4>8. relayed' = relayed
        BY <3>1, <3>7, <3>9
      <4>4. \A q \in Posts \ relayed, i \in Nat : At(i, q) => q \notin late'
        BY <3>1, <3>5 DEF SlackInv, ChannelInv
      <4>5. \A q \in late' \ relayed : q \in Posts /\ fate'[q] = "unknown"
        BY <2>0, <3>1, <3>2, <4>3 DEF SlackInv, ChannelInv
      <4>6. \A q \in Posts \ relayed, i \in Nat : At(i, q) => fate'[q] \in Told
        BY <4>3 DEF SlackInv, ChannelInv, Told, Landed
      <4>7. ChannelInv'
        BY <3>4, <4>2, <4>4, <4>5, <4>6, <4>8 DEF SlackInv, ChannelInv
      <4> QED
        BY <3>3, <3>4, <4>2, <4>7, <4>8 DEF SlackInv, NoneTwice, FirmInOrder
    <3>8. CASE classify(h) = "refused"
      <4>1. fate' = fate \/ fate' = [fate EXCEPT ![hand] = "refused"]
        BY <3>1, <3>8 DEF Settle
      <4>2. CASE beyond \in {"gateway", "rejected"} /\ relayed' = relayed
        <5>1. late' = late
          BY <3>1, <4>2
        <5> QED
          BY <2>0, <3>1, <3>2, <3>3, <4>1, <4>2, <5>1, SteadySlack DEF Steady, Landed, Told
      <4>3. CASE relayed' = relayed \cup {hand}
        <5>1. late' \subseteq late \cup {hand}
          BY <3>1
        <5>2. \A q \in Posts : q # hand => fate'[q] = fate[q] /\ (Firm(q)' <=> Firm(q)) /\ ~Landed(q)
          BY <2>0, <3>2, <3>3, <4>1 DEF Firm, Landed
        <5>3. ~Firm(hand)'
          BY <2>0, <3>2, <3>3, <4>1 DEF Firm
        <5>4. ChannelInv'
          <6>1. \A q \in late' \ relayed' : fate'[q] = "unknown"
            BY <2>0, <4>3, <5>1, <5>2 DEF SlackInv, ChannelInv
          <6>2. \A q \in Posts \ relayed', i \in Nat :
                  At(i, q)' => q \notin late' /\ (fate'[q] \in Told \/ Landed(q)')
            BY <3>4, <4>3, <5>1, <5>2 DEF SlackInv, ChannelInv
          <6>3. \A q \in Posts : Firm(q)' => \E i \in Nat : At(i, q)'
            <7>1. \A q \in Posts : Firm(q)' => q # hand /\ Firm(q)
              BY <3>3, <5>2, <5>3
            <7>2. \A q \in Posts : Firm(q) => \E i \in Nat : At(i, q)
              BY DEF SlackInv, ChannelInv
            <7> QED
              BY <3>4, <7>1, <7>2
          <6> QED
            BY <6>1, <6>2, <6>3 DEF ChannelInv
        <5>5. FirmInOrder'
          BY <3>3, <3>4, <4>3, <5>2 DEF SlackInv, FirmInOrder
        <5> QED
          BY <3>4, <4>3, <5>4, <5>5 DEF SlackInv, NoneTwice
      <4>4. (beyond \in {"gateway", "rejected"} /\ relayed' = relayed) \/ relayed' = relayed \cup {hand}
        BY <3>1, <3>8, Classified DEF Befalls
      <4> QED
        BY <4>2, <4>3, <4>4
    <3> QED
      BY <3>6, <3>7, <3>8, Classified DEF Outcomes
  <2>10. CASE DrainBegin \/ DrainStep \/ BudgetSpent \/ GatewayClose \/ Stop \/ UNCHANGED vars
    <3>1. UNCHANGED <<fate, turn, late, channel, relayed, hand, worker, beyond>>
      BY <2>10 DEF DrainBegin, DrainStep, DrainLooksAtQueue, DrainLooksAtFlag, DrainWait,
                   BudgetSpent, GatewayClose, Stop, vars, queue, sending, slack
    <3> QED
      BY <3>1, SteadySlack DEF Steady, Landed
  <2> QED
    BY <2>1, <2>3, <2>4, <2>5, <2>6, <2>7, <2>8, <2>9, <2>10 DEF Next, WorkerStep, Beyond
<1> QED
  BY <1>1, <1>2, TypeCorrect, QueueDiscipline, DecidedInOrder, PTL DEF Spec

\* No message appears twice but one that a 503 from beyond the gateway had sent
\* again: whatever the number of attempts, only an attempt that left nothing
\* behind, or seemed to, is followed by another (outcome, send).
THEOREM PostedOnce == Spec => []TwiceOnlyRelayed
<1>1. TypeOK /\ SlackInv => TwiceOnlyRelayed
  BY DEF TypeOK, SlackInv, NoneTwice, TwiceOnlyRelayed, At
<1> QED
  BY <1>1, TypeCorrect, ChannelDiscipline, PTL

\* The channel shows the messages reported posted in the order Enqueue took
\* them, whatever was retried, given up on or landed late in between, but for
\* those such a 503 had sent again (Run).
THEOREM InOrder == Spec => []PostedInOrder
<1>1. ASSUME TypeOK, SlackInv PROVE PostedInOrder
  <2>1. \A p \in Posts : fate[p] = "posted" => \E i \in 1..Len(channel) : channel[i] = p
    BY <1>1 DEF SlackInv, ChannelInv, At, Firm
  <2>2. \A i \in 1..Len(channel) : channel[i] \in Posts
    BY <1>1 DEF TypeOK
  <2>3. ASSUME NEW i \in 1..Len(channel), NEW j \in 1..Len(channel), i < j,
               fate[channel[i]] = "posted", fate[channel[j]] = "posted",
               channel[i] \notin relayed, channel[j] \notin relayed
        PROVE  turn[channel[i]] < turn[channel[j]]
    <3>1. /\ i \in Nat /\ j \in Nat
          /\ channel[i] \in Posts \ relayed /\ channel[j] \in Posts \ relayed
          /\ At(i, channel[i]) /\ At(j, channel[j]) /\ Firm(channel[i]) /\ Firm(channel[j])
      BY <1>1, <2>2, <2>3 DEF TypeOK, At, Firm
    <3> QED
      BY <1>1, <2>3, <3>1 DEF SlackInv, FirmInOrder
  <2> QED
    BY <2>1, <2>3 DEF PostedInOrder
<1> QED
  BY <1>1, TypeCorrect, ChannelDiscipline, PTL

-----------------------------------------------------------------------------
(* The replica that goes down around the notifier (Shutdown). *)

Left(s) == server[s] = "left"

\* main has called Drain.
Called == phase \in {"drain", "join", "exited"}

\* Which servers main has left, and who may still be at work.
DownInv ==
  /\ phase \in {"data", "mcp", "admin", "bridge"} \/ Called => Left("inbound")
  /\ phase \in {"mcp", "admin", "bridge"} \/ Called => Left("data")
  /\ phase \in {"admin", "bridge"} \/ Called => Left("mcp")
  /\ phase = "bridge" \/ Called => Left("admin")
  /\ bridge = "done" => "bridge" \notin busy
  /\ ~spent => \A s \in Servers : Left(s) => s \notin busy
  /\ ~spent /\ Called => bridge = "done"

\* Drain begins where main calls it, and what it answers within the budget
\* stands because nobody is left who could file.
DrainedInv ==
  /\ drain = "no" <=> ~Called
  /\ ~spent /\ drain \in {"flag", "answered"} => jobs = << >>
  /\ phase \in {"join", "exited"} => drain = "answered"
  /\ phase = "exited" => worker = "exited"

\* main closes four listeners.
LEMMA FourServers == Servers = {"inbound", "data", "mcp", "admin"}
<1>1. /\ Len(Order) = 4
      /\ Order[1] = "inbound" /\ Order[2] = "data" /\ Order[3] = "mcp" /\ Order[4] = "admin"
  BY DEF Order
<1>2. \A s : s \in Servers <=> \E i \in 1..4 : s = Order[i]
  BY <1>1 DEF Servers
<1>3. \A i : i \in 1..4 <=> i = 1 \/ i = 2 \/ i = 3 \/ i = 4
  OBVIOUS
<1> QED
  BY <1>1, <1>2, <1>3

\* The notifier of a replica that goes down is the notifier: main, its
\* handlers and its bridge only ever call it.
LEMMA NotifierStep == [SNext]_svars => [Next]_vars
<1> SUFFICES ASSUME [SNext]_svars PROVE [Next]_vars
  OBVIOUS
<1>1. CASE \E s \in Servers : Arrive(s) \/ Leave(s)
  BY <1>1 DEF Arrive, Leave
<1>2. CASE TakeEvent \/ BridgeReturn \/ Terminate \/ ListenerDies \/ JoinPoster
  BY <1>2 DEF TakeEvent, BridgeReturn, Terminate, ListenerDies, JoinPoster
<1>3. CASE \E a \in busy : Return(a)
  BY <1>3 DEF Return
<1>4. CASE \E p \in Posts : File(p)
  BY <1>4 DEF File, Next
<1>5. CASE WorkerStep \/ Beyond
  BY <1>5 DEF Next
<1>6. ASSUME NEW s \in Servers, Close(s) PROVE [Next]_vars
  BY <1>6 DEF Close, Next
<1>7. CASE JoinBridge \/ Draining \/ StopPoster
  BY <1>7 DEF JoinBridge, Draining, StopPoster, Next
<1>8. CASE BudgetEnds
  BY <1>8 DEF BudgetEnds, Next
<1>9. CASE UNCHANGED svars
  BY <1>9 DEF svars
<1> QED
  BY <1>1, <1>2, <1>3, <1>4, <1>5, <1>6, <1>7, <1>8, <1>9 DEF SNext, MainStep

\* Shutdown implements the notifier's safety part, step for step.
THEOREM NotifierInside == SSpec => Safe
<1>1. SInit => Init
  BY DEF SInit
<1> QED
  BY <1>1, NotifierStep, PTL DEF SSpec, Safe

\* The invariant of a replica that goes down.
SInv == STypeOK /\ DownInv /\ DrainedInv

\* The steps of the listeners and of the bridge.
LEMMA WorkSteps ==
  ASSUME TypeOK, SInv,
         \/ \E s \in Servers \cap Users : Arrive(s)
         \/ "bridge" \in Users /\ TakeEvent
         \/ \E a \in busy : Return(a)
         \/ BridgeReturn
  PROVE  SInv'
<1>0. UNCHANGED vars /\ UNCHANGED <<phase, server>>
  BY DEF Arrive, TakeEvent, Return, BridgeReturn
<1>1. UNCHANGED <<jobs, worker, listening, stopped, drain, spent>>
  BY <1>0 DEF vars, queue, sending, control, draining
<1>2. ASSUME NEW s \in Servers \cap Users, Arrive(s) PROVE SInv'
  <2>1. server[s] = "up" /\ busy' = busy \cup {s} /\ bridge' = bridge /\ s # "bridge"
    BY <1>2, FourServers DEF Arrive
  <2>2. STypeOK'
    BY <1>0, <1>1, <2>1 DEF SInv, STypeOK
  <2>3. DownInv'
    BY <1>0, <1>1, <2>1 DEF SInv, DownInv, Left, Called
  <2>4. DrainedInv'
    BY <1>0, <1>1 DEF SInv, DrainedInv, Called
  <2> QED
    BY <2>2, <2>3, <2>4 DEF SInv
<1>3. CASE "bridge" \in Users /\ TakeEvent
  <2>1. bridge # "done" /\ busy' = busy \cup {"bridge"} /\ bridge' = bridge /\ "bridge" \notin Servers
    BY <1>3, FourServers DEF TakeEvent
  <2>2. STypeOK'
    BY <1>0, <1>1, <1>3, <2>1 DEF SInv, STypeOK
  <2>3. DownInv'
    BY <1>0, <1>1, <2>1 DEF SInv, DownInv, Left, Called
  <2>4. DrainedInv'
    BY <1>0, <1>1 DEF SInv, DrainedInv, Called
  <2> QED
    BY <2>2, <2>3, <2>4 DEF SInv
<1>4. ASSUME NEW a \in busy, Return(a) PROVE SInv'
  <2>1. busy' \subseteq busy /\ bridge' = bridge
    BY <1>4 DEF Return
  <2>2. STypeOK'
    BY <1>0, <1>1, <2>1 DEF SInv, STypeOK
  <2>3. DownInv'
    BY <1>0, <1>1, <2>1 DEF SInv, DownInv, Left, Called
  <2>4. DrainedInv'
    BY <1>0, <1>1 DEF SInv, DrainedInv, Called
  <2> QED
    BY <2>2, <2>3, <2>4 DEF SInv
<1>5. CASE BridgeReturn
  <2>1. "bridge" \notin busy /\ busy' = busy /\ bridge' = "done"
    BY <1>5 DEF BridgeReturn
  <2>2. STypeOK'
    BY <1>0, <1>1, <2>1 DEF SInv, STypeOK
  <2>3. DownInv'
    BY <1>0, <1>1, <2>1 DEF SInv, DownInv, Left, Called
  <2>4. DrainedInv'
    BY <1>0, <1>1 DEF SInv, DrainedInv, Called
  <2> QED
    BY <2>2, <2>3, <2>4 DEF SInv
<1> QED
  BY <1>2, <1>3, <1>4, <1>5

\* Nobody files once the last filer has returned, which in a shutdown within
\* its budget is before main calls Drain.
LEMMA NoneLeftToFile ==
  ASSUME SInv, ~spent, Called
  PROVE  busy = {}
<1>1. \A s \in Servers : s \notin busy
  BY FourServers DEF SInv, DownInv, Left
<1>2. "bridge" \notin busy
  BY DEF SInv, DownInv
<1> QED
  BY <1>1, <1>2, ShutdownAssumption DEF SInv, STypeOK

\* A step of the notifier that main does not take.
LEMMA NotifierAside ==
  ASSUME SInv, UNCHANGED life, UNCHANGED <<drain, listening, stopped>>,
         spent => spent',
         jobs = << >> => jobs' = << >> \/ ~(~spent /\ Called),
         worker = "exited" => worker' = "exited"
  PROVE  SInv'
<1>1. STypeOK'
  BY DEF SInv, STypeOK, life
<1>2. DownInv'
  BY DEF SInv, DownInv, Left, Called, life
<1>3. DrainedInv'
  <2>1. Called' <=> Called
    BY DEF Called, life
  <2>2. drain \in {"flag", "answered"} => Called
    BY DEF SInv, DrainedInv
  <2> QED
    BY <2>1, <2>2 DEF SInv, DrainedInv, life
<1> QED
  BY <1>1, <1>2, <1>3 DEF SInv

\* A queue the worker, or Slack, acts beside does not fill.
LEMMA EmptyStays ==
  ASSUME WorkerStep \/ Beyond
  PROVE  /\ UNCHANGED <<drain, spent, listening, stopped>>
         /\ jobs = << >> => jobs' = << >>
         /\ worker = "exited" => worker' = "exited"
<1>1. CASE Take
  BY <1>1 DEF Take, control, draining
<1>2. CASE Raise \/ Dial \/ Lower \/ RunReturn
  BY <1>2 DEF Raise, Dial, Lower, RunReturn, queue, control, draining
<1>3. CASE Unsent
  <2>1. PICK h \in {"unsent", "undialled"} : Settle(h)
    BY <1>3 DEF Unsent
  <2> QED
    BY <1>3, <2>1 DEF Unsent, Settle, queue, control, draining
<1>4. CASE Backoff
  BY <1>4 DEF Backoff, queue, control, draining
<1>5. ASSUME NEW h \in Happenings, Answered(h)
      PROVE  /\ UNCHANGED <<drain, spent, listening, stopped>>
             /\ jobs = << >> => jobs' = << >>
             /\ worker = "exited" => worker' = "exited"
  BY <1>5 DEF Answered, Settle, queue, control, draining
<1>6. CASE Beyond
  BY <1>6 DEF Beyond, Forward, Land, Reject, LandLate, queue, sending, control, draining
<1> QED
  BY <1>1, <1>2, <1>3, <1>4, <1>5, <1>6 DEF WorkerStep

\* main closes its listeners and leaves them.
LEMMA ServerSteps ==
  ASSUME TypeOK, SInv, NEW s \in Servers, Close(s) \/ Leave(s)
  PROVE  SInv'
<1>0. s \in {"inbound", "data", "mcp", "admin"} /\ server \in [Servers -> {"up", "closing", "left"}]
  BY FourServers DEF SInv, STypeOK
<1>1. CASE Close(s)
  <2>1. /\ phase = s /\ server[s] = "up" /\ UNCHANGED <<phase, bridge, busy>>
        /\ server' = [server EXCEPT ![s] = "closing"]
    BY <1>1 DEF Close
  <2>2. /\ UNCHANGED <<jobs, worker, stopped, drain, spent>>
        /\ listening' = IF s = "mcp" THEN FALSE ELSE listening
    BY <1>1 DEF Close, GatewayClose, vars, queue, sending, control, draining
  <2>3. \A t \in Servers : server'[t] = IF t = s THEN "closing" ELSE server[t]
    BY <1>0, <2>1
  <2>4. listening' <=> server'["mcp"] = "up"
    BY <2>2, <2>3, FourServers DEF SInv, STypeOK
  <2>5. server' \in [Servers -> {"up", "closing", "left"}]
    BY <1>0, <2>1
  <2>6. STypeOK'
    BY <2>1, <2>2, <2>4, <2>5 DEF SInv, STypeOK
  <2>7. \A t \in Servers : Left(t)' <=> Left(t)
    BY <2>1, <2>3 DEF Left
  <2>8. Called' <=> Called
    BY <2>1 DEF Called
  <2>9. DownInv'
    BY <2>1, <2>2, <2>7, <2>8, FourServers DEF SInv, DownInv
  <2>10. DrainedInv'
    BY <2>1, <2>2, <2>8 DEF SInv, DrainedInv
  <2> QED
    BY <2>6, <2>9, <2>10 DEF SInv
<1>2. CASE Leave(s)
  <2>1. /\ phase = s /\ server[s] = "closing" /\ phase' = After(s) /\ busy' = busy
        /\ server' = [server EXCEPT ![s] = "left"]
        /\ bridge' = IF s = "inbound" THEN "stopping" ELSE bridge
        /\ spent \/ s \notin busy
    BY <1>2 DEF Leave
  <2>2. UNCHANGED <<jobs, worker, listening, stopped, drain, spent>>
    BY <1>2 DEF Leave, vars, queue, sending, control, draining
  <2>3. \A t \in Servers : server'[t] = IF t = s THEN "left" ELSE server[t]
    BY <1>0, <2>1
  <2>4. phase' \in {"data", "mcp", "admin", "bridge"} /\ ~Called /\ ~Called'
    BY <1>0, <2>1 DEF After, Called
  <2>5. listening' <=> server'["mcp"] = "up"
    BY <2>1, <2>2, <2>3, FourServers DEF SInv, STypeOK
  <2>6. STypeOK'
    <3>1. server' \in [Servers -> {"up", "closing", "left"}]
      BY <1>0, <2>1
    <3>2. bridge' \in {"up", "stopping", "done"}
      BY <2>1 DEF SInv, STypeOK
    <3>3. phase' \in Servers \cup {"bridge"}
      BY <2>4, FourServers
    <3>4. ~stopped /\ ~stopped'
      BY <2>2, <2>4 DEF SInv, STypeOK, Called
    <3> QED
      BY <2>1, <2>4, <2>5, <3>1, <3>2, <3>3, <3>4 DEF SInv, STypeOK
  <2>7. DownInv'
    <3>1. \A t \in Servers : Left(t)' <=> (t = s \/ Left(t))
      BY <2>3 DEF Left
    <3>2. /\ phase' = "data" => s = "inbound"
          /\ phase' = "mcp" => s = "data"
          /\ phase' = "admin" => s = "mcp"
          /\ phase' = "bridge" => s = "admin"
      BY <1>0, <2>1 DEF After
    <3>3. /\ phase' \in {"data", "mcp", "admin", "bridge"} => Left("inbound")'
          /\ phase' \in {"mcp", "admin", "bridge"} => Left("data")'
          /\ phase' \in {"admin", "bridge"} => Left("mcp")'
          /\ phase' = "bridge" => Left("admin")'
      BY <2>1, <3>1, <3>2, FourServers DEF SInv, DownInv
    <3>4. bridge' = "done" => "bridge" \notin busy'
      BY <2>1 DEF SInv, DownInv
    <3>5. ~spent' => \A t \in Servers : Left(t)' => t \notin busy'
      BY <2>1, <2>2, <3>1 DEF SInv, DownInv
    <3> QED
      BY <2>4, <3>3, <3>4, <3>5 DEF DownInv
  <2>8. DrainedInv'
    BY <2>1, <2>2, <2>4 DEF SInv, DrainedInv, Called
  <2> QED
    BY <2>6, <2>7, <2>8 DEF SInv
<1> QED
  BY <1>1, <1>2

\* main's other steps: down, past the bridge, through the drain and out.
LEMMA MainSteps ==
  ASSUME TypeOK, SInv,
         Terminate \/ ListenerDies \/ JoinBridge \/ Draining \/ StopPoster \/ JoinPoster
  PROVE  SInv'
<1>0. UNCHANGED <<server, bridge, busy, spent, jobs, worker, listening>>
  BY DEF Terminate, ListenerDies, JoinBridge, DrainBegin, Draining, DrainStep, DrainLooksAtQueue,
         DrainLooksAtFlag, DrainWait, StopPoster, Stop, JoinPoster, life, vars, queue, sending,
         control, draining
<1>1. ASSUME NEW S, S = phase', phase' \in Servers \cup Ended \cup {"serving", "bridge", "drain", "join"},
             stopped' <=> phase' \in {"join", "exited"}
      PROVE  STypeOK'
  BY <1>0, <1>1 DEF SInv, STypeOK
<1>2. CASE Terminate \/ ListenerDies
  <2>1. phase = "serving" /\ phase' \in {"inbound", "died"} /\ UNCHANGED <<drain, stopped>>
    BY <1>2 DEF Terminate, ListenerDies, vars, control, draining
  <2>2. STypeOK'
    BY <1>1, <2>1, FourServers DEF SInv, STypeOK, Ended
  <2>3. DownInv'
    BY <1>0, <2>1 DEF SInv, DownInv, Left, Called
  <2>4. DrainedInv'
    BY <1>0, <2>1 DEF SInv, DrainedInv, Called
  <2> QED
    BY <2>2, <2>3, <2>4 DEF SInv
<1>3. CASE JoinBridge
  <2>1. /\ phase = "bridge" /\ phase' = "drain" /\ (bridge = "done" \/ spent)
        /\ drain' = "queue" /\ stopped' = stopped
    BY <1>3 DEF JoinBridge, DrainBegin, control
  <2>2. STypeOK'
    BY <1>1, <2>1 DEF SInv, STypeOK
  <2>3. DownInv'
    BY <1>0, <2>1 DEF SInv, DownInv, Left, Called
  <2>4. DrainedInv'
    BY <1>0, <2>1 DEF SInv, DrainedInv, Called
  <2> QED
    BY <2>2, <2>3, <2>4 DEF SInv
<1>4. CASE Draining
  <2>1. phase = "drain" /\ phase' = phase /\ stopped' = stopped
    BY <1>4 DEF Draining, DrainStep, DrainLooksAtQueue, DrainLooksAtFlag, DrainWait, control, life
  <2>2. STypeOK'
    BY <1>1, <2>1 DEF SInv, STypeOK
  <2>3. DownInv'
    BY <1>0, <2>1 DEF SInv, DownInv, Left, Called
  <2>4. /\ drain' # "no"
        /\ drain' = "flag" => jobs = << >>
        /\ drain' = "answered" => drain = "flag" \/ spent
    BY <1>4 DEF Draining, DrainStep, DrainLooksAtQueue, DrainLooksAtFlag, DrainWait
  <2>5. DrainedInv'
    BY <1>0, <2>1, <2>4 DEF SInv, DrainedInv, Called
  <2> QED
    BY <2>2, <2>3, <2>5 DEF SInv
<1>5. CASE StopPoster
  <2>1. /\ phase = "drain" /\ phase' = "join" /\ drain = "answered"
        /\ drain' = drain /\ stopped'
    BY <1>5 DEF StopPoster, Stop, draining
  <2>2. STypeOK'
    BY <1>1, <2>1 DEF SInv, STypeOK
  <2>3. DownInv'
    BY <1>0, <2>1 DEF SInv, DownInv, Left, Called
  <2>4. DrainedInv'
    BY <1>0, <2>1 DEF SInv, DrainedInv, Called
  <2> QED
    BY <2>2, <2>3, <2>4 DEF SInv
<1>6. CASE JoinPoster
  <2>1. /\ phase = "join" /\ phase' = "exited" /\ worker = "exited"
        /\ UNCHANGED <<drain, stopped>>
    BY <1>6 DEF JoinPoster, vars, control, draining
  <2>2. STypeOK'
    BY <1>1, <2>1 DEF SInv, STypeOK, Ended
  <2>3. DownInv'
    BY <1>0, <2>1 DEF SInv, DownInv, Left, Called
  <2>4. DrainedInv'
    BY <1>0, <2>1 DEF SInv, DrainedInv, Called
  <2> QED
    BY <2>2, <2>3, <2>4 DEF SInv
<1> QED
  BY <1>2, <1>3, <1>4, <1>5, <1>6

\* A replica keeps its order on the way down: a listener is left before the
\* next is closed, the bridge after them, and nothing is drained before (main).
THEOREM GoesDownInOrder == SSpec => []SInv
<1>1. SInit => SInv
  <2> SUFFICES ASSUME SInit PROVE SInv
    OBVIOUS
  <2>1. \A s \in Servers : server[s] = "up"
    BY DEF SInit
  <2>2. STypeOK
    BY FourServers DEF SInit, Init, STypeOK, Ended
  <2>3. DownInv
    BY <2>1 DEF SInit, DownInv, Left, Called
  <2>4. DrainedInv
    BY DEF SInit, Init, DrainedInv, Called
  <2> QED
    BY <2>2, <2>3, <2>4 DEF SInv
<1>2. TypeOK /\ SInv /\ [SNext]_svars => SInv'
  <2> SUFFICES ASSUME TypeOK, SInv, [SNext]_svars PROVE SInv'
    OBVIOUS
  <2>1. CASE (WorkerStep \/ Beyond) /\ UNCHANGED life
    BY <2>1, EmptyStays, NotifierAside
  <2>2. ASSUME NEW p \in Posts, File(p) PROVE SInv'
    <3>1. UNCHANGED life /\ UNCHANGED <<drain, spent, listening, stopped, worker>>
      BY <2>2 DEF File, Enqueue, sending, control, draining
    <3>2. ~(~spent /\ Called)
      BY <2>2, NoneLeftToFile DEF File
    <3> QED
      BY <3>1, <3>2, NotifierAside
  <2>3. CASE BudgetEnds
    <3>1. UNCHANGED life /\ UNCHANGED <<drain, jobs, listening, stopped, worker>> /\ spent'
      BY <2>3 DEF BudgetEnds, BudgetSpent, queue, sending, control
    <3> QED
      BY <3>1, NotifierAside
  <2>4. CASE UNCHANGED svars
    <3>1. UNCHANGED life /\ UNCHANGED <<drain, spent, jobs, listening, stopped, worker>>
      BY <2>4 DEF svars, vars, queue, sending, control, draining
    <3> QED
      BY <3>1, NotifierAside
  <2> QED
    BY <2>1, <2>2, <2>3, <2>4, WorkSteps, ServerSteps, MainSteps DEF SNext, MainStep
<1> QED
  BY <1>1, <1>2, NotifierInside, TypeSafe, PTL DEF SSpec

\* Shutdown keeps its types: the gateway's listener is the MCP server's, and
\* the poster is stopped only when main has drained it.
THEOREM ShutdownTypes == SSpec => []STypeOK
<1>1. SInv => STypeOK
  BY DEF SInv
<1> QED
  BY <1>1, GoesDownInOrder, PTL

\* A replica that goes down within its budget leaves no post unsettled: its
\* listeners and its bridge have returned before Drain looks, so that an empty
\* queue stays empty, and the poster is stopped and joined after it (main).
THEOREM LeavesNothing == SSpec => []ExitInTimeSettlesAll
<1>1. TypeOK /\ QueueInv /\ SInv => ExitInTimeSettlesAll
  <2> SUFFICES ASSUME TypeOK, QueueInv, SInv, phase = "exited", ~spent
               PROVE  jobs = << >> /\ \A p \in Posts : fate[p] # "queued"
    BY DEF ExitInTimeSettlesAll
  <2>1. jobs = << >> /\ worker = "exited"
    BY DEF SInv, DrainedInv
  <2>2. ~Owing /\ Len(jobs) = 0
    BY <2>1 DEF Owing
  <2>3. \A p \in Posts : fate[p] # "queued"
    <3> SUFFICES ASSUME NEW p \in Posts, fate[p] = "queued" PROVE FALSE
      OBVIOUS
    <3>1. \E i \in 1..Len(jobs) : jobs[i] = p
      BY <2>2 DEF QueueInv
    <3> QED
      BY <2>2, <3>1
  <2> QED
    BY <2>1, <2>3
<1> QED
  BY <1>1, GoesDownInOrder, NotifierInside, TypeSafe, QueueSafe, PTL

=============================================================================

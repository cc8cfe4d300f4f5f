------------------------------ MODULE Notifier ------------------------------
(***************************************************************************)
(* The approval notifier of one replica (notify.Poster): a bounded queue   *)
(* of posts, one worker that sends each through the plane's own MCP        *)
(* gateway, and the drain that shutdown waits on.                          *)
(*                                                                         *)
(* A post must not appear twice in the channel, so an attempt is retried   *)
(* only when its answer says that nothing landed.  What is beyond the      *)
(* gateway (the Slack MCP server and Slack) is the environment: it may     *)
(* post the message, refuse it, answer anything a relay can turn the       *)
(* outcome into, or post it long after the worker has given up waiting.    *)
(***************************************************************************)
EXTENDS Integers, Sequences

CONSTANTS
  Posts,         \* the messages ever handed to Enqueue, each once
  QueueSize,     \* Deps.QueueSize
  MaxTries,      \* len(Deps.Backoff) + 1
  Answers,       \* what may end an attempt while nobody shuts down
  None

\* What can come of one attempt: the credential or channel file does not
\* serve, or the handshake eats the budget ("unsent"); an error of the HTTP
\* client ("undialled" when it could not connect, "lost" otherwise); or a
\* response.
Happenings ==
  {"unsent", "undialled", "lost",
   "result",          \* 200, a JSON-RPC result
   "rpcError",        \* 200, a JSON-RPC error or isError
   "garbled",         \* 200, a body that does not parse
   "status4xx",       \* any 4xx
   "unavailable",     \* 503
   "redirected",      \* the 502 for a redirect the gateway refused
   "badGateway",      \* any other 502
   "serverError"}     \* any other 5xx

ASSUME NotifierAssumption ==
  /\ QueueSize \in Nat \ {0}
  /\ MaxTries \in Nat \ {0}
  /\ Answers \subseteq Happenings \ {"undialled"}
  /\ None \notin Posts

Outcomes == {"posted", "refused", "ambiguous"}
Decided  == {"posted", "unknown", "refused", "abandoned"}
Fates    == Decided \cup {"new", "dropped", "queued"}

VARIABLES
  jobs,       \* the channel of waiting posts
  worker,     \* where Run's goroutine is
  hand,       \* the post it is sending, or None
  tries,      \* refused attempts of that post so far
  inflight,   \* the flag Drain reads
  beyond,     \* how far the current call got past the gateway
  late,       \* posts given up on, or tried again, that may still land
  channel,    \* the Slack channel, oldest message first
  fate,       \* what the worker, or Enqueue, said of each post
  listening,  \* does the gateway's loopback listener accept?
  stopped,    \* is Run's context cancelled?
  drain,      \* where Drain is
  answer,     \* how many posts it said were still queued
  spent,      \* has the shutdown budget run out?
  \* History, read by no action:
  count,      \* how many posts Enqueue has taken
  turn,       \* the place of each of them in that order (0: not taken)
  relayed,    \* the posts an attempt of which a 503 from beyond answered
  early,      \* the posts taken before Drain was called
  unflagged,  \* the post Drain found the worker to hold and not to flag
  outOfTime   \* did the end of the budget make Drain answer?

queue    == <<jobs, count, turn>>
sending  == <<worker, hand, tries, inflight>>
slack    == <<beyond, late, channel, relayed>>
control  == <<listening, stopped>>
draining == <<drain, answer, spent, early, unflagged, outOfTime>>
vars     == <<queue, sending, slack, fate, control, draining>>

-----------------------------------------------------------------------------
(* How an attempt is judged. *)

\* Fault: every 502 read as the gateway refusing to forward.
classifyBadGatewayRefused(h) ==
  CASE h = "result" -> "posted"
    [] h \in {"unsent", "undialled", "rpcError", "status4xx", "unavailable",
              "redirected", "badGateway"} -> "refused"
    [] OTHER -> "ambiguous"

classify(h) ==
  CASE h = "result" -> "posted"
    [] h \in {"unsent", "undialled", "rpcError", "status4xx", "unavailable",
              "redirected"} -> "refused"
    [] OTHER -> "ambiguous"

\* How far the call got when h is what comes of it.  A relay can lose or
\* garble any outcome, and the gateway passes on a 503 from beyond it like its
\* own; only a message that landed is answered by a result, and an error or a
\* 4xx is the gateway's own or a refusal from beyond it.
Befalls(h) ==
  CASE h = "result" -> {"landed"}
    [] h \in {"rpcError", "status4xx"} -> {"gateway", "rejected"}
    [] h = "redirected" -> {"rejected"}
    [] h \in {"unsent", "undialled"} -> {}
    [] OTHER -> {"gateway", "wire", "landed", "rejected"}

-----------------------------------------------------------------------------
Init ==
  /\ jobs = << >>
  /\ worker = "idle"
  /\ hand = None
  /\ tries = 0
  /\ inflight = FALSE
  /\ beyond = "gateway"
  /\ late = {}
  /\ channel = << >>
  /\ fate = [p \in Posts |-> "new"]
  /\ listening = TRUE
  /\ stopped = FALSE
  /\ drain = "no"
  /\ spent = FALSE
  /\ count = 0
  /\ turn = [p \in Posts |-> 0]
  /\ relayed = {}
  /\ answer = 0
  /\ early = {}
  /\ unflagged = {}
  /\ outOfTime = FALSE

(* Poster.Enqueue *)

EnqueueTaken(p) ==
  /\ Len(jobs) < QueueSize
  /\ jobs' = Append(jobs, p)
  /\ count' = count + 1
  /\ turn' = [turn EXCEPT ![p] = count + 1]
  /\ fate' = [fate EXCEPT ![p] = "queued"]

EnqueueDropped(p) ==
  /\ Len(jobs) = QueueSize
  /\ fate' = [fate EXCEPT ![p] = "dropped"]
  /\ UNCHANGED queue

\* Never blocks the caller: a full queue drops the post.
Enqueue(p) ==
  /\ fate[p] = "new"
  /\ EnqueueTaken(p) \/ EnqueueDropped(p)
  /\ UNCHANGED <<sending, slack, control, draining>>

(* Poster.Run: the worker *)

\* Fault: the newest post is sent first.
TakeNewest ==
  /\ worker = "idle"
  /\ jobs # << >>
  /\ worker' = "taken"
  /\ hand' = jobs[Len(jobs)]
  /\ jobs' = SubSeq(jobs, 1, Len(jobs) - 1)
  /\ tries' = 0
  /\ UNCHANGED <<count, turn, inflight, slack, fate, control, draining>>

\* The select may pick a waiting post even when the context is done.
Take ==
  /\ worker = "idle"
  /\ jobs # << >>
  /\ worker' = "taken"
  /\ hand' = Head(jobs)
  /\ jobs' = Tail(jobs)
  /\ tries' = 0
  /\ UNCHANGED <<count, turn, inflight, slack, fate, control, draining>>

Raise ==
  /\ worker = "taken"
  /\ inflight' = TRUE
  /\ worker' = "trying"
  /\ UNCHANGED <<queue, hand, tries, slack, fate, control, draining>>

\* The tools/call is on its way to the gateway.
Dial ==
  /\ worker = "trying"
  /\ listening
  /\ ~stopped
  /\ worker' = "calling"
  /\ beyond' = "gateway"
  /\ UNCHANGED <<queue, hand, tries, inflight, late, channel, relayed, fate, control, draining>>

\* Fault: no bound on the attempts.
SettleUnbounded(h) ==
  /\ \/ /\ classify(h) = "posted"
        /\ fate' = [fate EXCEPT ![hand] = "posted"]
        /\ worker' = "sent"
     \/ /\ classify(h) = "ambiguous"
        /\ fate' = [fate EXCEPT ![hand] = "unknown"]
        /\ worker' = "sent"
     \/ /\ classify(h) = "refused"
        /\ worker' = "backoff"
        /\ UNCHANGED fate
  /\ UNCHANGED <<tries, queue, hand, inflight, control, draining>>

\* What the retry loop of send makes of an attempt that h came of.
Settle(h) ==
  /\ \/ /\ classify(h) = "posted"
        /\ fate' = [fate EXCEPT ![hand] = "posted"]
        /\ worker' = "sent"
        /\ UNCHANGED tries
     \/ /\ classify(h) = "ambiguous"
        /\ fate' = [fate EXCEPT ![hand] = "unknown"]
        /\ worker' = "sent"
        /\ UNCHANGED tries
     \/ /\ classify(h) = "refused"
        /\ tries + 1 = MaxTries
        /\ fate' = [fate EXCEPT ![hand] = "refused"]
        /\ worker' = "sent"
        /\ UNCHANGED tries
     \/ /\ classify(h) = "refused"
        /\ tries + 1 < MaxTries
        /\ tries' = tries + 1
        /\ worker' = "backoff"
        /\ UNCHANGED fate
  /\ UNCHANGED <<queue, hand, inflight, control, draining>>

\* An attempt that never gets as far as the tools/call.
Unsent ==
  /\ worker = "trying"
  /\ \/ /\ stopped \/ "unsent" \in Answers
        /\ Settle("unsent")
     \/ /\ ~listening /\ ~stopped
        /\ Settle("undialled")
  /\ UNCHANGED slack

\* The call returns; a cancelled context ends it whatever was answered.
Answered(h) ==
  /\ worker = "calling"
  /\ h \in Answers \/ (stopped /\ h = "lost")
  /\ beyond \in Befalls(h)
  /\ late' = IF beyond = "wire" THEN late \cup {hand} ELSE late
  /\ relayed' = IF h = "unavailable" /\ beyond # "gateway" THEN relayed \cup {hand} ELSE relayed
  /\ beyond' = "gateway"
  /\ Settle(h)
  /\ UNCHANGED channel

\* The wait before the next attempt, cut short by a shutdown.
Backoff ==
  /\ worker = "backoff"
  /\ \/ /\ stopped
        /\ fate' = [fate EXCEPT ![hand] = "abandoned"]
        /\ worker' = "sent"
     \/ /\ ~stopped
        /\ worker' = "trying"
        /\ UNCHANGED fate
  /\ UNCHANGED <<queue, hand, tries, inflight, slack, control, draining>>

Lower ==
  /\ worker = "sent"
  /\ inflight' = FALSE
  /\ hand' = None
  /\ worker' = "idle"
  /\ UNCHANGED <<queue, tries, slack, fate, control, draining>>

RunReturn ==
  /\ worker = "idle"
  /\ stopped
  /\ worker' = "exited"
  /\ UNCHANGED <<queue, hand, tries, inflight, slack, fate, control, draining>>

WorkerStep ==
  \/ Take \/ Raise \/ Dial \/ Unsent \/ Backoff \/ Lower \/ RunReturn
  \/ \E h \in Happenings : Answered(h)

(* Beyond the gateway *)

Forward ==
  /\ worker = "calling"
  /\ beyond = "gateway"
  /\ beyond' = "wire"
  /\ UNCHANGED <<queue, sending, late, channel, relayed, fate, control, draining>>

Land ==
  /\ beyond = "wire"
  /\ beyond' = "landed"
  /\ channel' = Append(channel, hand)
  /\ UNCHANGED <<queue, sending, late, relayed, fate, control, draining>>

Reject ==
  /\ beyond = "wire"
  /\ beyond' = "rejected"
  /\ UNCHANGED <<queue, sending, late, channel, relayed, fate, control, draining>>

LandLate(p) ==
  /\ p \in late
  /\ late' = late \ {p}
  /\ channel' = Append(channel, p)
  /\ UNCHANGED <<queue, sending, beyond, relayed, fate, control, draining>>

Beyond == Forward \/ Land \/ Reject \/ \E p \in Posts : LandLate(p)

(* Poster.Drain, and the shutdown around it *)

DrainBegin ==
  /\ drain = "no"
  /\ drain' = "queue"
  /\ early' = {p \in Posts : turn[p] > 0}
  /\ UNCHANGED <<queue, sending, slack, fate, control, answer, spent, unflagged, outOfTime>>

\* Fault: an idle worker taken for an empty queue.
DrainLooksAtQueueNever ==
  /\ drain = "queue"
  /\ drain' = "flag"
  /\ UNCHANGED <<queue, sending, slack, fate, control, answer, spent, early, unflagged, outOfTime>>

\* len(jobs) == 0, then the flag: two reads, with the worker in between.
DrainLooksAtQueue ==
  /\ drain = "queue"
  /\ drain' = IF jobs = << >> THEN "flag" ELSE "wait"
  /\ UNCHANGED <<queue, sending, slack, fate, control, answer, spent, early, unflagged, outOfTime>>

DrainLooksAtFlag ==
  /\ drain = "flag"
  /\ drain' = IF inflight THEN "wait" ELSE "answered"
  /\ answer' = 0
  /\ unflagged' = IF worker = "taken" THEN {hand} ELSE {}
  /\ UNCHANGED <<queue, sending, slack, fate, control, spent, early, outOfTime>>

\* The next tick, or the end of the budget: either, when both are ready.  Out
\* of time Drain answers what waits, and says nothing of what is being sent.
DrainWait ==
  /\ drain = "wait"
  /\ \/ /\ drain' = "queue"
        /\ UNCHANGED <<answer, outOfTime>>
     \/ /\ spent
        /\ drain' = "answered"
        /\ answer' = Len(jobs)
        /\ outOfTime' = TRUE
  /\ UNCHANGED <<queue, sending, slack, fate, control, spent, early, unflagged>>

DrainStep == DrainLooksAtQueue \/ DrainLooksAtFlag \/ DrainWait

BudgetSpent ==
  /\ ~spent
  /\ spent' = TRUE
  /\ UNCHANGED <<queue, sending, slack, fate, control, drain, answer, early, unflagged, outOfTime>>

GatewayClose ==
  /\ listening
  /\ listening' = FALSE
  /\ UNCHANGED <<queue, sending, slack, fate, stopped, draining>>

Stop ==
  /\ ~stopped
  /\ stopped' = TRUE
  /\ UNCHANGED <<queue, sending, slack, fate, listening, draining>>

Next ==
  \/ \E p \in Posts : Enqueue(p)
  \/ WorkerStep \/ Beyond
  \/ DrainBegin \/ DrainStep \/ BudgetSpent \/ GatewayClose \/ Stop

\* The worker is always runnable: a call lasts no longer than CallTimeout, a
\* backoff no longer than its timer.
Spec == Init /\ [][Next]_vars /\ WF_vars(WorkerStep)

-----------------------------------------------------------------------------
TypeOK ==
  /\ jobs \in Seq(Posts) /\ Len(jobs) <= QueueSize
  /\ worker \in {"idle", "taken", "trying", "calling", "backoff", "sent", "exited"}
  /\ hand \in Posts \cup {None}
  /\ (hand = None) <=> (worker \in {"idle", "exited"})
  /\ tries \in 0..MaxTries - 1
  /\ inflight \in BOOLEAN
  /\ inflight <=> worker \in {"trying", "calling", "backoff", "sent"}
  /\ beyond \in {"gateway", "wire", "landed", "rejected"}
  /\ worker # "calling" => beyond = "gateway"
  /\ late \subseteq Posts
  /\ channel \in Seq(Posts)
  /\ fate \in [Posts -> Fates]
  /\ listening \in BOOLEAN /\ stopped \in BOOLEAN
  /\ drain \in {"no", "queue", "flag", "wait", "answered"}
  /\ answer \in 0..QueueSize
  /\ outOfTime \in BOOLEAN
  /\ spent \in BOOLEAN
  /\ count \in Nat
  /\ turn \in [Posts -> Nat]
  /\ relayed \subseteq Posts /\ early \subseteq Posts /\ unflagged \subseteq Posts

\* No message is in the channel twice, however its attempts were answered:
\* only an answer that says nothing landed is retried (outcome, send).  This
\* is what the code claims.
NoDoublePost ==
  \A i, j \in 1..Len(channel) : channel[i] = channel[j] => i = j

\* What it keeps: a message is in the channel twice only if one of its
\* attempts was answered by a 503 from beyond the gateway, whatever the other
\* answers, the retries and the late landings (outcome, send).
TwiceOnlyRelayed ==
  \A i, j \in 1..Len(channel) :
    channel[i] = channel[j] => i = j \/ channel[i] \in relayed

\* The messages reported posted are in the channel; and in the order Enqueue
\* took them, but for a message that such a 503 had sent again (Run: one
\* worker, so that the channel follows the filing order).
PostedInOrder ==
  /\ \A p \in Posts : fate[p] = "posted" => \E i \in 1..Len(channel) : channel[i] = p
  /\ \A i, j \in 1..Len(channel) :
       /\ i < j
       /\ fate[channel[i]] = "posted" /\ fate[channel[j]] = "posted"
       /\ channel[i] \notin relayed /\ channel[j] \notin relayed
       => turn[channel[i]] < turn[channel[j]]

\* What a Drain that answers zero leaves behind.  Of the posts taken before it
\* was called only one can be unsettled, the one in the worker's hand: because
\* time ran out, which the answer does not tell from a clean drain, or because
\* the worker took it between Drain's two reads and had not raised the flag
\* (Drain; Run raises the flag after it has taken the post).
ZeroLeavesOnlyTheHand ==
  drain = "answered" /\ answer = 0 =>
    \A p \in early :
      fate[p] \in Decided \/ (p = hand /\ (outOfTime \/ p \in unflagged))

\* A post Enqueue took is settled, or the worker was stopped first.
EveryPostSettled ==
  \A p \in Posts :
    fate[p] = "queued" ~> (fate[p] \in Decided \/ worker = "exited")

=============================================================================

------------------------------- MODULE Hook -------------------------------
(***************************************************************************)
(* The token bucket every inbound event passes before it is authenticated  *)
(* (plane/internal/inbound, limiter).                                      *)
(*                                                                         *)
(* Time is a number of ticks; a token is PerMinute parts, so that a tick   *)
(* refills as many parts as the rate has tokens.  Rounding of the floats   *)
(* is not modelled.                                                        *)
(***************************************************************************)
EXTENDS Table

CONSTANTS
  PerMinute,          \* ticks of a minute
  LastTick, MaxEvents \* bounds of the runs

ASSUME HookAssumption == PerMinute \in Nat \ {0} /\ LastTick \in Nat /\ MaxEvents \in Nat

VARIABLES
  clock,
  bucket,   \* <<>>, or [parts, last] once an event came
  admitted  \* when each admitted event came (history)

hvars == <<clock, bucket, admitted>>

HookInit == clock = 0 /\ bucket = <<>> /\ admitted = <<>>

Capped(parts, burst) == IF parts > burst * PerMinute THEN burst * PerMinute ELSE parts

\* A bucket starts full, and never holds more than its burst.
Refilled(h) ==
  IF bucket = <<>> THEN h.burst * PerMinute
  ELSE Capped(bucket[1].parts + (clock - bucket[1].last) * h.rate, h.burst)

\* limiter.allow: one token, or 429.
Event(hook) ==
  LET h == Bounded(hook) IN
  /\ Len(admitted) < MaxEvents
  /\ IF Refilled(h) < PerMinute
     THEN /\ bucket' = <<[parts |-> Refilled(h), last |-> clock]>>
          /\ UNCHANGED admitted
     ELSE /\ bucket' = <<[parts |-> Refilled(h) - PerMinute, last |-> clock]>>
          /\ admitted' = Append(admitted, clock)
  /\ UNCHANGED clock

Tick ==
  /\ clock < LastTick
  /\ clock' = clock + 1 /\ UNCHANGED <<bucket, admitted>>

-----------------------------------------------------------------------------
\* From any admitted event to any later one, however long the hook was idle
\* before: no more than its burst and what its rate gives in between (allow).
RateHolds(hook) ==
  \A i, j \in DOMAIN admitted : i <= j =>
    (j - i + 1) * PerMinute <= Bounded(hook).burst * PerMinute
                               + Bounded(hook).rate * (admitted[j] - admitted[i])
=============================================================================

------------------------------ MODULE Shutdown ------------------------------
(***************************************************************************)
(* How a replica goes down (main): the listeners close one after another,  *)
(* each waiting for its handlers, then the bridge's workers, then the      *)
(* notifier's drain, all within one budget, and the poster is cancelled    *)
(* last.  Handlers and workers may file an approval request until they     *)
(* return, and a filing is a post for the notifier; the notifier in turn   *)
(* posts through one of the listeners being closed.                        *)
(***************************************************************************)
EXTENDS Notifier

CONSTANTS
  Users       \* the listeners, and "bridge", whose work may file a request

\* main closes them in this order.
Order   == <<"inbound", "data", "mcp", "admin">>
Servers == {Order[i] : i \in 1..Len(Order)}

ASSUME ShutdownAssumption == Users \subseteq Servers \cup {"bridge"}

VARIABLES
  phase,    \* what main is doing
  server,   \* each http.Server: "up", "closing" (listener closed), "left"
  bridge,   \* the bridge's workers: "up", "stopping", "done"
  busy      \* the listeners with a handler running, and "bridge"

life  == <<phase, server, bridge, busy>>
svars == <<vars, life>>

Ended == {"exited", "died"}

\* Fault: nobody waits for the admin listener's handlers.
AfterSkippingAdmin(s) ==
  CASE s = "inbound" -> "data"
    [] s = "data" -> "mcp"
    [] OTHER -> "bridge"

\* What main does once it has left a server.
After(s) ==
  CASE s = "inbound" -> "data"
    [] s = "data" -> "mcp"
    [] s = "mcp" -> "admin"
    [] OTHER -> "bridge"

SInit ==
  /\ Init
  /\ phase = "serving"
  /\ server = [s \in Servers |-> "up"]
  /\ bridge = "up"
  /\ busy = {}

(* What the listeners and the bridge do meanwhile *)

Arrive(s) ==
  /\ server[s] = "up"
  /\ s \notin busy
  /\ busy' = busy \cup {s}
  /\ UNCHANGED <<vars, phase, server, bridge>>

\* A worker takes a queued event; its select may, even when told to stop.
TakeEvent ==
  /\ bridge # "done"
  /\ "bridge" \notin busy
  /\ busy' = busy \cup {"bridge"}
  /\ UNCHANGED <<vars, phase, server, bridge>>

Return(a) ==
  /\ a \in busy
  /\ busy' = busy \ {a}
  /\ UNCHANGED <<vars, phase, server, bridge>>

File(p) ==
  /\ busy # {}
  /\ Enqueue(p)
  /\ UNCHANGED life

BridgeReturn ==
  /\ bridge = "stopping"
  /\ "bridge" \notin busy
  /\ bridge' = "done"
  /\ UNCHANGED <<vars, phase, server, busy>>

(* main *)

\* SIGTERM: readiness drops and the budget starts to run.
Terminate ==
  /\ phase = "serving"
  /\ phase' = "inbound"
  /\ UNCHANGED <<vars, server, bridge, busy>>

\* A listener that stops by itself takes the process with it.
ListenerDies ==
  /\ phase = "serving"
  /\ phase' = "died"
  /\ UNCHANGED <<vars, server, bridge, busy>>

\* Shutdown closes the listener at once ...
Close(s) ==
  /\ phase = s
  /\ server[s] = "up"
  /\ server' = [server EXCEPT ![s] = "closing"]
  /\ IF s = "mcp" THEN GatewayClose ELSE UNCHANGED vars
  /\ UNCHANGED <<phase, bridge, busy>>

\* ... and returns when no request is running, or the budget is spent.  The
\* notifier's own call is a request on the MCP listener.
Leave(s) ==
  /\ phase = s
  /\ server[s] = "closing"
  /\ spent \/ (s \notin busy /\ ~(s = "mcp" /\ worker = "calling"))
  /\ server' = [server EXCEPT ![s] = "left"]
  /\ phase' = After(s)
  /\ bridge' = IF s = "inbound" THEN "stopping" ELSE bridge
  /\ UNCHANGED <<vars, busy>>

\* Fault: the workers are waited for whatever the budget says.
JoinBridgeForever ==
  /\ phase = "bridge"
  /\ bridge = "done"
  /\ phase' = "drain"
  /\ DrainBegin
  /\ UNCHANGED <<server, bridge, busy>>

\* Wait for the workers or the budget, then call Drain.
JoinBridge ==
  /\ phase = "bridge"
  /\ bridge = "done" \/ spent
  /\ phase' = "drain"
  /\ DrainBegin
  /\ UNCHANGED <<server, bridge, busy>>

Draining ==
  /\ phase = "drain"
  /\ DrainStep
  /\ UNCHANGED life

StopPoster ==
  /\ phase = "drain"
  /\ drain = "answered"
  /\ phase' = "join"
  /\ Stop
  /\ UNCHANGED <<server, bridge, busy>>

JoinPoster ==
  /\ phase = "join"
  /\ worker = "exited"
  /\ phase' = "exited"
  /\ UNCHANGED <<vars, server, bridge, busy>>

BudgetEnds ==
  /\ phase \notin {"serving"}
  /\ BudgetSpent
  /\ UNCHANGED life

MainStep ==
  \/ \E s \in Servers : Close(s) \/ Leave(s)
  \/ JoinBridge \/ Draining \/ StopPoster \/ JoinPoster

SNext ==
  /\ phase \notin Ended
  /\ \/ \E s \in Servers \cap Users : Arrive(s)
     \/ "bridge" \in Users /\ TakeEvent
     \/ \E a \in busy : Return(a)
     \/ \E p \in Posts : File(p)
     \/ BridgeReturn
     \/ (WorkerStep \/ Beyond) /\ UNCHANGED life
     \/ Terminate \/ ListenerDies \/ MainStep \/ BudgetEnds

\* main, the timer and the poster run; nothing obliges a handler, an agent
\* behind the bridge, or Slack, to return.
SSpec ==
  /\ SInit /\ [][SNext]_svars
  /\ WF_svars(MainStep) /\ WF_svars(BudgetEnds)
  /\ WF_svars(WorkerStep /\ UNCHANGED life)

-----------------------------------------------------------------------------
STypeOK ==
  /\ phase \in Servers \cup Ended \cup {"serving", "bridge", "drain", "join"}
  /\ server \in [Servers -> {"up", "closing", "left"}]
  /\ bridge \in {"up", "stopping", "done"}
  /\ busy \subseteq Users
  /\ listening <=> server["mcp"] = "up"
  /\ stopped <=> phase \in {"join", "exited"}

\* A replica that went down within its budget leaves no post behind: nothing
\* waits in the queue, and each post it took was sent, or the log says why
\* it was not (Drain before stopPoster, after the last filer has returned).
ExitInTimeSettlesAll ==
  phase = "exited" /\ ~spent =>
    /\ jobs = << >>
    /\ \A p \in Posts : fate[p] # "queued"

\* A replica told to stop does stop, whatever its handlers, its agents and
\* Slack are doing (one budget for every wait, posterCtx for the last).
ShutdownEnds == (phase = "inbound") ~> (phase = "exited")

=============================================================================

------------------------------ MODULE Bringup ------------------------------
(***************************************************************************)
(* kmx up, its single steps, kmx quickstart and kmx down (kmx/app/up.go,   *)
(* lanes.go, quickstart.go, down.go): a kind cluster is made or recovered, *)
(* Ollama, its model and kagent are installed, and the two agents brought  *)
(* up in parallel lanes.  What the agents are wired to is Agents.          *)
(*                                                                         *)
(* The cluster takes its time, the container engine restarts under it, and *)
(* several people run these commands against the one cluster.              *)
(***************************************************************************)
EXTENDS Naturals

CONSTANTS
  Hands,
  Engines,   \* the container engines kind may be on, "docker" or "podman"
  Chores,    \* the commands they may give, a subset of Commands
  NoChore

Lanes == {"agent", "tools-agent"}
UpSteps == {"cluster", "ollama", "model", "kagent"} \cup Lanes
Commands == UpSteps \cup {"up", "quickstart", "down"}
Parts == {"dns", "ollama", "kagent"} \cup Lanes
Attempts == 3

ASSUME BringupAssumption == Engines \subseteq {"docker", "podman"} /\ Chores \subseteq Commands /\ NoChore \notin Commands

VARIABLES
  engine,    \* the one in use
  cluster,   \* "none", "stopped", "booting" or "serving"
  installed, \* the parts that are deployed
  up,        \* and those that are ready
  pulled,    \* Ollama has the model
  chart,     \* kagent's values: "none", "first" for quickstart's, "full"
  point, chore, \* where everybody's command is
  attempt,   \* of the model pull
  lane,      \* how each lane of a command is doing
  undone,    \* the engine restarted, or somebody else changed the runtime, since (history)
  achieved   \* the command that ended in success, until the next (history)

runtime == <<engine, cluster, installed, up, pulled, chart>>
commandsOf == <<point, chore, attempt, lane>>
bringupVars == <<runtime, commandsOf, undone, achieved>>

Points ==
  {"idle", "cluster", "serving", "dns", "ollama", "ollamaUp", "model", "kagent", "kagentUp", "lanes", "last", "delete"}
LaneStates == {"off", "accepted", "apply", "ready", "failed", "done"}
NoLanes == [l \in Lanes |-> "off"]

-----------------------------------------------------------------------------
(* The cluster and its engine. *)

same == UNCHANGED <<commandsOf, undone, achieved>>

\* The machine restarts and kind's nodes with it: kind still lists the cluster.
EngineRestarts ==
  /\ cluster \in {"booting", "serving"}
  /\ cluster' = "stopped" /\ up' = {}
  /\ undone' = [h \in Hands |-> TRUE]
  /\ UNCHANGED <<engine, installed, pulled, chart, commandsOf, achieved>>

\* Docker starts its containers again; Podman does not.
Returns ==
  /\ engine = "docker" /\ cluster = "stopped" /\ cluster' = "booting"
  /\ UNCHANGED <<engine, installed, up, pulled, chart>> /\ same

Boots ==
  /\ cluster = "booting" /\ cluster' = "serving"
  /\ installed' = installed \cup {"dns"}
  /\ UNCHANGED <<engine, up, pulled, chart>> /\ same

\* An agent's pod is kagent's doing.
PartReady(x) ==
  /\ cluster = "serving" /\ x \in installed \ up
  /\ x \in Lanes => "kagent" \in up
  /\ up' = up \cup {x}
  /\ UNCHANGED <<engine, cluster, installed, pulled, chart>> /\ same

-----------------------------------------------------------------------------
(* One command of each person. *)

Where(h, p) == point[h] = p
Onward(h, p) == point' = [point EXCEPT ![h] = p] /\ UNCHANGED <<chore, attempt, lane>>
Disturbs(h) == undone' = [g \in Hands |-> undone[g] \/ g # h]

GivesUp(h) ==
  /\ point' = [point EXCEPT ![h] = "idle"] /\ chore' = [chore EXCEPT ![h] = NoChore]
  /\ attempt' = [attempt EXCEPT ![h] = 1] /\ lane' = [lane EXCEPT ![h] = NoLanes]

Achieves(h) == GivesUp(h) /\ achieved' = [achieved EXCEPT ![h] = chore[h]]

Lasts(h) == chore[h] \in UpSteps

\* To the next step of the journey, or home after the single one.
NextStep(h, p) ==
  IF Lasts(h) THEN Achieves(h) ELSE Onward(h, p) /\ UNCHANGED achieved

FirstPoint(k) ==
  CASE k \in {"up", "quickstart", "cluster"} -> "cluster" [] k \in Lanes -> "lanes"
    [] k = "down" -> "delete" [] OTHER -> k

LanesOf(k) == IF k = "up" THEN Lanes ELSE IF k = "quickstart" THEN {"agent"} ELSE {k} \cap Lanes

\* The tools agent waits for the tool server the full chart publishes.
Started(k) ==
  [l \in Lanes |-> IF l \notin LanesOf(k) THEN "off" ELSE IF l = "agent" THEN "apply" ELSE "accepted"]

GiveChore(h, k) ==
  /\ Where(h, "idle")
  /\ point' = [point EXCEPT ![h] = FirstPoint(k)] /\ chore' = [chore EXCEPT ![h] = k]
  /\ lane' = [lane EXCEPT ![h] = IF k \in Lanes THEN Started(k) ELSE NoLanes]
  /\ undone' = [undone EXCEPT ![h] = FALSE] /\ achieved' = [achieved EXCEPT ![h] = NoChore]
  /\ UNCHANGED <<runtime, attempt>>

\* A call failed, a wait timed out or somebody pressed ^C, outside the lanes.
ChoreFails(h) ==
  /\ point[h] \notin {"idle", "lanes"} /\ GivesUp(h)
  /\ UNCHANGED <<runtime, undone, achieved>>

-----------------------------------------------------------------------------
(* The steps. *)

\* A cluster kind does not list is created; on Podman a listed one is started.
StepCluster(h) ==
  /\ Where(h, "cluster")
  /\ cluster' = IF cluster = "none" \/ (engine = "podman" /\ cluster = "stopped") THEN "booting" ELSE cluster
  /\ Onward(h, "serving")
  /\ UNCHANGED <<engine, installed, up, pulled, chart, undone, achieved>>

Serves(h) ==
  /\ Where(h, "serving") /\ cluster = "serving" /\ Onward(h, "dns")
  /\ UNCHANGED <<runtime, undone, achieved>>

DnsServes(h) ==
  /\ Where(h, "dns") /\ cluster = "serving" /\ "dns" \in up /\ NextStep(h, "ollama")
  /\ UNCHANGED <<runtime, undone>>

StepOllama(h) ==
  /\ Where(h, "ollama") /\ cluster = "serving" /\ Onward(h, "ollamaUp")
  /\ installed' = installed \cup {"ollama"}
  /\ UNCHANGED <<engine, cluster, up, pulled, chart, undone, achieved>>

OllamaServes(h) ==
  /\ Where(h, "ollamaUp") /\ "ollama" \in up /\ NextStep(h, "model")
  /\ UNCHANGED <<runtime, undone>>

\* Three attempts: the outside world's names may not resolve yet.
StepModel(h) ==
  /\ Where(h, "model")
  /\ \/ /\ {"ollama", "dns"} \subseteq up /\ pulled' = TRUE
        /\ NextStep(h, "kagent")
     \/ /\ attempt[h] < Attempts /\ attempt' = [attempt EXCEPT ![h] = @ + 1]
        /\ UNCHANGED <<pulled, point, chore, lane, achieved>>
     \/ attempt[h] = Attempts /\ UNCHANGED <<pulled, achieved>> /\ GivesUp(h)
  /\ UNCHANGED <<engine, cluster, installed, up, chart, undone>>

Profile(h) == IF chore[h] = "quickstart" THEN "first" ELSE "full"

\* helm upgrade --install: another profile rolls kagent's pods.
InstallKagent(h) ==
  /\ Where(h, "kagent") /\ cluster = "serving" /\ Onward(h, "kagentUp")
  /\ chart' = Profile(h) /\ installed' = installed \cup {"kagent"}
  /\ up' = IF chart = Profile(h) THEN up ELSE up \ {"kagent"}
  /\ IF chart = Profile(h) THEN UNCHANGED undone ELSE Disturbs(h)
  /\ UNCHANGED <<engine, cluster, pulled, achieved>>

\* A journey goes on with its lanes.
KagentServes(h) ==
  /\ Where(h, "kagentUp") /\ "kagent" \in up
  /\ IF Lasts(h) THEN Achieves(h)
     ELSE /\ point' = [point EXCEPT ![h] = "lanes"] /\ lane' = [lane EXCEPT ![h] = Started(chore[h])]
          /\ UNCHANGED <<chore, attempt, achieved>>
  /\ UNCHANGED <<runtime, undone>>

-----------------------------------------------------------------------------
(* runLanes: every lane is run to its end, and the errors are joined. *)

InLane(h, l, s) == Where(h, "lanes") /\ lane[h][l] = s
LaneTo(h, l, s) == lane' = [lane EXCEPT ![h][l] = s] /\ UNCHANGED <<point, chore, attempt, undone, achieved>>

LaneAccepted(h, l) ==
  /\ InLane(h, l, "accepted") /\ chart = "full" /\ "kagent" \in up
  /\ LaneTo(h, l, "apply") /\ UNCHANGED runtime

LaneApplies(h, l) ==
  /\ InLane(h, l, "apply") /\ cluster = "serving" /\ "kagent" \in installed
  /\ installed' = installed \cup {l}
  /\ LaneTo(h, l, "ready") /\ UNCHANGED <<engine, cluster, up, pulled, chart>>

LaneReady(h, l) ==
  /\ InLane(h, l, "ready") /\ l \in up
  /\ LaneTo(h, l, "done") /\ UNCHANGED runtime

LaneFails(h, l) ==
  /\ Where(h, "lanes") /\ lane[h][l] \in {"accepted", "apply", "ready"}
  /\ LaneTo(h, l, "failed") /\ UNCHANGED runtime

LanesRunning(h) == {l \in Lanes : lane[h][l] \in {"accepted", "apply", "ready"}}
LanesFailed(h) == {l \in Lanes : lane[h][l] = "failed"}

\* Fault: the first error is everybody's.
JoinAtFirstError(h) ==
  /\ Where(h, "lanes") /\ (LanesRunning(h) = {} \/ LanesFailed(h) # {})
  /\ IF LanesFailed(h) # {}
     THEN point' = [point EXCEPT ![h] = "idle"] /\ chore' = [chore EXCEPT ![h] = NoChore] /\ UNCHANGED <<attempt, lane, achieved>>
     ELSE IF Lasts(h) THEN Achieves(h) ELSE Onward(h, "last") /\ UNCHANGED achieved
  /\ UNCHANGED <<runtime, undone>>

Join(h) ==
  /\ Where(h, "lanes") /\ LanesRunning(h) = {}
  /\ IF LanesFailed(h) # {} THEN GivesUp(h) /\ UNCHANGED achieved
     ELSE IF Lasts(h) THEN Achieves(h) ELSE Onward(h, "last") /\ UNCHANGED achieved
  /\ UNCHANGED <<runtime, undone>>

\* The status of kmx up, the question of kmx quickstart.
LastPhase(h) ==
  /\ Where(h, "last")
  /\ cluster = "serving" /\ (chore[h] = "quickstart" => {"agent", "ollama"} \subseteq up)
  /\ Achieves(h)
  /\ UNCHANGED <<runtime, undone>>

\* kmx down.
Delete(h) ==
  /\ Where(h, "delete") /\ Achieves(h)
  /\ cluster' = "none" /\ installed' = {} /\ up' = {} /\ pulled' = FALSE /\ chart' = "none"
  /\ UNCHANGED engine
  /\ Disturbs(h)

-----------------------------------------------------------------------------

BringupInit ==
  /\ engine \in Engines /\ cluster = "none" /\ installed = {} /\ up = {} /\ pulled = FALSE /\ chart = "none"
  /\ point = [h \in Hands |-> "idle"] /\ chore = [h \in Hands |-> NoChore]
  /\ attempt = [h \in Hands |-> 1] /\ lane = [h \in Hands |-> NoLanes]
  /\ undone = [h \in Hands |-> FALSE] /\ achieved = [h \in Hands |-> NoChore]

Progresses(h) ==
  \/ StepCluster(h) \/ Serves(h) \/ DnsServes(h) \/ StepOllama(h) \/ OllamaServes(h) \/ StepModel(h)
  \/ InstallKagent(h) \/ KagentServes(h) \/ Join(h) \/ LastPhase(h) \/ Delete(h)
  \/ \E l \in Lanes : LaneAccepted(h, l) \/ LaneApplies(h, l) \/ LaneReady(h, l) \/ LaneFails(h, l)

BringupNext ==
  \/ EngineRestarts \/ Returns \/ Boots
  \/ \E x \in Parts : PartReady(x)
  \/ \E h \in Hands : Progresses(h) \/ ChoreFails(h) \/ \E k \in Chores : GiveChore(h, k)

BringupSpec == BringupInit /\ [][BringupNext]_bringupVars

-----------------------------------------------------------------------------
(* What is checked. *)

\* Types, and what is ready is deployed in a cluster that serves.
BringupTypeOK ==
  /\ cluster \in {"none", "stopped", "booting", "serving"}
  /\ installed \subseteq Parts /\ up \subseteq installed /\ (up # {} => cluster = "serving")
  /\ pulled \in BOOLEAN /\ chart \in {"none", "first", "full"}
  /\ point \in [Hands -> Points] /\ chore \in [Hands -> Chores \cup {NoChore}]
  /\ attempt \in [Hands -> 1..Attempts] /\ lane \in [Hands -> [Lanes -> LaneStates]]
  /\ \A h \in Hands : Where(h, "idle") <=> chore[h] = NoChore

\* up.go:244-257, quickstart.go:75-77: a command that reported success, and
\* whose runtime nobody touched since, has left what its name says.
SuccessMeans ==
  \A h \in Hands : ~undone[h] =>
    CASE achieved[h] = "cluster" -> cluster = "serving" /\ "dns" \in up
      [] achieved[h] = "up" -> pulled /\ chart = "full" /\ {"dns", "ollama", "kagent"} \cup Lanes \subseteq up
      [] achieved[h] = "quickstart" -> pulled /\ {"dns", "ollama", "kagent", "agent"} \subseteq up
      [] achieved[h] = "tools-agent" -> chart = "full" /\ "tools-agent" \in up
      [] OTHER -> TRUE

\* lanes.go:104-110: no lane outlives its command, and no command its lanes.
NoLaneLeftBehind == \A h \in Hands : LanesRunning(h) # {} => Where(h, "lanes")

\* A command's word holds when it ends, and it ends after its lanes
\* (up.go:244-257, lanes.go:104-110).
BringupIsWhole == SuccessMeans /\ NoLaneLeftBehind
=============================================================================

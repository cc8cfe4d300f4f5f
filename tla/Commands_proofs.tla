--------------------------- MODULE Commands_proofs ---------------------------
(***************************************************************************)
(* What people do with kmx, for any number of them: what the word of kmx   *)
(* up is worth whatever the engine does (Bringup), the plane's deployment  *)
(* and its database (Plane), and what becomes of an agent and of the       *)
(* credential in its Secret (Agents).                                      *)
(***************************************************************************)
EXTENDS Agents, Plane, Bringup, FiniteSetTheorems, SequenceTheorems, TLAPS

(* Bringup. *)

(* Types of what the steps go through. *)

BringupTypes ==
  /\ point \in [Hands -> Points] /\ chore \in [Hands -> Chores \cup {NoChore}]
  /\ lane \in [Hands -> [Lanes -> LaneStates]]
  /\ undone \in [Hands -> BOOLEAN] /\ achieved \in [Hands -> Chores \cup {NoChore}]
  /\ attempt \in [Hands -> 1..Attempts]

Journeys == {"up", "quickstart"}
Journey(h) == chore[h] \in Journeys

\* Whose commands come by a place.
ComeBy(p) ==
  CASE p \in {"cluster", "serving", "dns"} -> {"cluster"} \cup Journeys
    [] p \in {"ollama", "ollamaUp"} -> {"ollama"} \cup Journeys
    [] p = "model" -> {"model"} \cup Journeys
    [] p \in {"kagent", "kagentUp"} -> {"kagent"} \cup Journeys
    [] p = "lanes" -> Lanes \cup Journeys
    [] p = "last" -> Journeys
    [] p = "delete" -> {"down"}
    [] p = "idle" -> {NoChore}

\* Places of a journey, by what lies behind it.
PastDns == {"ollama", "ollamaUp", "model", "kagent", "kagentUp", "lanes", "last"}
PastOllama == PastDns \ {"ollama", "ollamaUp"}
PastModel == PastOllama \ {"model"}
PastInstall == PastModel \ {"kagent"}
PastKagent == {"lanes", "last"}

\* What a command has seen by the place it is at.
Behind(h) ==
  /\ Journey(h) =>
       /\ point[h] \in PastDns => "dns" \in up
       /\ point[h] \in PastOllama => "ollama" \in up
       /\ point[h] \in PastModel => pulled
       /\ point[h] \in PastInstall => chart = Profile(h)
       /\ point[h] \in PastKagent => "kagent" \in up
  /\ point[h] = "lanes" => \A l \in Lanes : lane[h][l] = "done" => l \in up
  /\ point[h] = "last" => LanesOf(chore[h]) \subseteq up
  /\ point[h] = "lanes" /\ chore[h] = "tools-agent" /\ lane[h]["tools-agent"] \in {"apply", "ready", "done"} =>
       chart = "full"

\* SuccessMeans of one person.
Meant(h) ==
  /\ achieved[h] = "cluster" => cluster = "serving" /\ "dns" \in up
  /\ achieved[h] = "up" => pulled /\ chart = "full" /\ {"dns", "ollama", "kagent"} \cup Lanes \subseteq up
  /\ achieved[h] = "quickstart" => pulled /\ {"dns", "ollama", "kagent", "agent"} \subseteq up
  /\ achieved[h] = "tools-agent" => chart = "full" /\ "tools-agent" \in up

\* Where a command may be, its lanes, and what its success rests on.
Placed(h) ==
  /\ achieved[h] # NoChore => point[h] = "idle"
  /\ point[h] # "lanes" => LanesRunning(h) = {}
  /\ chore[h] \in ComeBy(point[h])
  /\ point[h] = "lanes" => \A l \in Lanes : lane[h][l] = "off" <=> l \notin LanesOf(chore[h])
  /\ ~undone[h] => Behind(h) /\ Meant(h)

BringupInv == BringupTypes /\ \A h \in Hands : Placed(h)

LEMMA BringupTypeInit == BringupInit => BringupTypes
  BY DEF BringupInit, BringupTypes, Points, LaneStates, NoLanes, Attempts

LEMMA BringupTypeStep == BringupTypes /\ [BringupNext]_bringupVars => BringupTypes'
<1> SUFFICES ASSUME BringupTypes, [BringupNext]_bringupVars PROVE BringupTypes'
  OBVIOUS
<1> USE DEF BringupTypes
<1>1. CASE UNCHANGED bringupVars
  BY <1>1 DEF bringupVars, runtime, commandsOf
<1>2. CASE EngineRestarts \/ Returns \/ Boots \/ \E x \in Parts : PartReady(x)
  BY <1>2 DEF EngineRestarts, Returns, Boots, PartReady, same, commandsOf
<1>3. ASSUME NEW h \in Hands, Progresses(h) \/ ChoreFails(h) PROVE BringupTypes'
  <2>1. ASSUME GivesUp(h), UNCHANGED undone, UNCHANGED achieved \/ achieved' = [achieved EXCEPT ![h] = chore[h]] PROVE BringupTypes'
    BY <2>1 DEF GivesUp, Points, LaneStates, NoLanes, Attempts
  <2>2. ASSUME NEW p \in Points, Onward(h, p), UNCHANGED undone, UNCHANGED achieved PROVE BringupTypes'
    BY <2>2 DEF Onward
  <2>3. CASE StepCluster(h) \/ Serves(h) \/ StepOllama(h)
    BY <1>3, <2>2, <2>3 DEF StepCluster, Serves, StepOllama, Points
  <2>4. CASE DnsServes(h) \/ OllamaServes(h) \/ LastPhase(h) \/ Join(h) \/ ChoreFails(h)
    BY <2>1, <2>2, <2>4 DEF DnsServes, OllamaServes, LastPhase, Join, ChoreFails, NextStep, Achieves, Points
  <2>5. CASE StepModel(h)
    <3>1. CASE attempt' = [attempt EXCEPT ![h] = @ + 1] /\ UNCHANGED <<pulled, point, chore, lane, achieved>> /\ attempt[h] < Attempts
      <4>1. attempt[h] + 1 \in 1..Attempts
        BY <3>1 DEF Attempts
      <4>2. QED
        BY <2>5, <3>1, <4>1 DEF StepModel
    <3>2. QED
      BY <2>1, <2>2, <2>5, <3>1 DEF StepModel, NextStep, Achieves, Points
  <2>6. CASE InstallKagent(h)
    BY <2>6 DEF InstallKagent, Onward, Disturbs, Points
  <2>7. CASE KagentServes(h)
    BY <2>1, <2>7 DEF KagentServes, Achieves, Started, Points, LaneStates
  <2>8. CASE Delete(h)
    BY <2>8 DEF Delete, Achieves, GivesUp, Disturbs, Points, LaneStates, NoLanes, Attempts
  <2>9. ASSUME NEW l \in Lanes, LaneAccepted(h, l) \/ LaneApplies(h, l) \/ LaneReady(h, l) \/ LaneFails(h, l) PROVE BringupTypes'
    <3>1. ASSUME NEW s \in LaneStates, LaneTo(h, l, s) PROVE BringupTypes'
      <4>1. [lane EXCEPT ![h][l] = s] \in [Hands -> [Lanes -> LaneStates]]
        OBVIOUS
      <4>2. QED
        BY <3>1, <4>1 DEF LaneTo
    <3>2. {"apply", "ready", "done", "failed"} \subseteq LaneStates
      BY DEF LaneStates
    <3>3. QED
      BY <2>9, <3>1, <3>2 DEF LaneAccepted, LaneApplies, LaneReady, LaneFails
  <2>10. QED
    BY <1>3, <2>3, <2>4, <2>5, <2>6, <2>7, <2>8, <2>9 DEF Progresses
<1>4. ASSUME NEW h \in Hands, NEW k \in Chores, GiveChore(h, k) PROVE BringupTypes'
  <2>1. FirstPoint(k) \in Points
    <3>1. k \in {"cluster", "ollama", "model", "kagent", "agent", "tools-agent", "up", "quickstart", "down"}
      BY BringupAssumption DEF Commands, UpSteps, Lanes
    <3>2. QED
      BY <3>1 DEF FirstPoint, Points, Lanes
  <2>2. Started(k) \in [Lanes -> LaneStates] /\ NoLanes \in [Lanes -> LaneStates]
    BY DEF Started, NoLanes, LaneStates
  <2>3. QED
    BY <1>4, <2>1, <2>2 DEF GiveChore
<1>5. QED
  BY <1>1, <1>2, <1>3, <1>4 DEF BringupNext

-----------------------------------------------------------------------------
(* Steps of others and of the engine. *)

\* Nothing that a success rests on is taken away.
Improves ==
  /\ up \subseteq up' /\ (pulled => pulled') /\ chart' = chart
  /\ cluster = "serving" => cluster' = "serving"

Untouched(h) ==
  /\ point'[h] = point[h] /\ chore'[h] = chore[h] /\ lane'[h] = lane[h] /\ achieved'[h] = achieved[h]
  /\ undone'[h] \/ (undone'[h] = undone[h] /\ Improves)

LEMMA UntouchedStays ==
  ASSUME NEW h \in Hands, BringupTypes, Placed(h), Untouched(h)
  PROVE  Placed(h)'
<1>1. Behind(h) /\ Improves => Behind(h)'
  BY DEF Behind, Improves, Untouched, Journey, Journeys, Profile
<1>2. Meant(h) /\ Improves => Meant(h)'
  BY DEF Meant, Improves, Untouched
<1>3. undone'[h] \/ (Behind(h) /\ Meant(h))'
  BY <1>1, <1>2 DEF Placed, Untouched
<1>4. QED
  BY <1>3 DEF Placed, Untouched, LanesRunning, ComeBy

LEMMA EngineStep ==
  ASSUME NEW h \in Hands, BringupTypes, EngineRestarts \/ Returns \/ Boots \/ \E x \in Parts : PartReady(x)
  PROVE  Untouched(h)
BY DEF EngineRestarts, Returns, Boots, PartReady, same, commandsOf, Untouched, Improves, BringupTypes

LEMMA OthersStep ==
  ASSUME NEW h \in Hands, NEW g \in Hands, g # h, BringupTypes,
         Progresses(g) \/ ChoreFails(g) \/ \E k \in Chores : GiveChore(g, k)
  PROVE  Untouched(h)
<1> USE DEF BringupTypes, Untouched, Improves, runtime
<1>1. ASSUME GivesUp(g) PROVE point'[h] = point[h] /\ chore'[h] = chore[h] /\ lane'[h] = lane[h]
  BY <1>1 DEF GivesUp
<1>2. ASSUME Achieves(g) PROVE point'[h] = point[h] /\ chore'[h] = chore[h] /\ lane'[h] = lane[h] /\ achieved'[h] = achieved[h]
  BY <1>1, <1>2 DEF Achieves
<1>3. CASE StepCluster(g) \/ Serves(g) \/ StepOllama(g)
  BY <1>3 DEF StepCluster, Serves, StepOllama, Onward
<1>4. CASE DnsServes(g) \/ OllamaServes(g) \/ LastPhase(g) \/ Join(g) \/ ChoreFails(g)
  BY <1>1, <1>2, <1>4 DEF DnsServes, OllamaServes, LastPhase, Join, ChoreFails, NextStep, Onward
<1>5. CASE StepModel(g)
  BY <1>1, <1>2, <1>5 DEF StepModel, NextStep, Onward
<1>6. CASE InstallKagent(g)
  BY <1>6 DEF InstallKagent, Onward, Disturbs
<1>7. CASE KagentServes(g)
  BY <1>2, <1>7 DEF KagentServes
<1>8. CASE Delete(g)
  BY <1>2, <1>8 DEF Delete, Disturbs
<1>9. ASSUME NEW l \in Lanes, LaneAccepted(g, l) \/ LaneApplies(g, l) \/ LaneReady(g, l) \/ LaneFails(g, l) PROVE Untouched(h)
  BY <1>9 DEF LaneAccepted, LaneApplies, LaneReady, LaneFails, LaneTo
<1>10. ASSUME NEW k \in Chores, GiveChore(g, k) PROVE Untouched(h)
  BY <1>10 DEF GiveChore
<1>11. QED
  BY <1>3, <1>4, <1>5, <1>6, <1>7, <1>8, <1>9, <1>10 DEF Progresses

-----------------------------------------------------------------------------
(* A person's own steps. *)

\* A command that ends without a word.
LEMMA Ends ==
  ASSUME NEW h \in Hands, BringupTypes, GivesUp(h), achieved'[h] = NoChore \/ achieved'[h] = chore[h]
  PROVE  /\ point'[h] = "idle" /\ LanesRunning(h)' = {}
         /\ Behind(h)' /\ (chore[h] \in ComeBy(point[h]))'
<1>1. point'[h] = "idle" /\ chore'[h] = NoChore /\ lane'[h] = NoLanes
  BY DEF GivesUp, BringupTypes
<1>2. LanesRunning(h)' = {}
  BY <1>1 DEF LanesRunning, NoLanes
<1>3. NoChore \notin {"up", "quickstart"}
  BY BringupAssumption DEF Commands
<1>4. QED
  BY <1>1, <1>2, <1>3 DEF Behind, Journey, Journeys, ComeBy, Points

LEMMA EndsSilent ==
  ASSUME NEW h \in Hands, BringupTypes, Placed(h), point[h] # "idle", GivesUp(h), UNCHANGED achieved
  PROVE  Placed(h)'
<1>1. achieved[h] = NoChore /\ achieved' = achieved
  BY DEF Placed
<1>2. Meant(h)'
  BY <1>1, BringupAssumption DEF Meant, Commands, UpSteps, Lanes
<1>3. point'[h] = "idle" /\ LanesRunning(h)' = {} /\ Behind(h)' /\ (chore[h] \in ComeBy(point[h]))'
  BY <1>1, Ends
<1>4. QED
  BY <1>2, <1>3 DEF Placed

LEMMA EndsWell ==
  ASSUME NEW h \in Hands, BringupTypes, Placed(h), Achieves(h),
         undone'[h] \/
         /\ chore[h] = "cluster" => cluster' = "serving" /\ "dns" \in up'
         /\ chore[h] = "up" => pulled' /\ chart' = "full" /\ {"dns", "ollama", "kagent"} \cup Lanes \subseteq up'
         /\ chore[h] = "quickstart" => pulled' /\ {"dns", "ollama", "kagent", "agent"} \subseteq up'
         /\ chore[h] = "tools-agent" => chart' = "full" /\ "tools-agent" \in up'
  PROVE  Placed(h)'
<1>1. GivesUp(h) /\ achieved'[h] = chore[h]
  BY DEF Achieves, BringupTypes
<1>2. undone'[h] \/ Meant(h)'
  BY <1>1 DEF Meant
<1>3. point'[h] = "idle" /\ LanesRunning(h)' = {} /\ Behind(h)' /\ (chore[h] \in ComeBy(point[h]))'
  BY <1>1, Ends
<1>4. QED
  BY <1>2, <1>3 DEF Placed

LEMMA Given ==
  ASSUME NEW h \in Hands, NEW k \in Chores, BringupTypes, Placed(h), GiveChore(h, k)
  PROVE  Placed(h)'
<1>1. /\ point'[h] = FirstPoint(k) /\ chore'[h] = k /\ achieved'[h] = NoChore
      /\ lane'[h] = IF k \in Lanes THEN Started(k) ELSE NoLanes
      /\ up' = up /\ cluster' = cluster /\ pulled' = pulled /\ chart' = chart
  BY DEF GiveChore, BringupTypes, runtime
<1>2. k \in {"cluster", "ollama", "model", "kagent", "agent", "tools-agent", "up", "quickstart", "down"}
  BY BringupAssumption DEF Commands, UpSteps, Lanes
<1>3. /\ k \in Lanes <=> FirstPoint(k) = "lanes"
      /\ FirstPoint(k) \in {"cluster", "delete", "ollama", "model", "kagent", "lanes"}
      /\ k \in Journeys => FirstPoint(k) = "cluster"
      /\ k \in ComeBy(FirstPoint(k))
  BY <1>2 DEF FirstPoint, Lanes, ComeBy, Journeys
<1>4. k \notin Lanes => LanesRunning(h)' = {}
  BY <1>1 DEF LanesRunning, NoLanes
<1>5. k \in Lanes => \A l \in Lanes : (lane'[h][l] = "off" <=> l \notin LanesOf(k)) /\ lane'[h][l] \in {"off", "apply", "accepted"}
  <2> SUFFICES ASSUME k \in Lanes, NEW l \in Lanes
               PROVE  (lane'[h][l] = "off" <=> l \notin LanesOf(k)) /\ lane'[h][l] \in {"off", "apply", "accepted"}
    OBVIOUS
  <2>1. lane'[h][l] = Started(k)[l]
    BY <1>1
  <2>2. CASE l \notin LanesOf(k)
    BY <2>1, <2>2 DEF Started
  <2>3. CASE l \in LanesOf(k) /\ l = "agent"
    BY <2>1, <2>3 DEF Started
  <2>4. CASE l \in LanesOf(k) /\ l # "agent"
    BY <2>1, <2>4 DEF Started
  <2>5. QED
    BY <2>2, <2>3, <2>4
<1>6. Meant(h)'
  BY <1>1, BringupAssumption DEF Meant, Commands, UpSteps, Lanes
<1>7. Behind(h)'
  <2>1. chore'[h] = "tools-agent" => lane'[h]["tools-agent"] = "accepted"
    BY <1>1 DEF Started, LanesOf, Lanes
  <2>2. QED
    BY <1>1, <1>3, <1>5, <2>1 DEF Behind, Journey, Journeys, PastDns, PastOllama, PastModel, PastInstall, PastKagent, Lanes
<1>8. QED
  BY <1>1, <1>3, <1>4, <1>5, <1>6, <1>7 DEF Placed

\* A step forward outside the lanes.
LEMMA Forward ==
  ASSUME NEW h \in Hands, NEW p \in {"serving", "dns", "ollama", "ollamaUp", "model", "kagent", "kagentUp"},
         BringupTypes, Placed(h), point[h] \notin {"idle", "lanes"},
         Onward(h, p), UNCHANGED achieved, undone'[h] = undone[h],
         chore[h] \in ComeBy(p),
         undone[h] \/
         (Journey(h) =>
            /\ p \in PastDns => "dns" \in up'
            /\ p \in PastOllama => "ollama" \in up'
            /\ p \in PastModel => pulled'
            /\ p \in PastInstall => chart' = Profile(h))
  PROVE  Placed(h)'
<1>1. point'[h] = p /\ chore'[h] = chore[h] /\ lane'[h] = lane[h]
  BY DEF Onward, BringupTypes
<1>2. achieved'[h] = NoChore
  BY DEF Placed
<1>3. Meant(h)'
  BY <1>2, BringupAssumption DEF Meant, Commands, UpSteps, Lanes
<1>4. undone'[h] \/ Behind(h)'
  BY <1>1 DEF Behind, Journey, PastKagent, Profile
<1>5. LanesRunning(h)' = {}
  BY <1>1 DEF Placed, LanesRunning
<1>6. QED
  BY <1>1, <1>2, <1>3, <1>4, <1>5 DEF Placed

\* Whose step it is, by where they are.
LEMMA Comes ==
  ASSUME NEW h \in Hands, Placed(h)
  PROVE  /\ point[h] \in {"cluster", "serving", "dns"} => chore[h] \in {"cluster"} \cup Journeys
         /\ point[h] \in {"ollama", "ollamaUp"} => chore[h] \in {"ollama"} \cup Journeys
         /\ point[h] = "model" => chore[h] \in {"model"} \cup Journeys
         /\ point[h] \in {"kagent", "kagentUp"} => chore[h] \in {"kagent"} \cup Journeys
         /\ point[h] = "lanes" => chore[h] \in Lanes \cup Journeys
         /\ point[h] = "last" => chore[h] \in Journeys
         /\ point[h] = "delete" => chore[h] = "down"
BY DEF Placed, ComeBy

\* Joining the lanes, every one of which is done.
LEMMA Joined ==
  ASSUME NEW h \in Hands, BringupTypes, Placed(h), Where(h, "lanes"), LanesRunning(h) = {}, LanesFailed(h) = {},
         UNCHANGED <<runtime, undone>>,
         IF Lasts(h) THEN Achieves(h) ELSE Onward(h, "last") /\ UNCHANGED achieved
  PROVE  Placed(h)'
<1> USE DEF BringupTypes, Where
<1>1. \A l \in Lanes : lane[h][l] \in {"off", "done"}
  BY DEF LanesRunning, LanesFailed, LaneStates
<1>0. LanesOf(chore[h]) \subseteq Lanes
  BY DEF LanesOf, Lanes
<1>2. \A l \in LanesOf(chore[h]) : lane[h][l] = "done"
  BY <1>0, <1>1 DEF Placed
<1>3. undone[h] \/ LanesOf(chore[h]) \subseteq up
  BY <1>0, <1>2 DEF Placed, Behind
<1>4. chore[h] \in Lanes \cup Journeys
  BY Comes
<1>5. CASE Lasts(h)
  <2>1. chore[h] \in Lanes
    BY <1>4, <1>5 DEF Lasts, UpSteps, Journeys, Lanes
  <2>2. undone[h] \/ chore[h] # "tools-agent" \/ (chart = "full" /\ "tools-agent" \in up)
    BY <1>2, <1>3 DEF Placed, Behind, LanesOf, Lanes
  <2>3. QED
    BY <1>5, <2>1, <2>2, EndsWell DEF Lanes, runtime
<1>6. CASE ~Lasts(h)
  <2>1. chore[h] \in Journeys
    BY <1>4, <1>6 DEF Lasts, UpSteps
  <2>2. point'[h] = "last" /\ chore'[h] = chore[h] /\ lane'[h] = lane[h] /\ achieved' = achieved
    BY <1>6 DEF Onward
  <2>3. undone'[h] \/ Behind(h)'
    BY <1>3, <2>1, <2>2 DEF Placed, Behind, Journey, PastDns, PastOllama, PastModel, PastInstall, PastKagent, runtime, Profile, LanesOf
  <2>4. Meant(h)'
    BY <2>2, BringupAssumption DEF Placed, Meant, Commands, UpSteps, Lanes
  <2>5. LanesRunning(h)' = {}
    BY <2>2 DEF LanesRunning
  <2>6. QED
    BY <2>1, <2>2, <2>3, <2>4, <2>5 DEF Placed, ComeBy
<1>7. QED
  BY <1>5, <1>6

\* A step within a lane.
LEMMA LaneStep ==
  ASSUME NEW h \in Hands, NEW l \in Lanes, BringupTypes, Placed(h),
         LaneAccepted(h, l) \/ LaneApplies(h, l) \/ LaneReady(h, l) \/ LaneFails(h, l)
  PROVE  Placed(h)'
<1> USE DEF BringupTypes
<1>1. PICK s \in {"apply", "ready", "done", "failed"} :
        /\ point[h] = "lanes" /\ lane[h][l] \in {"accepted", "apply", "ready"}
        /\ lane' = [lane EXCEPT ![h][l] = s] /\ UNCHANGED <<point, chore, attempt, undone, achieved>>
        /\ UNCHANGED <<up, pulled, chart, cluster>>
        /\ s = "done" => l \in up
        /\ s = "apply" => chart = "full"
        /\ s \in {"ready", "done"} => lane[h][l] \in {"apply", "ready"}
  BY DEF LaneAccepted, LaneApplies, LaneReady, LaneFails, InLane, LaneTo, Where, runtime
<1>2. \A m \in Lanes : lane'[h][m] = IF m = l THEN s ELSE lane[h][m]
  BY <1>1
<1>3. \A m \in Lanes : lane'[h][m] = "off" <=> lane[h][m] = "off"
  BY <1>1, <1>2
<1>4. Behind(h) => Behind(h)'
  <2> SUFFICES ASSUME Behind(h) PROVE Behind(h)'
    OBVIOUS
  <2>1. Journey(h)' => (/\ point[h] \in PastDns => "dns" \in up
                        /\ point[h] \in PastOllama => "ollama" \in up
                        /\ point[h] \in PastModel => pulled
                        /\ point[h] \in PastInstall => chart = Profile(h)
                        /\ point[h] \in PastKagent => "kagent" \in up)
    BY <1>1 DEF Behind, Journey
  <2>2. \A m \in Lanes : lane'[h][m] = "done" => m \in up
    BY <1>1, <1>2 DEF Behind
  <2>3. chore[h] = "tools-agent" => (lane'[h]["tools-agent"] \in {"apply", "ready", "done"} => chart = "full")
    BY <1>1, <1>2 DEF Behind, Lanes
  <2>4. QED
    BY <1>1, <2>1, <2>2, <2>3 DEF Behind, Profile
<1>5. Meant(h) => Meant(h)'
  BY <1>1 DEF Meant
<1>6. QED
  BY <1>1, <1>3, <1>4, <1>5 DEF Placed, ComeBy, LanesOf

LEMMA OwnStep ==
  ASSUME NEW h \in Hands, BringupTypes, Placed(h), Progresses(h) \/ ChoreFails(h)
  PROVE  Placed(h)'
<1> USE DEF BringupTypes, Where
<1>0. undone[h] \in BOOLEAN /\ (~undone[h] => Behind(h))
  BY DEF Placed
<1>1. CASE ChoreFails(h)
  BY <1>1, EndsSilent DEF ChoreFails
<1>2. CASE StepCluster(h)
  BY <1>2, Comes, Forward DEF StepCluster, ComeBy, PastDns, PastOllama, PastModel, PastInstall
<1>3. CASE Serves(h)
  BY <1>3, Comes, Forward DEF Serves, ComeBy, PastDns, PastOllama, PastModel, PastInstall
<1>4. CASE DnsServes(h)
  <2>1. chore[h] \in {"cluster"} \cup Journeys
    BY <1>4, Comes DEF DnsServes
  <2>2. CASE Lasts(h)
    BY <1>4, <2>1, <2>2, EndsWell DEF DnsServes, NextStep, Lasts, UpSteps, runtime, Lanes, Journeys
  <2>3. CASE ~Lasts(h)
    <3>1. chore[h] \in ComeBy("ollama")
      BY <2>1, <2>3 DEF Lasts, UpSteps, ComeBy
    <3>2. QED
      BY <1>4, <2>3, <3>1, Forward DEF DnsServes, NextStep, runtime, PastOllama, PastModel, PastInstall
  <2>4. QED
    BY <2>2, <2>3
<1>5. CASE StepOllama(h)
  <2>1. chore[h] \in ComeBy("ollamaUp")
    BY <1>5, Comes DEF StepOllama, ComeBy
  <2>2. undone[h] \/ (Journey(h) => "dns" \in up)
    BY <1>0, <1>5 DEF Behind, StepOllama, PastDns
  <2>3. QED
    BY <1>5, <2>1, <2>2, Forward DEF StepOllama, PastOllama, PastModel, PastInstall
<1>6. CASE OllamaServes(h)
  <2>1. chore[h] \in {"ollama"} \cup Journeys
    BY <1>6, Comes DEF OllamaServes
  <2>2. CASE Lasts(h)
    BY <1>6, <2>1, <2>2, EndsWell DEF OllamaServes, NextStep, Lasts, UpSteps, Lanes, Journeys
  <2>3. CASE ~Lasts(h)
    <3>1. chore[h] \in ComeBy("model")
      BY <2>1, <2>3 DEF Lasts, UpSteps, ComeBy
    <3>2. undone[h] \/ (Journey(h) => "dns" \in up)
      BY <1>0, <1>6 DEF Behind, OllamaServes, PastDns
    <3>3. QED
      BY <1>6, <2>3, <3>1, <3>2, Forward DEF OllamaServes, NextStep, runtime, PastModel, PastInstall
  <2>4. QED
    BY <2>2, <2>3
<1>7. CASE StepModel(h)
  <2>1. chore[h] \in {"model"} \cup Journeys
    BY <1>7, Comes DEF StepModel
  <2>2. CASE pulled' = TRUE /\ {"ollama", "dns"} \subseteq up /\ NextStep(h, "kagent")
    <3>1. CASE Lasts(h)
      BY <1>7, <2>1, <2>2, <3>1, EndsWell DEF StepModel, NextStep, Lasts, UpSteps, Lanes, Journeys
    <3>2. CASE ~Lasts(h)
      <4>1. chore[h] \in ComeBy("kagent")
        BY <2>1, <3>2 DEF Lasts, UpSteps, ComeBy
      <4>2. QED
        BY <1>7, <2>2, <3>2, <4>1, Forward DEF StepModel, NextStep, PastInstall
    <3>3. QED
      BY <3>1, <3>2
  <2>3. CASE UNCHANGED <<pulled, point, chore, lane, achieved>>
    BY <1>7, <2>3, UntouchedStays DEF StepModel, Untouched, Improves
  <2>4. CASE UNCHANGED <<pulled, achieved>> /\ GivesUp(h)
    BY <1>7, <2>4, EndsSilent DEF StepModel
  <2>5. QED
    BY <1>7, <2>2, <2>3, <2>4 DEF StepModel
<1>8. CASE InstallKagent(h)
  <2>1. chore[h] \in ComeBy("kagentUp")
    BY <1>8, Comes DEF InstallKagent, ComeBy
  <2>2. undone[h] \/ (Journey(h) => "dns" \in up /\ "ollama" \in up /\ pulled)
    BY <1>0, <1>8 DEF Behind, InstallKagent, PastDns, PastOllama, PastModel
  <2>3. undone'[h] = undone[h] /\ chart' = Profile(h) /\ up \ {"kagent"} \subseteq up' /\ pulled' = pulled
    BY <1>8 DEF InstallKagent, Disturbs
  <2>4. point[h] = "kagent" /\ Onward(h, "kagentUp") /\ UNCHANGED achieved
    BY <1>8 DEF InstallKagent
  <2>5. QED
    BY <2>1, <2>2, <2>3, <2>4, Forward
<1>9. CASE KagentServes(h)
  <2>1. chore[h] \in {"kagent"} \cup Journeys
    BY <1>9, Comes DEF KagentServes
  <2>2. CASE Lasts(h)
    BY <1>9, <2>1, <2>2, EndsWell DEF KagentServes, Lasts, UpSteps, Lanes, Journeys
  <2>3. CASE ~Lasts(h)
    <3>1. chore[h] \in Journeys
      BY <2>1, <2>3 DEF Lasts, UpSteps
    <3>2. /\ point'[h] = "lanes" /\ chore'[h] = chore[h] /\ lane'[h] = Started(chore[h])
          /\ achieved' = achieved /\ undone' = undone /\ UNCHANGED runtime /\ "kagent" \in up
      BY <1>9, <2>3 DEF KagentServes
    <3>3. \A l \in Lanes : (lane'[h][l] = "off" <=> l \notin LanesOf(chore[h])) /\ lane'[h][l] # "done"
      <4> SUFFICES ASSUME NEW l \in Lanes
                   PROVE  (lane'[h][l] = "off" <=> l \notin LanesOf(chore[h])) /\ lane'[h][l] # "done"
        OBVIOUS
      <4>1. lane'[h][l] = IF l \notin LanesOf(chore[h]) THEN "off" ELSE IF l = "agent" THEN "apply" ELSE "accepted"
        BY <3>2 DEF Started
      <4>2. QED
        BY <4>1
    <3>4. undone'[h] \/ Behind(h)'
      <4>1. undone[h] \/ ("dns" \in up /\ "ollama" \in up /\ pulled /\ chart = Profile(h))
        BY <1>0, <1>9, <3>1 DEF Behind, KagentServes, Journey, PastDns, PastOllama, PastModel, PastInstall
      <4>2. QED
        BY <3>1, <3>2, <3>3, <4>1 DEF Behind, Journey, Journeys, runtime, Profile
    <3>5. Meant(h)' /\ achieved'[h] = NoChore
      BY <1>9, <3>2, BringupAssumption DEF KagentServes, Placed, Meant, Commands, UpSteps, Lanes
    <3>6. QED
      BY <3>1, <3>2, <3>3, <3>4, <3>5 DEF Placed, ComeBy, LanesOf
  <2>4. QED
    BY <2>2, <2>3
<1>10. CASE Join(h)
  <2>1. CASE LanesFailed(h) # {}
    BY <1>10, <2>1, EndsSilent DEF Join
  <2>2. CASE LanesFailed(h) = {}
    BY <1>10, <2>2, Joined DEF Join
  <2>3. QED
    BY <2>1, <2>2
<1>11. CASE LastPhase(h)
  <2>1. chore[h] \in Journeys
    BY <1>11, Comes DEF LastPhase
  <2>2. undone[h] \/ ({"dns", "ollama", "kagent"} \subseteq up /\ pulled /\ chart = Profile(h) /\ LanesOf(chore[h]) \subseteq up)
    BY <1>0, <1>11, <2>1 DEF Behind, LastPhase, Journey, PastDns, PastOllama, PastModel, PastInstall, PastKagent
  <2>3. QED
    BY <1>11, <2>1, <2>2, EndsWell DEF LastPhase, Journeys, Profile, LanesOf, runtime
<1>12. CASE Delete(h)
  <2>1. chore[h] = "down"
    BY <1>12, Comes DEF Delete
  <2>2. QED
    BY <1>12, <2>1, EndsWell DEF Delete
<1>13. CASE \E l \in Lanes : LaneAccepted(h, l) \/ LaneApplies(h, l) \/ LaneReady(h, l) \/ LaneFails(h, l)
  BY <1>13, LaneStep
<1>14. QED
  BY <1>1, <1>2, <1>3, <1>4, <1>5, <1>6, <1>7, <1>8, <1>9, <1>10, <1>11, <1>12, <1>13 DEF Progresses

-----------------------------------------------------------------------------
(* The theorem. *)

LEMMA PlacedInit == ASSUME NEW h \in Hands, BringupInit PROVE Placed(h)
<1>1. achieved[h] = NoChore /\ point[h] = "idle" /\ chore[h] = NoChore /\ lane[h] = NoLanes
  BY DEF BringupInit
<1>2. LanesRunning(h) = {}
  BY <1>1 DEF LanesRunning, NoLanes
<1>3. NoChore \notin Journeys /\ Meant(h)
  BY <1>1, BringupAssumption DEF Commands, Journeys, Meant, UpSteps, Lanes
<1>4. Behind(h)
  BY <1>1, <1>3 DEF Behind, Journey
<1>5. QED
  BY <1>1, <1>2, <1>3, <1>4 DEF Placed, ComeBy

LEMMA PlacedStep ==
  ASSUME NEW h \in Hands, BringupTypes, Placed(h), [BringupNext]_bringupVars
  PROVE  Placed(h)'
<1>1. CASE UNCHANGED bringupVars
  BY <1>1, UntouchedStays DEF bringupVars, runtime, commandsOf, Untouched, Improves
<1>2. CASE EngineRestarts \/ Returns \/ Boots \/ \E x \in Parts : PartReady(x)
  BY <1>2, EngineStep, UntouchedStays
<1>3. ASSUME NEW g \in Hands, Progresses(g) \/ ChoreFails(g) \/ \E k \in Chores : GiveChore(g, k)
      PROVE  Placed(h)'
  <2>1. CASE g = h
    BY <1>3, <2>1, OwnStep, Given
  <2>2. CASE g # h
    BY <1>3, <2>2, OthersStep, UntouchedStays
  <2>3. QED
    BY <2>1, <2>2
<1>4. QED
  BY <1>1, <1>2, <1>3 DEF BringupNext

LEMMA BringupSafe == BringupSpec => []BringupInv
<1>1. BringupInit => BringupInv
  BY BringupTypeInit, PlacedInit DEF BringupInv
<1>2. BringupInv /\ [BringupNext]_bringupVars => BringupInv'
  BY BringupTypeStep, PlacedStep DEF BringupInv
<1>3. QED
  BY <1>1, <1>2, PTL DEF BringupSpec

\* up.go:244-257, quickstart.go:75-77, lanes.go:104-110: for any number of
\* people and whatever the engine does under them, a command that ended in
\* success left what its name says, as long as nobody touched that since, and
\* it ended after all of its lanes.
THEOREM WordIsKept == BringupSpec => []BringupIsWhole
<1>1. BringupInv => SuccessMeans
  <2> SUFFICES ASSUME BringupInv, NEW h \in Hands, ~undone[h]
               PROVE  CASE achieved[h] = "cluster" -> cluster = "serving" /\ "dns" \in up
                        [] achieved[h] = "up" -> pulled /\ chart = "full" /\ {"dns", "ollama", "kagent"} \cup Lanes \subseteq up
                        [] achieved[h] = "quickstart" -> pulled /\ {"dns", "ollama", "kagent", "agent"} \subseteq up
                        [] achieved[h] = "tools-agent" -> chart = "full" /\ "tools-agent" \in up
                        [] OTHER -> TRUE
    BY DEF SuccessMeans
  <2>1. Meant(h)
    BY DEF BringupInv, Placed
  <2>2. CASE achieved[h] = "cluster"
    BY <2>1, <2>2 DEF Meant
  <2>3. CASE achieved[h] = "up"
    BY <2>1, <2>3 DEF Meant
  <2>4. CASE achieved[h] = "quickstart"
    BY <2>1, <2>4 DEF Meant
  <2>5. CASE achieved[h] = "tools-agent"
    BY <2>1, <2>5 DEF Meant
  <2>6. CASE achieved[h] \notin {"cluster", "up", "quickstart", "tools-agent"}
    BY <2>6
  <2>7. QED
    BY <2>2, <2>3, <2>4, <2>5, <2>6
<1>2. BringupInv => NoLaneLeftBehind
  BY DEF BringupInv, Placed, NoLaneLeftBehind, Where
<1>3. QED
  BY <1>1, <1>2, BringupSafe, PTL DEF BringupIsWhole

-----------------------------------------------------------------------------
(* The plane. *)

DumpRecord == [version : Nat, whole : BOOLEAN]
PodRecord == [revision : Nat, build : Builds, leaving : BOOLEAN]
MemoRecord == [replicas : Nat, dump : DumpRecord \cup {Unset}, secret : Generated \cup {Unset}]

PlaneTypes ==
  /\ tagged \in Builds \cup {Unset} /\ loaded \in Builds \cup {Unset}
  /\ generated \in [Generated -> Crew \cup {Unset}]
  /\ proxy \in [replicas : Nat, revision : Nat] \cup {Unset}
  /\ proxies \in [Slots -> PodRecord \cup {Unset}]
  /\ database \in Nat /\ dumps \in [Dumps -> DumpRecord \cup {Unset}]
  /\ stage \in [Crew -> Stations] /\ errand \in [Crew -> Errands \cup {Unset}]
  /\ noted \in [Crew -> MemoRecord]
  /\ meddled \in [Crew -> BOOLEAN] /\ mishap \in BOOLEAN /\ told \in [Crew -> Errands \cup {Unset}]

Deploying == {"build", "load", "ensure", "create", "apply", "postgres", "restart"}
Restoring == {"inspect", "count", "quiesce", "undo"} \cup Quiesced
Deployed == {"postgres", "restart", "status", "quiesce", "undo"} \cup Quiesced

\* Whose command is where.
Kinds(c) ==
  /\ stage[c] # "idle" => errand[c] \in Errands
  /\ stage[c] \in Deploying => errand[c].kind = "plane"
  /\ stage[c] \in {"dump", "keep"} => errand[c].kind = "backup"
  /\ stage[c] \in Restoring => errand[c].kind = "restore"
  /\ stage[c] \in Deployed => proxy # Unset
  /\ stage[c] = "psql" => noted[c].dump \in DumpRecord

LEMMA Reading ==
  ASSUME NEW e \in Errands
  PROVE  /\ e.kind \in {"plane", "backup", "restore"}
         /\ e.kind = "plane" => e.build \in Builds
         /\ e.kind # "plane" => e.dump \in Dumps
BY PlaneAssumption DEF ErrandRecord

LEMMA PlaneTypeInit == PlaneInit => PlaneTypes /\ \A c \in Crew : Kinds(c)
<1> SUFFICES ASSUME PlaneInit PROVE PlaneTypes /\ \A c \in Crew : Kinds(c)
  OBVIOUS
<1>1. dumps \in [Dumps -> DumpRecord \cup {Unset}]
  <2>1. [version |-> 0, whole |-> FALSE] \in DumpRecord
    BY DEF DumpRecord
  <2>2. QED
    BY <2>1 DEF PlaneInit
<1>2. Memo \in MemoRecord
  BY DEF Memo, MemoRecord
<1>3. noted \in [Crew -> MemoRecord]
  BY <1>2 DEF PlaneInit
<1>4. PlaneTypes
  BY <1>1, <1>3 DEF PlaneInit, PlaneTypes, Stations
<1>5. QED
  BY <1>4 DEF PlaneInit, Kinds, Deploying, Restoring, Deployed, Quiesced

\* A command ends.
LEMMA OverTypes ==
  ASSUME NEW c \in Crew, PlaneTypes, Over(c)
  PROVE  /\ stage' \in [Crew -> Stations] /\ errand' \in [Crew -> Errands \cup {Unset}] /\ noted' \in [Crew -> MemoRecord]
<1>1. Memo \in MemoRecord
  BY DEF Memo, MemoRecord
<1>2. QED
  BY <1>1 DEF Over, Move, Note, PlaneTypes, Stations

LEMMA Noting ==
  ASSUME NEW m \in MemoRecord
  PROVE  /\ \A n \in Nat : [m EXCEPT !.replicas = n] \in MemoRecord
         /\ \A d \in DumpRecord : [m EXCEPT !.dump = d] \in MemoRecord
BY DEF MemoRecord

\* A step of somebody's command.
LEMMA TypeWorks ==
  ASSUME NEW c \in Crew, PlaneTypes, Kinds(c), Works(c)
  PROVE  PlaneTypes'
<1> USE DEF PlaneTypes, At, Move, Note, stays, calm, images, deployed, data, errands, histories, Meddles
<1>0. ASSUME NEW s \in Stations, Move(c, s) PROVE stage' \in [Crew -> Stations]
  BY <1>0
<1>1. CASE Build(c)
  <2>1. errand[c].build \in Builds
    BY <1>1, Reading DEF Build, Kinds, Deploying
  <2>2. QED
    BY <1>1, <2>1, <1>0 DEF Build, Stations
<1>2. CASE Load(c) \/ PostgresUp(c) \/ Drain(c) \/ CountsRows(c)
  <2>1. stage' \in [Crew -> Stations]
    BY <1>2, <1>0 DEF Load, PostgresUp, Drain, CountsRows, Stations
  <2>2. QED
    BY <1>2, <2>1 DEF Load, PostgresUp, Drain, CountsRows
<1>3. CASE Ensure(c)
  <2>1. [noted[c] EXCEPT !.secret = "kaimahi-pg"] \in MemoRecord /\ [noted[c] EXCEPT !.secret = "kaimahi-admin"] \in MemoRecord
    BY DEF MemoRecord, Generated
  <2>2. noted' \in [Crew -> MemoRecord]
    BY <1>3, <2>1 DEF Ensure
  <2>3. QED
    BY <1>3, <1>0, <2>2 DEF Ensure, Stations
<1>4. CASE Create(c)
  <2>1. [noted[c] EXCEPT !.secret = Unset] \in MemoRecord
    BY DEF MemoRecord
  <2>2. generated' \in [Generated -> Crew \cup {Unset}]
    BY <1>4 DEF Create
  <2>3. noted' \in [Crew -> MemoRecord] /\ stage' \in [Crew -> Stations] /\ errand' \in [Crew -> Errands \cup {Unset}]
    BY <1>4, <2>1, <1>0, OverTypes DEF Create, Stations
  <2>4. QED
    BY <1>4, <2>2, <2>3 DEF Create
<1>5. CASE ApplyPlane(c)
  <2>1. proxy' \in [replicas : Nat, revision : Nat]
    BY <1>5, PlaneAssumption DEF ApplyPlane
  <2>2. QED
    BY <1>5, <2>1, <1>0 DEF ApplyPlane, Stations
<1>6. CASE Restart(c)
  <2>1. proxy # Unset
    BY <1>6 DEF Restart, Kinds, Deployed
  <2>2. proxy' \in [replicas : Nat, revision : Nat]
    BY <1>6, <2>1 DEF Restart
  <2>3. QED
    BY <1>6, <2>2, <1>0 DEF Restart, Stations
<1>7. CASE RollsOut(c)
  BY <1>7, OverTypes DEF RollsOut
<1>8. CASE Dump(c)
  <2>1. ASSUME NEW whole \in BOOLEAN
        PROVE  [noted[c] EXCEPT !.dump = [version |-> database, whole |-> whole]] \in MemoRecord
    BY Noting DEF DumpRecord
  <2>2. noted' \in [Crew -> MemoRecord]
    BY <1>8, <2>1 DEF Dump
  <2>3. QED
    BY <1>8, <2>2, <1>0 DEF Dump, Stations
<1>9. CASE Keep(c)
  <2>1. noted[c].dump \in DumpRecord \cup {Unset}
    BY DEF MemoRecord
  <2>2. dumps' \in [Dumps -> DumpRecord \cup {Unset}]
    BY <1>9, <2>1 DEF Keep
  <2>3. QED
    BY <1>9, <2>2, OverTypes DEF Keep
<1>10. CASE Inspect(c)
  BY <1>10, <1>0, OverTypes DEF Inspect, Stations
<1>11. CASE Count(c)
  <2>1. CASE proxy = Unset
    BY <1>11, <2>1, OverTypes DEF Count
  <2>2. CASE proxy # Unset
    <3>1. [noted[c] EXCEPT !.replicas = proxy.replicas] \in MemoRecord
      <4>1. proxy.replicas \in Nat /\ noted[c] \in MemoRecord
        BY <2>2
      <4>2. QED
        BY <4>1, Noting
    <3>2. noted' \in [Crew -> MemoRecord]
      BY <1>11, <2>2, <3>1 DEF Count
    <3>3. mishap' \in BOOLEAN
      BY <1>11, <2>2 DEF Count
    <3>4. QED
      BY <1>11, <2>2, <3>2, <3>3, <1>0 DEF Count, Stations
  <2>3. QED
    BY <2>1, <2>2
<1>12. ASSUME NEW n \in Nat, proxy # Unset, Scale(c, n), mishap' \in BOOLEAN,
              stage' \in [Crew -> Stations], errand' \in [Crew -> Errands \cup {Unset}], noted' \in [Crew -> MemoRecord]
       PROVE  PlaneTypes'
  <2>1. proxy' \in [replicas : Nat, revision : Nat]
    BY <1>12 DEF Scale
  <2>2. QED
    BY <1>12, <2>1 DEF Scale
<1>13. CASE Quiesce(c) \/ ScaleBack(c)
  <2>1. proxy # Unset
    BY <1>13 DEF Quiesce, ScaleBack, Kinds, Deployed, Quiesced
  <2>2. noted[c].replicas \in Nat
    BY DEF MemoRecord
  <2>3. QED
    BY <1>13, <2>1, <2>2, <1>0, <1>12 DEF Quiesce, ScaleBack, Stations
<1>14. CASE Undo(c)
  <2>1. proxy # Unset
    BY <1>14 DEF Undo, Kinds, Deployed
  <2>2. noted[c].replicas \in Nat
    BY DEF MemoRecord
  <2>3. CASE Scale(c, noted[c].replicas) /\ UNCHANGED mishap
    BY <1>14, <2>1, <2>2, <2>3, <1>12, OverTypes DEF Undo
  <2>4. CASE mishap' = TRUE /\ UNCHANGED <<images, generated, volume, deployed, data, meddled, told>>
    BY <1>14, <2>4, OverTypes DEF Undo
  <2>5. QED
    BY <1>14, <2>3, <2>4 DEF Undo
<1>15. CASE Open(c)
  <2>1. dumps[errand[c].dump] \in DumpRecord \cup {Unset}
    BY <1>15, Reading DEF Open, Kinds, Restoring, Quiesced
  <2>2. [noted[c] EXCEPT !.dump = dumps[errand[c].dump]] \in MemoRecord
    BY <2>1 DEF MemoRecord
  <2>3. noted' \in [Crew -> MemoRecord]
    BY <1>15, <2>2 DEF Open
  <2>4. QED
    BY <1>15, <2>3, <1>0 DEF Open, Stations
<1>16. CASE Psql(c)
  <2>1. noted[c].dump.version \in Nat
    BY <1>16 DEF Psql, Kinds, DumpRecord
  <2>2. QED
    BY <1>16, <2>1, <1>0 DEF Psql, Stations
<1>17. CASE ReplyLost(c)
  <2>1. proxy # Unset
    BY <1>17 DEF ReplyLost, Kinds, Deployed, Quiesced
  <2>2. noted[c].replicas \in Nat
    BY DEF MemoRecord
  <2>3. CASE Over(c) /\ Scale(c, 0) /\ mishap' = TRUE
    BY <2>1, <2>3, <1>12, OverTypes
  <2>4. CASE Move(c, "undo") /\ stays /\ Scale(c, noted[c].replicas) /\ UNCHANGED mishap
    BY <2>1, <2>2, <2>4, <1>0, <1>12 DEF Stations
  <2>5. QED
    BY <1>17, <2>3, <2>4 DEF ReplyLost
<1>18. QED
  BY <1>17, <1>16, <1>1, <1>2, <1>3, <1>4, <1>5, <1>6, <1>7, <1>8, <1>9, <1>10, <1>11, <1>13, <1>14, <1>15 DEF Works

LEMMA PlaneTypeStep == PlaneTypes /\ (\A c \in Crew : Kinds(c)) /\ [PlaneNext]_planeVars => PlaneTypes'
<1> SUFFICES ASSUME PlaneTypes, \A c \in Crew : Kinds(c), [PlaneNext]_planeVars PROVE PlaneTypes'
  OBVIOUS
<1> USE DEF PlaneTypes, images, deployed, data, errands, histories
<1>1. CASE UNCHANGED planeVars
  BY <1>1 DEF planeVars
<1>2. CASE Initialised \/ CallServed
  BY <1>2 DEF Initialised, CallServed, Generated
<1>3. ASSUME NEW s \in Slots, ProxyStarts(s) \/ ProxyStops(s) \/ ProxyGone(s) PROVE PlaneTypes'
  <2>1. CASE ProxyStarts(s)
    <3>1. [revision |-> proxy.revision, build |-> loaded, leaving |-> FALSE] \in PodRecord
      BY <2>1 DEF ProxyStarts, PodRecord
    <3>2. proxies' \in [Slots -> PodRecord \cup {Unset}]
      BY <2>1, <3>1 DEF ProxyStarts
    <3>3. QED
      BY <2>1, <3>2 DEF ProxyStarts
  <2>2. CASE ProxyStops(s)
    <3>1. [proxies[s] EXCEPT !.leaving = TRUE] \in PodRecord
      BY <2>2 DEF ProxyStops, Lively, Running, PodRecord
    <3>2. proxies' \in [Slots -> PodRecord \cup {Unset}]
      BY <2>2, <3>1 DEF ProxyStops
    <3>3. QED
      BY <2>2, <3>2 DEF ProxyStops
  <2>3. CASE ProxyGone(s)
    BY <2>3 DEF ProxyGone
  <2>4. QED
    BY <1>3, <2>1, <2>2, <2>3
<1>4. ASSUME NEW c \in Crew, Fails(c) \/ Killed(c) PROVE PlaneTypes'
  <2>1. CASE Over(c)
    BY <1>4, <2>1, OverTypes DEF Fails, Killed, Quiesced
  <2>2. CASE Move(c, "undo") /\ stays
    BY <1>4, <2>2 DEF Fails, Killed, Move, stays, Stations, Over
  <2>3. QED
    BY <1>4, <2>1, <2>2 DEF Fails, Killed
<1>5. ASSUME NEW c \in Crew, NEW e \in Errands, Begin(c, e) PROVE PlaneTypes'
  <2>1. stage' \in [Crew -> Stations]
    BY <1>5, Reading DEF Begin, Move, Stations
  <2>2. QED
    BY <1>5, <2>1 DEF Begin
<1>6. QED
  BY <1>1, <1>2, <1>3, <1>4, <1>5, TypeWorks DEF PlaneNext, Kubernetes

-----------------------------------------------------------------------------
(* What every step leaves of the deployment. *)

LEMMA KubernetesStep ==
  ASSUME Kubernetes
  PROVE  UNCHANGED <<images, proxy, dumps, errands, histories>>
<1>1. CASE Initialised \/ CallServed
  BY <1>1 DEF Initialised, CallServed, deployed, data
<1>2. ASSUME NEW s \in Slots, ProxyStarts(s) \/ ProxyStops(s) \/ ProxyGone(s)
      PROVE  UNCHANGED <<images, proxy, dumps, errands, histories>>
  BY <1>2 DEF ProxyStarts, ProxyStops, ProxyGone, data
<1>3. QED
  BY <1>1, <1>2 DEF Kubernetes

\* Only the steps that apply, restart or scale touch the Deployment.
LEMMA OnlyDeploys ==
  ASSUME [PlaneNext]_planeVars,
         \A c \in Crew : ~ApplyPlane(c) /\ ~Restart(c) /\ ~Quiesce(c) /\ ~ScaleBack(c) /\ ~ReplyLost(c) /\ ~Undo(c)
  PROVE  UNCHANGED proxy
<1>1. ASSUME NEW c \in Crew, Works(c) PROVE UNCHANGED proxy
  <2>1. CASE Build(c) \/ Load(c) \/ Ensure(c) \/ Create(c) \/ PostgresUp(c)
    BY <2>1 DEF Build, Load, Ensure, Create, PostgresUp, deployed
  <2>2. CASE RollsOut(c) \/ Dump(c) \/ Keep(c) \/ Inspect(c) \/ Count(c)
    BY <2>2 DEF RollsOut, Dump, Keep, Inspect, Count, deployed
  <2>3. CASE Drain(c) \/ Open(c) \/ Psql(c) \/ CountsRows(c)
    BY <2>3 DEF Drain, Open, Psql, CountsRows, deployed
  <2>4. QED
    BY <1>1, <2>1, <2>2, <2>3 DEF Works
<1>2. ASSUME NEW c \in Crew, Fails(c) \/ Killed(c) \/ \E e \in Errands : Begin(c, e) PROVE UNCHANGED proxy
  BY <1>2 DEF Fails, Killed, Begin, deployed
<1>3. CASE Kubernetes
  BY <1>3, KubernetesStep
<1>4. CASE UNCHANGED planeVars
  BY <1>4 DEF planeVars, deployed
<1>5. QED
  BY <1>1, <1>2, <1>3, <1>4 DEF PlaneNext

\* A deployed proxy stays deployed, its revision only grows, and a new one is
\* of no pod.
Grows ==
  /\ proxy # Unset => proxy' # Unset /\ proxy'.revision >= proxy.revision
  /\ proxy # Unset /\ proxy'.revision # proxy.revision => proxies' = proxies

LEMMA Growing ==
  ASSUME PlaneTypes, \A c \in Crew : Kinds(c), [PlaneNext]_planeVars
  PROVE  Grows
<1> USE DEF PlaneTypes, Grows, images, deployed, data, errands, histories
<1>1. CASE UNCHANGED proxy
  BY <1>1
<1>2. ASSUME NEW c \in Crew, NEW n \in Nat, Scale(c, n), proxy # Unset PROVE Grows
  <2>1. proxy' = [proxy EXCEPT !.replicas = n] /\ proxy' \in [replicas : Nat, revision : Nat]
    BY <1>2 DEF Scale
  <2>2. proxy' # Unset /\ proxy'.revision = proxy.revision
    BY <1>2, <2>1, PlaneAssumption
  <2>3. QED
    BY <2>2
<1>3. ASSUME NEW c \in Crew, Quiesce(c) \/ ScaleBack(c) \/ ReplyLost(c) \/ Undo(c) PROVE Grows
  <2>1. noted[c].replicas \in Nat
    BY DEF MemoRecord
  <2>2. proxy # Unset
    BY <1>3 DEF Quiesce, ScaleBack, ReplyLost, Undo, At, Kinds, Deployed, Quiesced
  <2>3. QED
    BY <1>1, <1>2, <1>3, <2>1, <2>2 DEF Quiesce, ScaleBack, ReplyLost, Undo
<1>4. ASSUME NEW c \in Crew, ApplyPlane(c) PROVE Grows
  <2>1. proxy' \in [replicas : Nat, revision : Nat] /\ (proxy # Unset => proxy'.revision = proxy.revision)
    BY <1>4, PlaneAssumption DEF ApplyPlane
  <2>2. QED
    BY <2>1, PlaneAssumption
<1>5. ASSUME NEW c \in Crew, Restart(c) PROVE Grows
  <2>1. proxy \in [replicas : Nat, revision : Nat]
    BY <1>5 DEF Restart, At, Kinds, Deployed
  <2>2. proxy' \in [replicas : Nat, revision : Nat] /\ proxy'.revision = proxy.revision + 1 /\ proxies' = proxies
    BY <1>5, <2>1 DEF Restart
  <2>3. QED
    BY <2>1, <2>2, PlaneAssumption
<1>6. QED
  BY <1>1, <1>3, <1>4, <1>5, OnlyDeploys

-----------------------------------------------------------------------------
(* Steps of somebody else, and of Kubernetes. *)

Steps(c) == Works(c) \/ Fails(c) \/ Killed(c) \/ \E e \in Errands : Begin(c, e)

Aside(d) == stage'[d] = stage[d] /\ errand'[d] = errand[d] /\ noted'[d] = noted[d] /\ told'[d] = told[d]

\* What somebody else does to the images or the replicas counts as meddling.
Spared(d) ==
  \/ meddled'[d]
  \/ /\ meddled'[d] = meddled[d] /\ UNCHANGED images
     /\ proxy # Unset => proxy'.replicas = proxy.replicas

\* A file, once written, is a whole dump.
FilesWhole == \A f \in Dumps : dumps'[f] = dumps[f] \/ dumps'[f].whole

LEMMA AsideStep ==
  ASSUME NEW d \in Crew, NEW c \in Crew, c # d, PlaneTypes, Kinds(c), Steps(c)
  PROVE  Aside(d) /\ Spared(d) /\ proxies' = proxies /\ (mishap => mishap')
<1> USE DEF PlaneTypes, Aside, Spared, At, Move, Note, stays, calm, images, deployed, data, errands, histories, Meddles
<1>1. ASSUME Over(c) PROVE stage'[d] = stage[d] /\ errand'[d] = errand[d] /\ noted'[d] = noted[d]
  BY <1>1 DEF Over
<1>2. CASE Build(c) \/ Load(c) \/ PostgresUp(c) \/ Drain(c) \/ CountsRows(c) \/ Ensure(c) \/ ApplyPlane(c)
  BY <1>2 DEF Build, Load, PostgresUp, Drain, CountsRows, Ensure, ApplyPlane
<1>3. CASE Create(c) \/ RollsOut(c) \/ Keep(c) \/ Inspect(c) \/ Count(c)
  BY <1>1, <1>3 DEF Create, RollsOut, Keep, Inspect, Count
<1>4. CASE Dump(c) \/ Open(c) \/ Psql(c)
  BY <1>4 DEF Dump, Open, Psql
<1>5. CASE Restart(c)
  <2>1. proxy # Unset
    BY <1>5 DEF Restart, Kinds, Deployed
  <2>2. QED
    BY <1>5, <2>1 DEF Restart
<1>6. CASE Quiesce(c) \/ ScaleBack(c)
  BY <1>6 DEF Quiesce, ScaleBack, Scale
<1>7. CASE Undo(c)
  <2>1. CASE Scale(c, noted[c].replicas) /\ UNCHANGED mishap
    BY <1>1, <1>7, <2>1 DEF Undo, Scale
  <2>2. CASE mishap' = TRUE /\ UNCHANGED <<images, generated, volume, deployed, data, meddled, told>>
    BY <1>1, <1>7, <2>2 DEF Undo
  <2>3. QED
    BY <1>7, <2>1, <2>2 DEF Undo
<1>8. CASE Fails(c) \/ Killed(c)
  BY <1>1, <1>8 DEF Fails, Killed
<1>9. ASSUME NEW e \in Errands, Begin(c, e) PROVE Aside(d) /\ Spared(d) /\ proxies' = proxies /\ (mishap => mishap')
  BY <1>9 DEF Begin
<1>10. CASE ReplyLost(c)
  <2>1. CASE Over(c) /\ Scale(c, 0) /\ mishap' = TRUE
    BY <1>1, <2>1 DEF Scale
  <2>2. CASE Move(c, "undo") /\ stays /\ Scale(c, noted[c].replicas) /\ UNCHANGED mishap
    BY <2>2 DEF Scale
  <2>3. QED
    BY <1>10, <2>1, <2>2 DEF ReplyLost
<1>11. QED
  BY <1>10, <1>2, <1>3, <1>4, <1>5, <1>6, <1>7, <1>8, <1>9 DEF Steps, Works

LEMMA FilesStep ==
  ASSUME PlaneTypes, [PlaneNext]_planeVars
  PROVE  FilesWhole
<1>1. CASE UNCHANGED dumps
  BY <1>1 DEF FilesWhole
<1>2. ASSUME NEW c \in Crew, Keep(c) PROVE FilesWhole
  BY <1>2 DEF Keep, FilesWhole, PlaneTypes
<1>3. ASSUME NEW c \in Crew, Works(c), ~Keep(c) PROVE UNCHANGED dumps
  <2>1. CASE Build(c) \/ Load(c) \/ Ensure(c) \/ Create(c) \/ ApplyPlane(c) \/ PostgresUp(c)
    BY <2>1 DEF Build, Load, Ensure, Create, ApplyPlane, PostgresUp, data
  <2>2. CASE Restart(c) \/ RollsOut(c) \/ Dump(c) \/ Inspect(c) \/ Count(c) \/ Drain(c)
    BY <2>2 DEF Restart, RollsOut, Dump, Inspect, Count, Drain, data
  <2>3. CASE Quiesce(c) \/ ScaleBack(c) \/ ReplyLost(c) \/ Undo(c)
    BY <2>3 DEF Quiesce, ScaleBack, ReplyLost, Undo, Scale, data
  <2>4. CASE Open(c) \/ Psql(c) \/ CountsRows(c)
    BY <2>4 DEF Open, Psql, CountsRows, data
  <2>5. QED
    BY <1>3, <2>1, <2>2, <2>3, <2>4 DEF Works
<1>4. ASSUME NEW c \in Crew, Fails(c) \/ Killed(c) \/ \E e \in Errands : Begin(c, e) PROVE UNCHANGED dumps
  BY <1>4 DEF Fails, Killed, Begin, data
<1>5. CASE Kubernetes
  BY <1>1, <1>5, KubernetesStep
<1>6. CASE UNCHANGED planeVars
  BY <1>1, <1>6 DEF planeVars, data
<1>7. QED
  BY <1>1, <1>2, <1>3, <1>4, <1>5, <1>6 DEF PlaneNext

-----------------------------------------------------------------------------
(* Whose command is where. *)

LEMMA KindsAside ==
  ASSUME NEW d \in Crew, Kinds(d), stage'[d] = stage[d], errand'[d] = errand[d], noted'[d] = noted[d], Grows
  PROVE  Kinds(d)'
BY DEF Kinds, Grows

LEMMA KindsOwn ==
  ASSUME NEW c \in Crew, PlaneTypes, PlaneTypes', Kinds(c), Grows, Steps(c)
  PROVE  Kinds(c)'
<1> USE DEF PlaneTypes, At, Move, Note, stays
<1>1. ASSUME Over(c) PROVE Kinds(c)'
  <2>1. stage'[c] = "idle"
    BY <1>1 DEF Over
  <2>2. QED
    BY <2>1 DEF Kinds, Deploying, Restoring, Deployed, Quiesced
<1>2. ASSUME NEW s \in Stations, s \notin {"idle", "psql"}, stage'[c] = s, errand'[c] = errand[c], errand[c] \in Errands,
             s \in Deploying => errand[c].kind = "plane",
             s \in {"dump", "keep"} => errand[c].kind = "backup",
             s \in Restoring => errand[c].kind = "restore",
             s \in Deployed => proxy' # Unset
      PROVE  Kinds(c)'
  BY <1>2 DEF Kinds
<1>3. CASE Build(c) \/ Load(c) \/ Ensure(c)
  <2>1. PICK s \in {"load", "ensure", "apply", "create"} : stage'[c] = s /\ errand'[c] = errand[c] /\ stage[c] \in Deploying
    BY <1>3 DEF Build, Load, Ensure, Deploying
  <2>2. errand[c] \in Errands /\ errand[c].kind = "plane"
    BY <2>1 DEF Kinds, Deploying
  <2>3. QED
    BY <1>2, <2>1, <2>2 DEF Deploying, Restoring, Deployed, Quiesced, Stations
<1>4. CASE Create(c)
  <2>1. CASE Over(c)
    BY <1>1, <2>1
  <2>2. CASE Move(c, "ensure") /\ UNCHANGED errand
    <3>1. errand[c] \in Errands /\ errand[c].kind = "plane"
      BY <1>4 DEF Create, Kinds, Deploying
    <3>2. QED
      BY <1>2, <2>2, <3>1 DEF Deploying, Restoring, Deployed, Quiesced, Stations
  <2>3. QED
    BY <1>4, <2>1, <2>2 DEF Create
<1>5. CASE ApplyPlane(c) \/ PostgresUp(c) \/ Restart(c)
  <2>1. PICK s \in {"postgres", "restart", "status"} :
          stage'[c] = s /\ errand'[c] = errand[c] /\ stage[c] \in {"apply", "postgres", "restart"}
    BY <1>5 DEF ApplyPlane, PostgresUp, Restart
  <2>2. errand[c] \in Errands /\ errand[c].kind = "plane"
    BY <2>1 DEF Kinds, Deploying
  <2>3. proxy' # Unset
    <3>1. CASE ApplyPlane(c)
      <4>1. proxy' \in [replicas : Nat, revision : Nat]
        BY <3>1, PlaneAssumption DEF ApplyPlane
      <4>2. QED
        BY <4>1, PlaneAssumption
    <3>2. CASE PostgresUp(c) \/ Restart(c)
      BY <3>2 DEF PostgresUp, Restart, Kinds, Deployed, Grows
    <3>3. QED
      BY <1>5, <3>1, <3>2
  <2>4. QED
    BY <1>2, <2>1, <2>2, <2>3 DEF Deploying, Restoring, Quiesced, Stations
<1>6. CASE RollsOut(c) \/ Keep(c) \/ Killed(c) \/ Undo(c)
  BY <1>1, <1>6 DEF RollsOut, Keep, Killed, Undo
<1>7. CASE Dump(c)
  <2>1. errand[c] \in Errands /\ errand[c].kind = "backup" /\ stage'[c] = "keep" /\ errand'[c] = errand[c]
    BY <1>7 DEF Dump, Kinds
  <2>2. QED
    BY <1>2, <2>1 DEF Deploying, Restoring, Deployed, Quiesced, Stations
<1>8. ASSUME NEW s \in Restoring \cup {"status"}, s # "psql", stage'[c] = s, errand'[c] = errand[c], stage[c] \in Restoring,
             s = "count" \/ proxy # Unset
      PROVE  Kinds(c)'
  <2>1. errand[c] \in Errands /\ errand[c].kind = "restore"
    BY <1>8 DEF Kinds, Restoring, Quiesced
  <2>2. s \in Stations /\ s \notin Deploying /\ s \notin {"idle", "psql", "dump", "keep"}
    BY <1>8 DEF Restoring, Deploying, Quiesced, Stations
  <2>3. s \in Deployed => proxy' # Unset
    BY <1>8 DEF Grows, Deployed, Quiesced
  <2>4. QED
    BY <1>2, <1>8, <2>1, <2>2, <2>3
<1>9. CASE Inspect(c) \/ Count(c)
  BY <1>1, <1>8, <1>9 DEF Inspect, Count, Restoring, Quiesced
<1>10. CASE Quiesce(c) \/ Drain(c) \/ Psql(c) \/ CountsRows(c) \/ ScaleBack(c)
  <2>1. PICK s \in {"drain", "open", "rows", "back", "status"} :
          stage'[c] = s /\ errand'[c] = errand[c] /\ stage[c] \in {"quiesce"} \cup Quiesced
    BY <1>10 DEF Quiesce, Drain, Psql, CountsRows, ScaleBack, Quiesced
  <2>2. proxy # Unset
    BY <2>1 DEF Kinds, Deployed
  <2>3. QED
    BY <1>8, <2>1, <2>2 DEF Restoring, Quiesced
<1>11. CASE Open(c)
  <2>1. errand[c] \in Errands /\ errand[c].kind = "restore" /\ proxy # Unset
    BY <1>11 DEF Open, Kinds, Restoring, Deployed, Quiesced
  <2>2. dumps[errand[c].dump] \in DumpRecord
    BY <1>11, <2>1, Reading DEF Open
  <2>3. stage'[c] = "psql" /\ errand'[c] = errand[c] /\ noted'[c].dump = dumps[errand[c].dump]
    BY <1>11 DEF Open, MemoRecord
  <2>4. QED
    BY <2>1, <2>2, <2>3 DEF Kinds, Deploying, Restoring, Deployed, Quiesced, Grows
<1>12. CASE Fails(c)
  <2>1. CASE stage[c] \in Quiesced
    <3>1. stage'[c] = "undo" /\ errand'[c] = errand[c] /\ proxy # Unset
      BY <1>12, <2>1 DEF Fails, Kinds, Deployed
    <3>2. QED
      BY <1>8, <2>1, <3>1 DEF Restoring
  <2>2. QED
    BY <1>1, <1>12, <2>1 DEF Fails
<1>13. ASSUME NEW e \in Errands, Begin(c, e) PROVE Kinds(c)'
  <2>1. errand'[c] = e /\ (\/ e.kind = "plane" /\ stage'[c] = "build"
                           \/ e.kind = "backup" /\ stage'[c] = "dump"
                           \/ e.kind = "restore" /\ stage'[c] = "inspect")
    BY <1>13, Reading DEF Begin
  <2>2. QED
    BY <2>1 DEF Kinds, Deploying, Restoring, Deployed, Quiesced
<1>14. CASE ReplyLost(c)
  <2>1. CASE Over(c)
    BY <1>1, <2>1
  <2>2. CASE stage[c] = "back" /\ stage'[c] = "undo" /\ errand' = errand
    <3>1. proxy # Unset
      BY <2>2 DEF Kinds, Deployed, Quiesced
    <3>2. QED
      BY <1>8, <2>2, <3>1 DEF Restoring, Quiesced
  <2>3. QED
    BY <1>14, <2>1, <2>2 DEF ReplyLost
<1>15. QED
  BY <1>3, <1>4, <1>5, <1>6, <1>7, <1>9, <1>10, <1>11, <1>12, <1>13, <1>14 DEF Steps, Works

LEMMA KindsStep ==
  ASSUME PlaneTypes, PlaneTypes', \A c \in Crew : Kinds(c), [PlaneNext]_planeVars
  PROVE  (\A c \in Crew : Kinds(c))'
<1> SUFFICES ASSUME NEW d \in Crew PROVE Kinds(d)'
  OBVIOUS
<1>1. CASE UNCHANGED planeVars
  BY <1>1, Growing, KindsAside DEF planeVars, errands
<1>2. CASE Kubernetes
  BY <1>2, Growing, KindsAside, KubernetesStep DEF errands
<1>3. ASSUME NEW c \in Crew, Steps(c) PROVE Kinds(d)'
  <2>1. CASE c = d
    BY <1>3, <2>1, Growing, KindsOwn
  <2>2. CASE c # d
    BY <1>3, <2>2, Growing, AsideStep, KindsAside DEF Aside
  <2>3. QED
    BY <2>1, <2>2
<1>4. QED
  BY <1>1, <1>2, <1>3 DEF PlaneNext, Steps

-----------------------------------------------------------------------------
(* The password, the pods and the number of replicas. *)

Sized == proxy # Unset => proxy.replicas \in {0, Replicas}

Pods == \A s \in Running : proxy # Unset /\ proxies[s].revision <= proxy.revision

LEMMA PasswordStep ==
  ASSUME PlaneTypes, PasswordOpens, [PlaneNext]_planeVars
  PROVE  PasswordOpens'
<1> USE DEF PlaneTypes, PasswordOpens
<1>1. CASE UNCHANGED <<generated, volume>>
  BY <1>1
<1>2. CASE Initialised
  BY <1>2 DEF Initialised
<1>3. ASSUME NEW c \in Crew, Create(c) PROVE PasswordOpens'
  <2>1. volume' = volume /\ (generated[noted[c].secret] = Unset \/ generated' = generated)
    BY <1>3 DEF Create
  <2>2. generated' = generated \/ generated' = [generated EXCEPT ![noted[c].secret] = c]
    BY <1>3 DEF Create
  <2>3. "kaimahi-pg" \in Generated
    BY DEF Generated
  <2>4. QED
    BY <2>1, <2>2, <2>3
<1>4. ASSUME NEW c \in Crew, Undo(c) PROVE PasswordOpens'
  BY <1>1, <1>4 DEF Undo, Scale
<1>5. ASSUME NEW c \in Crew, Steps(c) PROVE PasswordOpens'
  BY <1>1, <1>3, <1>4, <1>5 DEF Steps, Works,
     Build, Load, Ensure, ApplyPlane, PostgresUp, Restart, RollsOut, Dump, Keep, Inspect, Count, Quiesce, Scale,
     Drain, Open, Psql, CountsRows, ScaleBack, ReplyLost, Fails, Killed, Begin
<1>6. QED
  BY <1>1, <1>2, <1>5 DEF PlaneNext, Steps, planeVars, Kubernetes, CallServed, ProxyStarts, ProxyStops, ProxyGone

\* A pod that is told to leave is the same pod.
LEMMA PodLeaves ==
  ASSUME PlaneTypes, NEW s \in Slots, ProxyStops(s)
  PROVE  /\ Running' = Running /\ Lively' = Lively \ {s}
         /\ \A r \in Slots : proxies'[r] # Unset =>
              proxies'[r].revision = proxies[r].revision /\ proxies'[r].build = proxies[r].build
<1>1. proxies[s] \in PodRecord
  BY DEF ProxyStops, Lively, Running, PlaneTypes
<1>2. /\ proxies'[s] = [proxies[s] EXCEPT !.leaving = TRUE]
      /\ \A r \in Slots : r # s => proxies'[r] = proxies[r]
  BY DEF ProxyStops, PlaneTypes
<1>3. [proxies[s] EXCEPT !.leaving = TRUE] \in PodRecord
  BY <1>1 DEF PodRecord
<1>4. proxies'[s] # Unset
  BY <1>2, <1>3, PlaneAssumption DEF PodRecord
<1>5. /\ proxies'[s].leaving /\ proxies'[s].revision = proxies[s].revision
      /\ proxies'[s].build = proxies[s].build
  BY <1>1, <1>2 DEF PodRecord
<1>6. s \in Running /\ s \in Lively
  BY DEF ProxyStops, Lively
<1>7. Running' = Running
  BY <1>2, <1>4, <1>6 DEF Running
<1>8. Lively' = Lively \ {s}
  BY <1>2, <1>5, <1>6, <1>7 DEF Lively, Running
<1>9. QED
  BY <1>2, <1>5, <1>7, <1>8

LEMMA PodsStep ==
  ASSUME PlaneTypes, PlaneTypes', Pods, Grows, [PlaneNext]_planeVars
  PROVE  Pods'
<1> USE DEF PlaneTypes, PodRecord, Pods, Grows, Running
<1>1. CASE UNCHANGED proxies
  BY <1>1
<1>2. ASSUME NEW s \in Slots, ProxyStarts(s) PROVE Pods'
  BY <1>2 DEF ProxyStarts
<1>3. ASSUME NEW s \in Slots, ProxyStops(s) \/ ProxyGone(s) PROVE Pods'
  <2>1. \A r \in Running' : r \in Running /\ proxies'[r].revision = proxies[r].revision
    BY <1>3, PodLeaves DEF ProxyGone
  <2>2. proxy' = proxy
    BY <1>3 DEF ProxyStops, ProxyGone
  <2>3. QED
    BY <2>1, <2>2
<1>4. ASSUME NEW c \in Crew, Steps(c) PROVE UNCHANGED proxies
  <2>1. CASE Undo(c)
    BY <2>1 DEF Undo, Scale, deployed
  <2>2. CASE ApplyPlane(c) \/ Restart(c) \/ Quiesce(c) \/ ScaleBack(c) \/ ReplyLost(c)
    BY <2>2 DEF ApplyPlane, Restart, Quiesce, ScaleBack, ReplyLost, Scale
  <2>3. QED
    BY <1>4, <2>1, <2>2 DEF Steps, Works, deployed,
       Build, Load, Ensure, Create, PostgresUp, RollsOut, Dump, Keep, Inspect, Count,
       Drain, Open, Psql, CountsRows, Fails, Killed, Begin
<1>5. QED
  BY <1>1, <1>2, <1>3, <1>4 DEF PlaneNext, Steps, planeVars, deployed, Kubernetes, CallServed, Initialised

\* What a restore has noted to bring back.
Owes(c) ==
  /\ noted[c].replicas \in {0, Replicas}
  /\ stage[c] \in {"quiesce", "undo"} \cup Quiesced /\ ~mishap => noted[c].replicas = Replicas

LEMMA OwesStep ==
  ASSUME PlaneTypes, \A c \in Crew : Kinds(c) /\ Owes(c), Sized, [PlaneNext]_planeVars
  PROVE  (\A c \in Crew : Owes(c))'
<1> SUFFICES ASSUME NEW d \in Crew PROVE Owes(d)'
  OBVIOUS
<1> USE DEF PlaneTypes, Owes
<1>1. CASE UNCHANGED planeVars
  BY <1>1 DEF planeVars, errands, histories
<1>2. CASE Kubernetes
  BY <1>2, KubernetesStep DEF errands, histories
<1>3. ASSUME NEW c \in Crew, c # d, Steps(c) PROVE Owes(d)'
  BY <1>3, AsideStep DEF Aside
<1>4. CASE Steps(d)
  <2> USE DEF At, Move, Note, stays, calm, histories
  <2>1. ASSUME Over(d) PROVE Owes(d)'
    <3>1. stage'[d] = "idle" /\ noted'[d].replicas = 0
      BY <2>1 DEF Over, Memo
    <3>2. QED
      BY <3>1 DEF Quiesced
  <2>2. ASSUME noted'[d].replicas = noted[d].replicas, stage'[d] \notin {"quiesce", "undo"} \cup Quiesced PROVE Owes(d)'
    BY <2>2
  <2>3. CASE Build(d) \/ Load(d) \/ ApplyPlane(d) \/ PostgresUp(d) \/ Restart(d) \/ ScaleBack(d)
    BY <2>2, <2>3 DEF Build, Load, ApplyPlane, PostgresUp, Restart, ScaleBack, Quiesced
  <2>4. CASE Ensure(d) \/ Dump(d)
    <3>1. noted'[d].replicas = noted[d].replicas
      BY <2>4 DEF Ensure, Dump, MemoRecord
    <3>2. stage'[d] \in {"apply", "create", "keep"}
      BY <2>4 DEF Ensure, Dump
    <3>3. QED
      BY <2>2, <3>1, <3>2 DEF Quiesced
  <2>5. CASE Create(d)
    <3>1. CASE Move(d, "ensure") /\ Note(d, [noted[d] EXCEPT !.secret = Unset])
      BY <2>2, <3>1 DEF Quiesced, MemoRecord
    <3>2. QED
      BY <2>1, <2>5, <3>1 DEF Create
  <2>6. CASE RollsOut(d) \/ Keep(d) \/ Killed(d) \/ Undo(d)
    BY <2>1, <2>6 DEF RollsOut, Keep, Killed, Undo
  <2>7. CASE Inspect(d)
    BY <2>1, <2>2, <2>7 DEF Inspect, Quiesced
  <2>8. CASE Count(d)
    <3>1. CASE proxy = Unset
      BY <2>1, <2>8, <3>1 DEF Count
    <3>2. CASE proxy # Unset
      <4>1. noted'[d].replicas = proxy.replicas
        BY <2>8, <3>2 DEF Count, MemoRecord
      <4>2. proxy.replicas = 0 => mishap'
        BY <2>8, <3>2 DEF Count
      <4>3. QED
        BY <3>2, <4>1, <4>2 DEF Sized
    <3>3. QED
      BY <3>1, <3>2
  <2>9. CASE Quiesce(d) \/ Drain(d) \/ Psql(d) \/ CountsRows(d)
    <3>1. stage[d] \in {"quiesce"} \cup Quiesced /\ noted' = noted /\ mishap' = mishap
      BY <2>9 DEF Quiesce, Drain, Psql, CountsRows, Quiesced
    <3>2. QED
      BY <3>1
  <2>10. CASE Open(d)
    <3>1. stage[d] \in Quiesced /\ noted'[d].replicas = noted[d].replicas /\ mishap' = mishap
      BY <2>10 DEF Open, Quiesced, MemoRecord
    <3>2. QED
      BY <3>1
  <2>11. CASE Fails(d)
    <3>1. CASE stage[d] \in Quiesced
      BY <2>11, <3>1 DEF Fails
    <3>2. QED
      BY <2>1, <2>11, <3>1 DEF Fails
  <2>12. ASSUME NEW e \in Errands, Begin(d, e) PROVE Owes(d)'
    <3>1. stage'[d] \in {"build", "dump", "inspect"}
      BY <2>12, Reading DEF Begin
    <3>2. QED
      BY <2>2, <2>12, <3>1 DEF Begin, Quiesced
  <2>13. CASE ReplyLost(d)
    <3>1. CASE stage[d] = "back" /\ stays /\ UNCHANGED mishap
      BY <3>1 DEF Quiesced
    <3>2. QED
      BY <2>1, <2>13, <3>1 DEF ReplyLost
  <2>14. QED
    BY <1>4, <2>13, <2>3, <2>4, <2>5, <2>6, <2>7, <2>8, <2>9, <2>10, <2>11, <2>12 DEF Steps, Works
<1>5. QED
  BY <1>1, <1>2, <1>3, <1>4 DEF PlaneNext, Steps

LEMMA SizedStep ==
  ASSUME PlaneTypes, Sized, \A c \in Crew : Kinds(c) /\ Owes(c), [PlaneNext]_planeVars
  PROVE  Sized'
<1> USE DEF PlaneTypes, Sized, At
<1>1. CASE UNCHANGED proxy
  BY <1>1
<1>2. ASSUME NEW c \in Crew, ApplyPlane(c) PROVE Sized'
  BY <1>2 DEF ApplyPlane
<1>3. ASSUME NEW c \in Crew, Restart(c) PROVE Sized'
  BY <1>3 DEF Restart, Kinds, Deployed
<1>4. ASSUME NEW c \in Crew, Quiesce(c) \/ ScaleBack(c) \/ Undo(c) PROVE Sized'
  BY <1>1, <1>4 DEF Quiesce, ScaleBack, Undo, Scale, Kinds, Deployed, Quiesced, Owes, deployed
<1>5. ASSUME NEW c \in Crew, ReplyLost(c) PROVE Sized'
  BY <1>5 DEF ReplyLost, Scale, Kinds, Deployed, Quiesced, Owes
<1>6. QED
  BY <1>1, <1>2, <1>3, <1>4, <1>5, OnlyDeploys

-----------------------------------------------------------------------------
(* A restore. *)

WholeFile(f) == dumps[f] = Unset \/ dumps[f].whole

Whole(c) ==
  /\ stage[c] \in {"count", "quiesce", "drain", "open"} => WholeFile(errand[c].dump)
  /\ stage[c] = "psql" => noted[c].dump.whole

Still(c) ==
  ~meddled[c] =>
    /\ stage[c] \in {"drain", "open", "psql"} => proxy.replicas = 0
    /\ stage[c] \in {"open", "psql"} => Running = {}

LEMMA WholeStep ==
  ASSUME PlaneTypes, NEW d \in Crew, Kinds(d), Whole(d), \A c \in Crew : Kinds(c), [PlaneNext]_planeVars
  PROVE  Whole(d)'
<1> USE DEF PlaneTypes, Whole
<1>1. WholeFile(errand[d].dump) /\ stage[d] \in Restoring => WholeFile(errand[d].dump)' \/ errand'[d] # errand[d]
  <2> SUFFICES ASSUME WholeFile(errand[d].dump), stage[d] \in Restoring, errand'[d] = errand[d]
               PROVE  WholeFile(errand[d].dump)'
    OBVIOUS
  <2>1. errand[d].dump \in Dumps
    BY Reading DEF Kinds, Restoring, Quiesced
  <2>2. QED
    BY <2>1, FilesStep DEF FilesWhole, WholeFile
<1>2. ASSUME stage'[d] = stage[d], errand'[d] = errand[d], noted'[d] = noted[d] PROVE Whole(d)'
  BY <1>1, <1>2 DEF Restoring, Quiesced, WholeFile
<1>3. CASE UNCHANGED planeVars
  BY <1>2, <1>3 DEF planeVars, errands
<1>4. CASE Kubernetes
  BY <1>2, <1>4, KubernetesStep DEF errands
<1>5. ASSUME NEW c \in Crew, c # d, Steps(c) PROVE Whole(d)'
  BY <1>2, <1>5, AsideStep DEF Aside
<1>6. CASE Steps(d)
  <2> USE DEF At, Move, Note, stays
  <2>1. ASSUME stage'[d] \notin {"count", "quiesce", "drain", "open", "psql"} PROVE Whole(d)'
    BY <2>1
  <2>2. ASSUME Over(d) PROVE Whole(d)'
    BY <2>1, <2>2 DEF Over
  <2>3. CASE Build(d) \/ Load(d) \/ Ensure(d) \/ ApplyPlane(d) \/ PostgresUp(d) \/ Restart(d) \/ Dump(d) \/ Psql(d) \/ CountsRows(d) \/ ScaleBack(d)
    BY <2>1, <2>3 DEF Build, Load, Ensure, ApplyPlane, PostgresUp, Restart, Dump, Psql, CountsRows, ScaleBack
  <2>4. CASE Create(d) \/ RollsOut(d) \/ Keep(d) \/ Killed(d) \/ ReplyLost(d) \/ Undo(d) \/ Fails(d)
    BY <2>1, <2>2, <2>4 DEF Create, RollsOut, Keep, Killed, ReplyLost, Undo, Fails
  <2>5. CASE Inspect(d)
    <3>1. CASE Over(d)
      BY <2>2, <3>1
    <3>2. CASE dumps[errand[d].dump].whole /\ Move(d, "count") /\ stays
      <4>1. dumps' = dumps /\ errand' = errand /\ stage'[d] = "count"
        BY <2>5, <3>2 DEF Inspect, data
      <4>2. QED
        BY <3>2, <4>1 DEF WholeFile
    <3>3. QED
      BY <2>5, <3>1, <3>2 DEF Inspect
  <2>6. CASE Count(d) \/ Quiesce(d) \/ Drain(d)
    <3>1. CASE Over(d)
      BY <2>2, <3>1
    <3>2. CASE ~Over(d)
      <4>1. /\ stage'[d] \in {"quiesce", "drain", "open"} /\ errand' = errand /\ dumps' = dumps
            /\ stage[d] \in {"count", "quiesce", "drain"}
        BY <2>6, <3>2 DEF Count, Quiesce, Drain, Scale, data
      <4>2. QED
        BY <4>1 DEF WholeFile
    <3>3. QED
      BY <3>1, <3>2
  <2>7. CASE Open(d)
    <3>1. stage'[d] = "psql" /\ noted'[d].dump = dumps[errand[d].dump]
      BY <2>7 DEF Open, MemoRecord
    <3>2. dumps[errand[d].dump].whole
      BY <2>7 DEF Open, WholeFile
    <3>3. QED
      BY <3>1, <3>2
  <2>8. ASSUME NEW e \in Errands, Begin(d, e) PROVE Whole(d)'
    <3>1. stage'[d] \in {"build", "dump", "inspect"}
      BY <2>8, Reading DEF Begin
    <3>2. QED
      BY <2>1, <3>1
  <2>9. QED
    BY <1>6, <2>3, <2>4, <2>5, <2>6, <2>7, <2>8 DEF Steps, Works
<1>7. QED
  BY <1>3, <1>4, <1>5, <1>6 DEF PlaneNext, Steps

\* No pod starts for a deployment of no replicas.
LEMMA NoneStarts ==
  ASSUME PlaneTypes, NEW s \in Slots, ProxyStarts(s)
  PROVE  proxy.replicas # 0
<1>1. IsFiniteSet(Current)
  BY PlaneAssumption, FS_Subset DEF Current, Lively, Running
<1>2. Cardinality(Current) \in Nat
  BY <1>1, FS_CardinalityType
<1>3. QED
  BY <1>2 DEF ProxyStarts

LEMMA StillStep ==
  ASSUME PlaneTypes, NEW d \in Crew, Kinds(d), Still(d), \A c \in Crew : Kinds(c), [PlaneNext]_planeVars
  PROVE  Still(d)'
<1> USE DEF PlaneTypes, Still, Running
<1>1. CASE UNCHANGED planeVars
  BY <1>1 DEF planeVars, errands, histories, deployed
<1>2. CASE Kubernetes
  <2>1. proxy' = proxy /\ stage' = stage /\ meddled' = meddled
    BY <1>2, KubernetesStep DEF errands, histories
  <2>2. CASE proxies' = proxies
    BY <2>1, <2>2
  <2>3. ASSUME NEW s \in Slots, ProxyStarts(s) PROVE Still(d)'
    <3>1. stage[d] \in {"open", "psql"} => meddled[d]
      BY <2>3, NoneStarts
    <3>2. QED
      BY <2>1, <3>1
  <2>4. ASSUME NEW s \in Slots, ProxyStops(s) \/ ProxyGone(s) PROVE Still(d)'
    <3>1. Running' \subseteq Running
      BY <2>4, PodLeaves DEF ProxyGone
    <3>2. QED
      BY <2>1, <3>1
  <2>5. QED
    BY <1>2, <2>2, <2>3, <2>4 DEF Kubernetes, Initialised, CallServed, deployed
<1>3. ASSUME NEW c \in Crew, c # d, Steps(c) PROVE Still(d)'
  <2>1. stage[d] \in {"drain", "open", "psql"} => proxy # Unset
    BY DEF Kinds, Deployed, Quiesced
  <2>2. QED
    BY <1>3, <2>1, AsideStep DEF Aside, Spared
<1>4. CASE Steps(d)
  <2> USE DEF At, Move, Note, stays
  <2>1. ASSUME stage'[d] \notin {"drain", "open", "psql"} PROVE Still(d)'
    BY <2>1
  <2>2. ASSUME Over(d) PROVE Still(d)'
    BY <2>1, <2>2 DEF Over
  <2>3. CASE Build(d) \/ Load(d) \/ Ensure(d) \/ ApplyPlane(d) \/ PostgresUp(d) \/ Restart(d) \/ Dump(d) \/ Psql(d) \/ CountsRows(d) \/ ScaleBack(d)
    BY <2>1, <2>3 DEF Build, Load, Ensure, ApplyPlane, PostgresUp, Restart, Dump, Psql, CountsRows, ScaleBack
  <2>4. CASE Create(d) \/ RollsOut(d) \/ Keep(d) \/ Killed(d) \/ ReplyLost(d) \/ Undo(d) \/ Fails(d) \/ Inspect(d) \/ Count(d)
    BY <2>1, <2>2, <2>4 DEF Create, RollsOut, Keep, Killed, ReplyLost, Undo, Fails, Inspect, Count
  <2>5. CASE Quiesce(d)
    <3>1. proxy # Unset
      BY <2>5 DEF Quiesce, Kinds, Deployed
    <3>2. stage'[d] = "drain" /\ proxy'.replicas = 0
      BY <2>5, <3>1 DEF Quiesce, Scale
    <3>3. QED
      BY <3>2
  <2>6. CASE Drain(d) \/ Open(d)
    BY <2>6 DEF Drain, Open, deployed, calm, histories
  <2>7. ASSUME NEW e \in Errands, Begin(d, e) PROVE Still(d)'
    <3>1. stage'[d] \in {"build", "dump", "inspect"}
      BY <2>7, Reading DEF Begin
    <3>2. QED
      BY <2>1, <3>1
  <2>8. QED
    BY <1>4, <2>3, <2>4, <2>5, <2>6, <2>7 DEF Steps, Works
<1>5. QED
  BY <1>1, <1>2, <1>3, <1>4 DEF PlaneNext, Steps

\* A plane at zero is some restore's to bring back.
Away == {"undo"} \cup Quiesced
Brought == proxy # Unset /\ ~mishap => proxy.replicas = Replicas \/ \E c \in Crew : stage[c] \in Away

LEMMA BroughtStep ==
  ASSUME PlaneTypes, Brought, \A c \in Crew : Kinds(c) /\ Owes(c), [PlaneNext]_planeVars
  PROVE  Brought'
<1> USE DEF PlaneTypes, Brought
<1>1. CASE UNCHANGED planeVars
  BY <1>1 DEF planeVars, errands, histories, deployed
<1>2. CASE Kubernetes
  BY <1>2, KubernetesStep DEF errands, histories
<1>3. ASSUME NEW c \in Crew, Steps(c) PROVE Brought'
  <2> USE DEF At, Move, Note, stays
  <2>1. ASSUME NEW d \in Crew, d # c PROVE stage'[d] = stage[d] /\ (mishap => mishap')
    BY <1>3, <2>1, AsideStep DEF Aside
  <2>2. ASSUME proxy' # Unset => proxy # Unset /\ proxy'.replicas = proxy.replicas,
               stage[c] \in Away => stage'[c] \in Away \/ mishap', mishap => mishap'
        PROVE  Brought'
    <3>1. ASSUME proxy' # Unset, ~mishap', NEW d \in Crew, stage[d] \in Away PROVE \E b \in Crew : stage'[b] \in Away
      BY <2>1, <2>2, <3>1
    <3>2. QED
      BY <2>2, <3>1
  <2>3. ASSUME UNCHANGED deployed, stage[c] \notin Away, mishap => mishap' PROVE Brought'
    BY <2>2, <2>3 DEF deployed
  <2>4. CASE Build(c) \/ Load(c) \/ Ensure(c) \/ Create(c) \/ PostgresUp(c) \/ RollsOut(c) \/ Dump(c) \/ Keep(c) \/ Inspect(c) \/ Count(c)
    BY <2>3, <2>4 DEF Build, Load, Ensure, Create, PostgresUp, RollsOut, Dump, Keep, Inspect, Count, Away, Quiesced, calm, histories
  <2>5. CASE ApplyPlane(c)
    BY <2>5 DEF ApplyPlane
  <2>6. CASE Restart(c)
    <3>1. proxy # Unset
      BY <2>6 DEF Restart, Kinds, Deployed
    <3>2. proxy'.replicas = proxy.replicas /\ stage[c] \notin Away /\ mishap' = mishap
      BY <2>6, <3>1 DEF Restart, Away, Quiesced, calm, histories
    <3>3. QED
      BY <2>2, <3>1, <3>2
  <2>7. CASE Quiesce(c)
    <3>1. stage'[c] = "drain"
      BY <2>7 DEF Quiesce
    <3>2. QED
      BY <3>1 DEF Away, Quiesced
  <2>8. CASE Drain(c) \/ Open(c) \/ Psql(c) \/ CountsRows(c)
    <3>1. stage'[c] \in Away /\ UNCHANGED <<deployed, mishap>>
      BY <2>8 DEF Drain, Open, Psql, CountsRows, Away, Quiesced, calm, histories
    <3>2. QED
      BY <2>2, <3>1 DEF deployed
  <2>9. CASE ScaleBack(c) \/ Undo(c)
    <3>1. CASE mishap'
      BY <3>1
    <3>2. CASE ~mishap'
      <4>1. mishap' = mishap /\ Scale(c, noted[c].replicas) /\ stage[c] \in Away
        BY <2>9, <3>2 DEF ScaleBack, Undo, Away, Quiesced
      <4>2. proxy # Unset /\ noted[c].replicas = Replicas
        BY <3>2, <4>1 DEF Kinds, Deployed, Away, Owes
      <4>3. QED
        BY <4>1, <4>2 DEF Scale
    <3>3. QED
      BY <3>1, <3>2
  <2>10. CASE Fails(c)
    <3>1. stage[c] \in Away => stage'[c] \in Away
      BY <2>10 DEF Fails, Away, Quiesced
    <3>2. QED
      BY <2>2, <2>10, <3>1 DEF Fails, deployed, histories
  <2>11. CASE Killed(c)
    BY <2>2, <2>11 DEF Killed, deployed, Away
  <2>12. ASSUME NEW e \in Errands, Begin(c, e) PROVE Brought'
    BY <2>3, <2>12 DEF Begin, Away, Quiesced
  <2>13. CASE ReplyLost(c)
    <3>1. mishap' \/ stage'[c] = "undo"
      BY <2>13 DEF ReplyLost
    <3>2. QED
      BY <3>1 DEF Away
  <2>14. QED
    BY <1>3, <2>13, <2>4, <2>5, <2>6, <2>7, <2>8, <2>9, <2>10, <2>11, <2>12 DEF Steps, Works
<1>4. QED
  BY <1>1, <1>2, <1>3 DEF PlaneNext, Steps

-----------------------------------------------------------------------------
(* A deployment. *)

Loaded(c) ==
  \/ stage[c] \in {"ensure", "create", "apply", "postgres", "restart"}
  \/ stage[c] = "status" /\ errand[c].kind = "plane"

\* A deploy that has the plane to itself, by how far it is.
Made(c) ==
  /\ told[c] # Unset => stage[c] = "idle"
  /\ ~meddled[c] =>
       /\ stage[c] = "load" => tagged = errand[c].build
       /\ Loaded(c) => loaded = errand[c].build
       /\ stage[c] = "status" /\ errand[c].kind = "plane" => \A s \in Current : proxies[s].build = errand[c].build
       /\ told[c] # Unset /\ told[c].kind = "plane" =>
            loaded = told[c].build /\ \A s \in Lively : proxies[s].build = told[c].build

\* As long as the pods are as they are, none becomes current.
LEMMA NoneRenewed ==
  ASSUME PlaneTypes, PlaneTypes', Pods, Grows, proxy # Unset, proxies' = proxies
  PROVE  Current' \subseteq Current
<1> SUFFICES ASSUME NEW s \in Current' PROVE s \in Current
  OBVIOUS
<1>1. s \in Running /\ proxies[s].revision = proxy'.revision /\ proxies[s].revision <= proxy.revision
  BY DEF Current, Lively, Running, Pods
<1>2. proxy.revision \in Nat /\ proxy'.revision \in Nat /\ proxy'.revision >= proxy.revision
  BY DEF PlaneTypes, Grows
<1>3. proxies[s].revision = proxy.revision
  BY <1>1, <1>2
<1>4. QED
  BY <1>1, <1>3 DEF Current, Lively, Running

LEMMA MadeStep ==
  ASSUME PlaneTypes, PlaneTypes', NEW d \in Crew, Made(d), \A c \in Crew : Kinds(c), Pods, Grows, [PlaneNext]_planeVars
  PROVE  Made(d)'
<1> USE DEF PlaneTypes, Made, Loaded
<1>1. CASE UNCHANGED planeVars
  BY <1>1 DEF planeVars, errands, histories, deployed, images, Current, Lively, Running
<1>2. CASE Kubernetes
  <2>1. UNCHANGED <<images, proxy, errands, histories>>
    BY <1>2, KubernetesStep
  <2>2. CASE proxies' = proxies
    BY <2>1, <2>2 DEF images, errands, histories, Current, Lively, Running
  <2>3. ASSUME NEW s \in Slots, ProxyStarts(s) PROVE Made(d)'
    <3>1. proxies' = [proxies EXCEPT ![s] = [revision |-> proxy.revision, build |-> loaded, leaving |-> FALSE]]
      BY <2>3 DEF ProxyStarts
    <3>2. proxies'[s].build = loaded /\ \A r \in Slots : r # s => proxies'[r] = proxies[r]
      BY <3>1
    <3>3. (\A r \in Current' : r = s \/ r \in Current) /\ (\A r \in Lively' : r = s \/ r \in Lively)
      BY <2>1, <3>2 DEF Current, Lively, Running
    <3>4. Current' \subseteq Slots /\ Lively' \subseteq Slots
      BY DEF Current, Lively, Running
    <3>5. QED
      BY <2>1, <3>2, <3>3, <3>4 DEF images, errands, histories
  <2>4. ASSUME NEW s \in Slots, ProxyStops(s) \/ ProxyGone(s) PROVE Made(d)'
    <3>1. Lively' \subseteq Lively /\ \A r \in Lively' : proxies'[r].revision = proxies[r].revision
                                                       /\ proxies'[r].build = proxies[r].build
      <4>1. CASE ProxyStops(s)
        BY <4>1, PodLeaves DEF Lively, Running
      <4>2. CASE ProxyGone(s)
        BY <4>2 DEF ProxyGone, Lively, Running
      <4>3. QED
        BY <2>4, <4>1, <4>2
    <3>2. Current' \subseteq Current /\ Current' \subseteq Lively'
      BY <2>1, <3>1 DEF Current
    <3>3. Lively' \subseteq Slots
      BY DEF Lively, Running
    <3>4. QED
      BY <2>1, <3>1, <3>2, <3>3 DEF images, errands, histories
  <2>5. QED
    BY <1>2, <2>2, <2>3, <2>4 DEF Kubernetes, Initialised, CallServed, deployed
<1>3. ASSUME NEW c \in Crew, c # d, Steps(c) PROVE Made(d)'
  <2>1. Aside(d) /\ Spared(d) /\ proxies' = proxies
    BY <1>3, AsideStep
  <2>2. Lively' = Lively
    BY <2>1 DEF Lively, Running
  <2>3. stage[d] = "status" => Current' \subseteq Current
    BY <2>1, NoneRenewed DEF Kinds, Deployed
  <2>4. QED
    BY <2>1, <2>2, <2>3 DEF Aside, Spared, images
<1>4. CASE Steps(d)
  <2> USE DEF At, Move, Note, stays, Meddles
  <2>1. ASSUME told'[d] = Unset, stage'[d] # "load", ~Loaded(d)' PROVE Made(d)'
    BY <2>1
  <2>2. ASSUME Over(d), told' = told, stage[d] # "idle" PROVE Made(d)'
    <3>1. stage'[d] = "idle" /\ told'[d] = Unset
      BY <2>2 DEF Over
    <3>2. QED
      BY <3>1
  <2>3. CASE Build(d)
    <3>1. stage'[d] = "load" /\ tagged' = errand[d].build /\ errand' = errand /\ told' = told /\ told[d] = Unset
      BY <2>3 DEF Build
    <3>2. QED
      BY <3>1
  <2>4. CASE Load(d)
    <3>1. /\ stage'[d] = "ensure" /\ loaded' = tagged /\ errand' = errand /\ told' = told /\ told[d] = Unset
          /\ stage[d] = "load" /\ (meddled'[d] <=> meddled[d])
      BY <2>4 DEF Load
    <3>2. QED
      BY <3>1
  <2>5. CASE Ensure(d) \/ (Create(d) /\ Move(d, "ensure")) \/ ApplyPlane(d) \/ PostgresUp(d)
    <3>1. /\ stage[d] \in {"ensure", "create", "apply", "postgres"} /\ stage'[d] \in {"ensure", "create", "apply", "postgres", "restart"}
          /\ loaded' = loaded /\ told' = told /\ (meddled'[d] <=> meddled[d])
      BY <2>5 DEF Ensure, Create, ApplyPlane, PostgresUp, images, calm, histories
    <3>2. errand' = errand \/ stage'[d] = "idle"
      BY <2>5 DEF Ensure, Create, ApplyPlane, PostgresUp, Over
    <3>3. QED
      BY <3>1, <3>2
  <2>6. CASE Create(d) /\ Over(d)
    BY <2>2, <2>6 DEF Create, calm, histories
  <2>7. CASE Restart(d)
    <3>1. proxy \in [replicas : Nat, revision : Nat]
      BY <2>7 DEF Restart, Kinds, Deployed
    <3>2. proxy'.revision = proxy.revision + 1 /\ proxies' = proxies
      BY <2>7, <3>1 DEF Restart
    <3>3. \A s \in Running : proxies[s].revision \in Nat /\ proxies[s].revision <= proxy.revision
      BY DEF Pods, PodRecord, Running
    <3>4. Current' = {}
      BY <3>1, <3>2, <3>3 DEF Current, Lively, Running
    <3>5. stage[d] = "restart" /\ stage'[d] = "status" /\ errand' = errand /\ UNCHANGED <<loaded, told, meddled>>
      BY <2>7 DEF Restart, images, calm, histories
    <3>6. QED
      BY <3>4, <3>5
  <2>8. CASE RollsOut(d)
    <3>1. /\ stage'[d] = "idle" /\ told'[d] = errand[d] /\ stage[d] = "status" /\ Lively = Current
          /\ UNCHANGED <<loaded, proxies, meddled>>
      BY <2>8 DEF RollsOut, Over, images, deployed
    <3>2. Lively' = Lively
      BY <3>1 DEF Lively, Running
    <3>3. QED
      BY <3>1, <3>2
  <2>9. CASE Keep(d) \/ Killed(d) \/ Undo(d)
    BY <2>2, <2>9 DEF Keep, Killed, Undo, Scale, calm, histories
  <2>10. CASE Inspect(d) \/ Count(d) \/ Fails(d)
    <3>1. CASE Over(d)
      BY <2>2, <2>10, <3>1 DEF Inspect, Count, Fails, calm, histories
    <3>2. CASE ~Over(d)
      BY <2>1, <2>10, <3>2 DEF Inspect, Count, Fails, calm, histories, Quiesced
    <3>3. QED
      BY <3>1, <3>2
  <2>11. CASE Dump(d) \/ Quiesce(d) \/ Drain(d) \/ Open(d) \/ Psql(d) \/ CountsRows(d)
    BY <2>1, <2>11 DEF Dump, Quiesce, Drain, Open, Psql, CountsRows, Scale, calm, histories
  <2>12. CASE ScaleBack(d)
    <3>1. errand[d].kind = "restore" /\ errand' = errand /\ told'[d] = Unset /\ stage'[d] = "status"
      BY <2>12 DEF ScaleBack, Scale, Kinds, Restoring, Quiesced
    <3>2. QED
      BY <2>1, <3>1
  <2>13. ASSUME NEW e \in Errands, Begin(d, e) PROVE Made(d)'
    <3>1. stage'[d] \in {"build", "dump", "inspect"} /\ told'[d] = Unset
      BY <2>13, Reading DEF Begin
    <3>2. QED
      BY <2>1, <3>1
  <2>14. Create(d) => Over(d) \/ Move(d, "ensure")
    BY DEF Create
  <2>15. CASE ReplyLost(d)
    <3>1. CASE Over(d) /\ Scale(d, 0)
      BY <2>2, <2>15, <3>1 DEF ReplyLost, Scale
    <3>2. CASE stage[d] = "back" /\ Move(d, "undo") /\ Scale(d, noted[d].replicas)
      BY <2>1, <3>2 DEF Scale
    <3>3. QED
      BY <2>15, <3>1, <3>2 DEF ReplyLost
  <2>16. QED
    BY <1>4, <2>15, <2>3, <2>4, <2>5, <2>6, <2>7, <2>8, <2>9, <2>10, <2>11, <2>12, <2>13, <2>14 DEF Steps, Works
<1>5. QED
  BY <1>1, <1>2, <1>3, <1>4 DEF PlaneNext, Steps

-----------------------------------------------------------------------------
(* The theorems. *)

PlaneInv ==
  /\ PlaneTypes /\ PasswordOpens /\ Sized /\ Pods /\ Brought
  /\ \A c \in Crew : Kinds(c) /\ Owes(c) /\ Whole(c) /\ Still(c) /\ Made(c)

LEMMA PlaneSafe == PlaneSpec => []PlaneInv
<1>1. PlaneInit => PlaneInv
  <2> SUFFICES ASSUME PlaneInit PROVE PlaneInv
    OBVIOUS
  <2>1. PlaneTypes /\ \A c \in Crew : Kinds(c)
    BY PlaneTypeInit
  <2>2. PasswordOpens /\ Sized /\ Brought
    BY DEF PlaneInit, PasswordOpens, Sized, Brought
  <2>3. Running = {} /\ Pods
    BY DEF PlaneInit, Running, Pods
  <2>4. ASSUME NEW c \in Crew PROVE Owes(c) /\ Whole(c) /\ Still(c) /\ Made(c)
    <3>1. stage[c] = "idle" /\ told[c] = Unset /\ noted[c].replicas = 0
      BY DEF PlaneInit, Memo
    <3>2. QED
      BY <3>1 DEF Owes, Whole, Still, Made, Loaded, Quiesced
  <2>5. QED
    BY <2>1, <2>2, <2>3, <2>4 DEF PlaneInv
<1>2. PlaneInv /\ [PlaneNext]_planeVars => PlaneInv'
  <2> SUFFICES ASSUME PlaneInv, [PlaneNext]_planeVars PROVE PlaneInv'
    OBVIOUS
  <2> USE DEF PlaneInv
  <2>1. PlaneTypes' /\ Grows
    BY PlaneTypeStep, Growing
  <2>2. PasswordOpens' /\ Sized' /\ Pods' /\ Brought'
    BY <2>1, PasswordStep, SizedStep, PodsStep, BroughtStep
  <2>3. (\A c \in Crew : Kinds(c))' /\ (\A c \in Crew : Owes(c))'
    BY <2>1, KindsStep, OwesStep
  <2>4. (\A c \in Crew : Whole(c) /\ Still(c) /\ Made(c))'
    BY <2>1, WholeStep, StillStep, MadeStep
  <2>5. QED
    BY <2>1, <2>2, <2>3, <2>4
<1>3. QED
  BY <1>1, <1>2, PTL DEF PlaneSpec

\* plane.go:362 and 455-459: however many people deploy at once, Postgres opens
\* with the password in its Secret, and a kmx plane that succeeded undisturbed
\* runs the build it made, whatever the number of replicas.
THEOREM DeployedAsMade == PlaneSpec => []PlaneRunsWhatWasMade
<1>1. PlaneInv => PlaneRunsWhatWasMade
  BY DEF PlaneInv, Made, PlaneRunsWhatWasMade, RunsWhatWasBuilt
<1>2. QED
  BY <1>1, PlaneSafe, PTL

\* backup.go:133-150 and 173-175: a restore, wherever it fails and whoever else
\* restores, loads a whole dump with no proxy running unless somebody deployed
\* or scaled, and a plane that is left at zero was left by a mishap.
THEOREM RestoresSafely == PlaneSpec => []RestoreIsSafe
<1>1. PlaneInv => QuietWhileLoading /\ LoadsWhole
  BY DEF PlaneInv, Still, Whole, QuietWhileLoading, LoadsWhole, At
<1>2. PlaneInv => ComesBack
  BY DEF PlaneInv, Brought, ComesBack, At, Away, Quiesced
<1>3. QED
  BY <1>1, <1>2, PlaneSafe, PTL DEF RestoreIsSafe
-----------------------------------------------------------------------------
(* An agent, its model and its tools. *)

\* The commands that come by a stop.
Walks(stop) ==
  CASE stop = "idle" -> {}
    [] stop = "live" -> {"up"}
    [] stop = "own" -> {"interactive", "direct"}
    [] stop = "exists" -> {"interactive"}
    [] stop \in {"bound", "issue", "reconcile", "store"} -> Issues
    [] stop \in {"allow", "server", "accepted"} -> {"tools"}
    [] stop = "switch" -> {"govern", "interactive"}
    [] stop \in {"presetGen", "agentGen", "revision", "apply", "presetAfter", "agentAfter", "rolled",
                 "confirm"} -> Switches
    [] stop = "patch" -> Switches \cup {"up"}
    [] stop = "rewire" -> {"tools", "up"}
    [] stop = "reset" -> {"up", "untools"}
    [] stop \in {"gen", "observed", "rollout", "newest", "hash", "single"} ->
         Switches \cup {"tools", "untools"}
    [] stop = "ready" -> Switches \cup {"tools", "up"}

\* What a command has read, and what it leaves.
ReadRecord ==
  [presetGen : Nat, agentGen : Nat, revision : Nat, rolls : BOOLEAN, gen : Nat,
   hash : Template \cup {Nil}, content : Contents \cup {Nil}, exists : BOOLEAN,
   token : Tokens \cup {Nil}, preset : Presets \cup {Nil}, wiring : Wirings \cup {Nil}]

EndRecord ==
  [kind : Switches \cup {"up", "tools", "untools"}, preset : Presets \cup {Nil}, gen : Nat, exact : BOOLEAN,
   found : [preset : Presets \cup {Nil}, wiring : Wirings \cup {Nil}]]

ClusterTypes ==
  /\ agent \in [name : {"hello-world", "hello-tools"}, gen : 0..MaxGen, preset : Presets,
                wiring : Wirings, seen : 0..MaxGen]
  /\ conf \in [Presets -> [gen : 0..MaxGen, content : Contents \cup {Nil}]]
  /\ rolled \in Seq(Template) /\ Newest <= MaxRevision /\ pods \subseteq Template
  /\ \A m \in Presets : conf[m].gen > 0 => conf[m].content \in Contents

CustodyTypes ==
  /\ server \in [Governed -> {"none", "applied", "accepted"}]
  /\ secret \in [Secrets -> [cred : Creds, token : Tokens] \cup {Nil}]
  /\ row \in [Creds -> Tokens \cup {Nil}] /\ allowed \subseteq Creds
  /\ crossed \subseteq People /\ lost \subseteq Creds

CommandTypes ==
  /\ at \in [People -> Stops] /\ order \in [People -> Orders \cup {Nil}]
  /\ read \in [People -> ReadRecord]

HistoryTypes == settled \in [People -> BOOLEAN] /\ ended \in [People -> EndRecord \cup {Nil}]

\* Stops at which the content of an interactive command is at hand, and at
\* which kmx up knows what to put back.
Carrying == {"exists", "bound", "issue", "reconcile", "store", "switch", "presetGen", "agentGen",
             "revision", "apply"}
Restores == {"reset", "patch", "rewire", "ready"}

\* What a command knows at a stop it comes by.
Fits(d, stop, r) ==
  /\ d.kind \in Walks(stop)
  /\ stop \in Carrying /\ d.kind \in {"interactive", "direct"} => r.content \in Contents
  /\ stop \in Restores /\ d.kind = "up" => r.preset \in Presets /\ r.wiring \in Wirings
  /\ stop = "store" <=> r.token # Nil
  /\ stop = "single" => r.hash \in Template

Walking(p) ==
  /\ at[p] = "idle" <=> order[p] = Nil
  /\ IF at[p] = "idle" THEN read[p].token = Nil ELSE Fits(order[p], at[p], read[p])

AgentsTypes ==
  /\ ClusterTypes /\ CustodyTypes /\ CommandTypes /\ HistoryTypes
  /\ \A p \in People : Walking(p)

\* A command of somebody, who alone moves.
Moves(p) == Acts(p) \/ Interrupted(p) \/ \E d \in Orders : Give(p, d)
Unmoved(q) == at'[q] = at[q] /\ order'[q] = order[q] /\ read'[q] = read[q]
WalksOn(p) == CommandTypes' /\ Walking(p)' /\ \A q \in People : q # p => Unmoved(q)

-----------------------------------------------------------------------------
(* Types. *)

LEMMA Ordered ==
  ASSUME NEW d \in Orders
  PROVE  /\ d \in OrderRecord /\ d # Nil
         /\ d.kind \in Switches => d.preset \in Presets
         /\ d.kind \in {"use", "govern"} => d.content \in Contents
         /\ d.kind \in Issues => d.cred \in Creds /\ d.secret \in Secrets
         /\ d.kind = "tools" => d.wiring \in Governed
<1>1. Orders \subseteq OrderRecord /\ Nil \notin Orders
  BY AgentsAssumption
<1>2. /\ d.kind \in Switches => d.preset # Nil
      /\ d.kind \in {"use", "govern"} => d.content # Nil
      /\ d.kind \in Issues => d.cred # Nil /\ d.secret # Nil
      /\ d.kind = "tools" => d.wiring # Nil
  BY AgentsAssumption
<1>3. d \in OrderRecord
  BY <1>1
<1> QED
  BY <1>1, <1>2, <1>3 DEF OrderRecord

LEMMA Marked ==
  /\ Keyless \in Presets /\ MaxGen \in Nat \ {0} /\ MaxRevision \in Nat \ {0}
  /\ Nil \notin Presets /\ Nil \notin Contents /\ Nil \notin Creds /\ Nil \notin Tokens
  /\ Nil \notin [cred : Creds, token : Tokens]
BY AgentsAssumption

\* Whoever has a command is where that command comes by.
LEMMA Walker ==
  ASSUME AgentsTypes, NEW p \in People, at[p] # "idle"
  PROVE  order[p] \in Orders /\ read[p] \in ReadRecord /\ at[p] \in Stops /\ Fits(order[p], at[p], read[p])
<1>1. at[p] \in Stops /\ order[p] \in Orders \cup {Nil} /\ read[p] \in ReadRecord /\ Walking(p)
  BY DEF AgentsTypes, CommandTypes
<1> QED
  BY <1>1 DEF Walking

LEMMA Going ==
  ASSUME CommandTypes, NEW p \in People, NEW s \in Stops, To(p, s)
  PROVE  at' \in [People -> Stops] /\ at'[p] = s /\ \A q \in People : q # p => at'[q] = at[q]
BY DEF CommandTypes, To

LEMMA Learning ==
  ASSUME CommandTypes, NEW p \in People, NEW r \in ReadRecord, Learn(p, r)
  PROVE  read' \in [People -> ReadRecord] /\ read'[p] = r /\ \A q \in People : q # p => read'[q] = read[q]
BY DEF CommandTypes, Learn

LEMMA Blanks ==
  /\ Blank \in ReadRecord
  /\ \A n \in Nat, x \in Presets \cup {Nil}, w \in Wirings \cup {Nil} :
       [Blank EXCEPT !.gen = n, !.preset = x, !.wiring = w] \in ReadRecord
BY DEF Blank, ReadRecord

\* A command that is over.
Idles(p) == To(p, "idle") /\ Learn(p, Blank) /\ order' = [order EXCEPT ![p] = Nil]

LEMMA Idling ==
  ASSUME CommandTypes, NEW p \in People, Idles(p)
  PROVE  /\ CommandTypes' /\ Walking(p)' /\ at'[p] = "idle" /\ order'[p] = Nil
         /\ \A q \in People : q # p => Unmoved(q)
<1>1. "idle" \in Stops
  BY DEF Stops
<1>2. Blank \in ReadRecord /\ Blank.token = Nil
  BY Blanks DEF Blank
<1>3. /\ at' \in [People -> Stops] /\ at'[p] = "idle" /\ \A q \in People : q # p => at'[q] = at[q]
  BY <1>1, Going DEF Idles
<1>4. /\ read' \in [People -> ReadRecord] /\ read'[p] = Blank
      /\ \A q \in People : q # p => read'[q] = read[q]
  BY <1>2, Learning DEF Idles
<1>5. /\ order' \in [People -> Orders \cup {Nil}] /\ order'[p] = Nil
      /\ \A q \in People : q # p => order'[q] = order[q]
  BY DEF Idles, CommandTypes
<1>6. Walking(p)'
  BY <1>2, <1>3, <1>4, <1>5 DEF Walking
<1> QED
  BY <1>3, <1>4, <1>5, <1>6 DEF CommandTypes, Unmoved

LEMMA Counts ==
  ASSUME ClusterTypes
  PROVE  /\ agent.gen \in Nat /\ agent.seen \in Nat /\ Newest \in Nat
         /\ \A m \in Presets : conf[m].gen \in Nat
<1>1. MaxGen \in Nat
  BY Marked
<1>2. agent.gen \in 0..MaxGen /\ agent.seen \in 0..MaxGen
  BY DEF ClusterTypes
<1>3. ASSUME NEW m \in Presets PROVE conf[m].gen \in 0..MaxGen
  BY DEF ClusterTypes
<1>4. Newest \in Nat
  BY DEF ClusterTypes, Newest
<1> QED
  BY <1>1, <1>2, <1>3, <1>4

\* To take note of something keeps the record.
LEMMA Noted ==
  ASSUME NEW r \in ReadRecord, NEW n \in Nat
  PROVE  /\ [r EXCEPT !.presetGen = n] \in ReadRecord
         /\ [r EXCEPT !.agentGen = n] \in ReadRecord
         /\ [r EXCEPT !.revision = n] \in ReadRecord
BY DEF ReadRecord

LEMMA Unread == ASSUME CommandTypes, NEW p \in People, UNCHANGED read PROVE Learn(p, read[p])
BY DEF CommandTypes, Learn

\* A command that goes on to the next stop, where it knows what it has to.
LEMMA Walked ==
  ASSUME AgentsTypes, NEW p \in People, at[p] # "idle", UNCHANGED order,
         NEW s \in Stops \ {"idle"}, To(p, s), NEW r \in ReadRecord, Learn(p, r), Fits(order[p], s, r)
  PROVE  WalksOn(p) /\ at'[p] = s /\ read'[p] = r
<1>0. CommandTypes
  BY DEF AgentsTypes
<1>1. at' \in [People -> Stops] /\ at'[p] = s /\ \A q \in People : q # p => at'[q] = at[q]
  BY <1>0, Going
<1>2. read' \in [People -> ReadRecord] /\ read'[p] = r /\ \A q \in People : q # p => read'[q] = read[q]
  BY <1>0, Learning
<1>3. order[p] # Nil
  BY DEF AgentsTypes, Walking
<1>4. Walking(p)'
  BY <1>1, <1>2, <1>3 DEF Walking
<1>5. CommandTypes'
  BY <1>0, <1>1, <1>2 DEF CommandTypes
<1> QED
  BY <1>1, <1>2, <1>4, <1>5 DEF WalksOn, Unmoved

\* The same, without having read anything.
LEMMA Stepped ==
  ASSUME AgentsTypes, NEW p \in People, at[p] # "idle", UNCHANGED <<order, read>>,
         NEW s \in Stops \ {"idle"}, To(p, s), Fits(order[p], s, read[p])
  PROVE  WalksOn(p) /\ at'[p] = s /\ read'[p] = read[p]
<1>1. CommandTypes /\ read[p] \in ReadRecord
  BY DEF AgentsTypes, CommandTypes
<1>2. Learn(p, read[p])
  BY <1>1, Unread
<1> QED
  BY <1>1, <1>2, Walked

LEMMA Ended ==
  ASSUME AgentsTypes, NEW p \in People, Finish(p)
  PROVE  WalksOn(p) /\ at'[p] = "idle"
BY Idling DEF AgentsTypes, WalksOn, Finish, Idles
-----------------------------------------------------------------------------
(* Every step of a command leaves it where it may be. *)

LEMMA ActsOnward ==
  ASSUME AgentsTypes, NEW p \in People, Acts(p)
  PROVE  WalksOn(p)
<1>0. CommandTypes /\ CustodyTypes /\ ClusterTypes
  BY DEF AgentsTypes
<1>o. ASSUME NEW s \in Stops, s # "idle", at[p] = s
      PROVE  /\ order[p] \in Orders /\ read[p] \in ReadRecord /\ at[p] # "idle"
             /\ Fits(order[p], s, read[p])
             /\ order[p].kind \in Switches => order[p].preset \in Presets
             /\ order[p].kind \in Issues => order[p].cred \in Creds /\ order[p].secret \in Secrets
             /\ order[p].kind = "tools" => order[p].wiring \in Governed
  BY <1>o, Walker, Ordered
<1>1. CASE ReadBound(p)
  <2>1. at[p] = "bound" /\ "bound" \in Stops
    BY <1>1 DEF ReadBound, Step, Stops
  <2>2. ASSUME To(p, "issue"), UNCHANGED <<order, read>> PROVE WalksOn(p)
    <3>1. Fits(order[p], "issue", read[p]) /\ "issue" \in Stops \ {"idle"}
      BY <1>o, <2>1, <2>2 DEF Fits, Walks, Carrying, Restores, Issues, Switches, Stops
    <3> QED
      BY <1>o, <2>1, <2>2, <3>1, Stepped
  <2>3. ASSUME Finish(p) PROVE WalksOn(p)
    BY <2>3, Ended
  <2> QED
    BY <1>1, <2>2, <2>3 DEF ReadBound, Refused
<1>2. CASE ReconcileExisting(p)
  <2>1. at[p] = "reconcile" /\ "reconcile" \in Stops
    BY <1>2 DEF ReconcileExisting, Step, Stops
  <2>2. ASSUME To(p, "allow"), UNCHANGED <<order, read>>, order[p].kind = "tools" PROVE WalksOn(p)
    <3>1. Fits(order[p], "allow", read[p]) /\ "allow" \in Stops \ {"idle"}
      BY <1>o, <2>1, <2>2 DEF Fits, Walks, Carrying, Restores, Issues, Switches, Stops
    <3> QED
      BY <1>o, <2>1, <2>2, <3>1, Stepped
  <2>3. ASSUME To(p, "switch"), UNCHANGED <<order, read>>, order[p].kind # "tools" PROVE WalksOn(p)
    <3>1. Fits(order[p], "switch", read[p]) /\ "switch" \in Stops \ {"idle"}
      BY <1>o, <2>1, <2>3 DEF Fits, Walks, Carrying, Restores, Issues, Switches, Stops
    <3> QED
      BY <1>o, <2>1, <2>3, <3>1, Stepped
  <2>4. ASSUME Finish(p) PROVE WalksOn(p)
    BY <2>4, Ended
  <2> QED
    BY <1>2, <2>2, <2>3, <2>4 DEF ReconcileExisting, Refused, AfterIssue
<1>3. CASE Allow(p)
  <2>1. at[p] = "allow" /\ "allow" \in Stops
    BY <1>3 DEF Allow, Step, Stops
  <2>2. ASSUME To(p, "server"), UNCHANGED <<order, read>> PROVE WalksOn(p)
    <3>1. Fits(order[p], "server", read[p]) /\ "server" \in Stops \ {"idle"}
      BY <1>o, <2>1, <2>2 DEF Fits, Walks, Carrying, Restores, Issues, Switches, Stops
    <3> QED
      BY <1>o, <2>1, <2>2, <3>1, Stepped
  <2> QED
    BY <1>3, <2>2 DEF Allow
<1>4. CASE Server(p)
  <2>1. at[p] = "server" /\ "server" \in Stops
    BY <1>4 DEF Server, Step, Stops
  <2>2. ASSUME To(p, "accepted"), UNCHANGED <<order, read>> PROVE WalksOn(p)
    <3>1. Fits(order[p], "accepted", read[p]) /\ "accepted" \in Stops \ {"idle"}
      BY <1>o, <2>1, <2>2 DEF Fits, Walks, Carrying, Restores, Issues, Switches, Stops
    <3> QED
      BY <1>o, <2>1, <2>2, <3>1, Stepped
  <2>3. ASSUME Finish(p) PROVE WalksOn(p)
    BY <2>3, Ended
  <2> QED
    BY <1>4, <2>2, <2>3 DEF Server, Refused
<1>5. CASE Accepted(p)
  <2>1. at[p] = "accepted" /\ "accepted" \in Stops
    BY <1>5 DEF Accepted, Step, Stops
  <2>2. ASSUME To(p, "rewire"), UNCHANGED <<order, read>> PROVE WalksOn(p)
    <3>1. Fits(order[p], "rewire", read[p]) /\ "rewire" \in Stops \ {"idle"}
      BY <1>o, <2>1, <2>2 DEF Fits, Walks, Carrying, Restores, Issues, Switches, Stops
    <3> QED
      BY <1>o, <2>1, <2>2, <3>1, Stepped
  <2> QED
    BY <1>5, <2>2 DEF Accepted
<1>6. CASE Switch(p)
  <2>1. at[p] = "switch" /\ "switch" \in Stops
    BY <1>6 DEF Switch, Step, Stops
  <2>2. ASSUME To(p, "presetGen"), UNCHANGED <<order, read>> PROVE WalksOn(p)
    <3>1. Fits(order[p], "presetGen", read[p]) /\ "presetGen" \in Stops \ {"idle"}
      BY <1>o, <2>1, <2>2 DEF Fits, Walks, Carrying, Restores, Issues, Switches, Stops
    <3> QED
      BY <1>o, <2>1, <2>2, <3>1, Stepped
  <2>3. ASSUME To(p, "apply"), UNCHANGED <<order, read>> PROVE WalksOn(p)
    <3>1. Fits(order[p], "apply", read[p]) /\ "apply" \in Stops \ {"idle"}
      BY <1>o, <2>1, <2>3 DEF Fits, Walks, Carrying, Restores, Issues, Switches, Stops
    <3> QED
      BY <1>o, <2>1, <2>3, <3>1, Stepped
  <2> QED
    BY <1>6, <2>2, <2>3 DEF Switch
<1>7. CASE Rewire(p)
  <2>1. at[p] = "rewire" /\ "rewire" \in Stops
    BY <1>7 DEF Rewire, Step, Stops
  <2>2. ASSUME To(p, "ready"), UNCHANGED <<order, read>>, order[p].kind = "up" PROVE WalksOn(p)
    <3>1. Fits(order[p], "ready", read[p]) /\ "ready" \in Stops \ {"idle"}
      BY <1>o, <2>1, <2>2 DEF Fits, Walks, Carrying, Restores, Issues, Switches, Stops
    <3> QED
      BY <1>o, <2>1, <2>2, <3>1, Stepped
  <2>3. ASSUME To(p, "gen"), UNCHANGED <<order, read>>, order[p].kind # "up" PROVE WalksOn(p)
    <3>1. Fits(order[p], "gen", read[p]) /\ "gen" \in Stops \ {"idle"}
      BY <1>o, <2>1, <2>3 DEF Fits, Walks, Carrying, Restores, Issues, Switches, Stops
    <3> QED
      BY <1>o, <2>1, <2>3, <3>1, Stepped
  <2> QED
    BY <1>7, <2>2, <2>3 DEF Rewire
<1>8. CASE Reset(p)
  <2>1. at[p] = "reset" /\ "reset" \in Stops
    BY <1>8 DEF Reset, Step, Stops
  <2>2. ASSUME To(p, "patch"), UNCHANGED <<order, read>>, order[p].kind = "up" PROVE WalksOn(p)
    <3>1. Fits(order[p], "patch", read[p]) /\ "patch" \in Stops \ {"idle"}
      BY <1>o, <2>1, <2>2 DEF Fits, Walks, Carrying, Restores, Issues, Switches, Stops
    <3> QED
      BY <1>o, <2>1, <2>2, <3>1, Stepped
  <2>3. ASSUME To(p, "rewire"), UNCHANGED <<order, read>>, order[p].kind = "up" PROVE WalksOn(p)
    <3>1. Fits(order[p], "rewire", read[p]) /\ "rewire" \in Stops \ {"idle"}
      BY <1>o, <2>1, <2>3 DEF Fits, Walks, Carrying, Restores, Issues, Switches, Stops
    <3> QED
      BY <1>o, <2>1, <2>3, <3>1, Stepped
  <2>4. ASSUME To(p, "ready"), UNCHANGED <<order, read>>, order[p].kind = "up" PROVE WalksOn(p)
    <3>1. Fits(order[p], "ready", read[p]) /\ "ready" \in Stops \ {"idle"}
      BY <1>o, <2>1, <2>4 DEF Fits, Walks, Carrying, Restores, Issues, Switches, Stops
    <3> QED
      BY <1>o, <2>1, <2>4, <3>1, Stepped
  <2>5. ASSUME To(p, "gen"), UNCHANGED <<order, read>>, order[p].kind # "up" PROVE WalksOn(p)
    <3>1. Fits(order[p], "gen", read[p]) /\ "gen" \in Stops \ {"idle"}
      BY <1>o, <2>1, <2>5 DEF Fits, Walks, Carrying, Restores, Issues, Switches, Stops
    <3> QED
      BY <1>o, <2>1, <2>5, <3>1, Stepped
  <2> QED
    BY <1>8, <2>2, <2>3, <2>4, <2>5 DEF Reset, PutsBack
<1>9. CASE Patch(p)
  <2>1. at[p] = "patch" /\ "patch" \in Stops
    BY <1>9 DEF Patch, Step, Stops
  <2>2. ASSUME To(p, "presetAfter"), UNCHANGED <<order, read>>, order[p].kind # "up" PROVE WalksOn(p)
    <3>1. Fits(order[p], "presetAfter", read[p]) /\ "presetAfter" \in Stops \ {"idle"}
      BY <1>o, <2>1, <2>2 DEF Fits, Walks, Carrying, Restores, Issues, Switches, Stops
    <3> QED
      BY <1>o, <2>1, <2>2, <3>1, Stepped
  <2>3. ASSUME To(p, "rewire"), UNCHANGED <<order, read>>, order[p].kind = "up" PROVE WalksOn(p)
    <3>1. Fits(order[p], "rewire", read[p]) /\ "rewire" \in Stops \ {"idle"}
      BY <1>o, <2>1, <2>3 DEF Fits, Walks, Carrying, Restores, Issues, Switches, Stops
    <3> QED
      BY <1>o, <2>1, <2>3, <3>1, Stepped
  <2>4. ASSUME To(p, "ready"), UNCHANGED <<order, read>>, order[p].kind = "up" PROVE WalksOn(p)
    <3>1. Fits(order[p], "ready", read[p]) /\ "ready" \in Stops \ {"idle"}
      BY <1>o, <2>1, <2>4 DEF Fits, Walks, Carrying, Restores, Issues, Switches, Stops
    <3> QED
      BY <1>o, <2>1, <2>4, <3>1, Stepped
  <2> QED
    BY <1>9, <2>2, <2>3, <2>4 DEF Patch
<1>10. CASE Observed(p)
  <2>1. at[p] = "observed" /\ "observed" \in Stops
    BY <1>10 DEF Observed, Step, Stops
  <2>2. ASSUME To(p, "rollout"), UNCHANGED <<order, read>> PROVE WalksOn(p)
    <3>1. Fits(order[p], "rollout", read[p]) /\ "rollout" \in Stops \ {"idle"}
      BY <1>o, <2>1, <2>2 DEF Fits, Walks, Carrying, Restores, Issues, Switches, Stops
    <3> QED
      BY <1>o, <2>1, <2>2, <3>1, Stepped
  <2> QED
    BY <1>10, <2>2 DEF Observed
<1>11. CASE RolledOut(p)
  <2>1. at[p] = "rollout" /\ "rollout" \in Stops
    BY <1>11 DEF RolledOut, Step, Stops
  <2>2. ASSUME To(p, "newest"), UNCHANGED <<order, read>> PROVE WalksOn(p)
    <3>1. Fits(order[p], "newest", read[p]) /\ "newest" \in Stops \ {"idle"}
      BY <1>o, <2>1, <2>2 DEF Fits, Walks, Carrying, Restores, Issues, Switches, Stops
    <3> QED
      BY <1>o, <2>1, <2>2, <3>1, Stepped
  <2> QED
    BY <1>11, <2>2 DEF RolledOut
<1>12. CASE Single(p)
  <2>1. at[p] = "single" /\ "single" \in Stops
    BY <1>12 DEF Single, Step, Stops
  <2>2. ASSUME To(p, "ready"), UNCHANGED <<order, read>>, order[p].kind # "untools" PROVE WalksOn(p)
    <3>1. Fits(order[p], "ready", read[p]) /\ "ready" \in Stops \ {"idle"}
      BY <1>o, <2>1, <2>2 DEF Fits, Walks, Carrying, Restores, Issues, Switches, Stops
    <3> QED
      BY <1>o, <2>1, <2>2, <3>1, Stepped
  <2>3. ASSUME Finish(p) PROVE WalksOn(p)
    BY <2>3, Ended
  <2> QED
    BY <1>12, <2>2, <2>3 DEF Single, Succeeded
<1>13. CASE Ready(p)
  <2>1. at[p] = "ready" /\ "ready" \in Stops
    BY <1>13 DEF Ready, Step, Stops
  <2>2. ASSUME To(p, "confirm"), UNCHANGED <<order, read>>, order[p].kind \in Switches PROVE WalksOn(p)
    <3>1. Fits(order[p], "confirm", read[p]) /\ "confirm" \in Stops \ {"idle"}
      BY <1>o, <2>1, <2>2 DEF Fits, Walks, Carrying, Restores, Issues, Switches, Stops
    <3> QED
      BY <1>o, <2>1, <2>2, <3>1, Stepped
  <2>3. ASSUME Finish(p) PROVE WalksOn(p)
    BY <2>3, Ended
  <2> QED
    BY <1>13, <2>2, <2>3 DEF Ready, Succeeded
<1>14. CASE Confirm(p)
  <2>1. at[p] = "confirm" /\ "confirm" \in Stops
    BY <1>14 DEF Confirm, Step, Stops
  <2> QED
    BY <1>14, Ended DEF Confirm, Succeeded, Refused
<1>15. CASE SecretExists(p)
  <2>1. at[p] = "exists" /\ "exists" \in Stops
    BY <1>15 DEF SecretExists, Step, Stops
  <2> DEFINE r == [read[p] EXCEPT !.exists = secret[order[p].secret] # Nil]
  <2>2. r \in ReadRecord
    BY <1>o, <2>1 DEF ReadRecord
  <2>3. ASSUME To(p, "bound"), Learn(p, r), UNCHANGED order PROVE WalksOn(p)
    <3>1. Fits(order[p], "bound", r) /\ "bound" \in Stops \ {"idle"}
      BY <1>o, <2>1 DEF Fits, Walks, Carrying, Restores, Issues, Switches, Stops, ReadRecord
    <3> HIDE DEF r
    <3> QED
      BY <1>o, <2>1, <2>2, <2>3, <3>1, Walked
  <2> QED
    BY <1>15, <2>3 DEF SecretExists
<1>16. CASE ReadPresetGen(p)
  <2>1. at[p] = "presetGen" /\ "presetGen" \in Stops
    BY <1>16 DEF ReadPresetGen, Step, Stops
  <2> DEFINE r == [read[p] EXCEPT !.presetGen = conf[order[p].preset].gen]
  <2>2. r \in ReadRecord
    BY <1>o, <2>1, <1>0, Counts, Noted DEF Fits, Walks, Switches
  <2>3. ASSUME To(p, "agentGen"), Learn(p, r), UNCHANGED order PROVE WalksOn(p)
    <3>1. Fits(order[p], "agentGen", r) /\ "agentGen" \in Stops \ {"idle"}
      BY <1>o, <2>1 DEF Fits, Walks, Carrying, Restores, Issues, Switches, Stops, ReadRecord
    <3> HIDE DEF r
    <3> QED
      BY <1>o, <2>1, <2>2, <2>3, <3>1, Walked
  <2> QED
    BY <1>16, <2>3 DEF ReadPresetGen
<1>17. CASE ReadAgentGen(p)
  <2>1. at[p] = "agentGen" /\ "agentGen" \in Stops
    BY <1>17 DEF ReadAgentGen, Step, Stops
  <2> DEFINE r == [read[p] EXCEPT !.agentGen = agent.gen]
  <2>2. r \in ReadRecord
    BY <1>o, <2>1, <1>0, Counts, Noted
  <2>3. ASSUME To(p, "revision"), Learn(p, r), UNCHANGED order PROVE WalksOn(p)
    <3>1. Fits(order[p], "revision", r) /\ "revision" \in Stops \ {"idle"}
      BY <1>o, <2>1 DEF Fits, Walks, Carrying, Restores, Issues, Switches, Stops, ReadRecord
    <3> HIDE DEF r
    <3> QED
      BY <1>o, <2>1, <2>2, <2>3, <3>1, Walked
  <2>4. ASSUME Finish(p) PROVE WalksOn(p)
    BY <2>4, Ended
  <2> QED
    BY <1>17, <2>3, <2>4 DEF ReadAgentGen, Refused
<1>18. CASE ReadRevision(p)
  <2>1. at[p] = "revision" /\ "revision" \in Stops
    BY <1>18 DEF ReadRevision, Step, Stops
  <2> DEFINE r == [read[p] EXCEPT !.revision = Newest]
  <2>2. r \in ReadRecord
    BY <1>o, <2>1, <1>0, Counts, Noted
  <2>3. ASSUME To(p, "apply"), Learn(p, r), UNCHANGED order PROVE WalksOn(p)
    <3>1. Fits(order[p], "apply", r) /\ "apply" \in Stops \ {"idle"}
      BY <1>o, <2>1 DEF Fits, Walks, Carrying, Restores, Issues, Switches, Stops, ReadRecord
    <3> HIDE DEF r
    <3> QED
      BY <1>o, <2>1, <2>2, <2>3, <3>1, Walked
  <2> QED
    BY <1>18, <2>3 DEF ReadRevision
<1>19. CASE ReadPresetAfter(p)
  <2>1. at[p] = "presetAfter" /\ "presetAfter" \in Stops
    BY <1>19 DEF ReadPresetAfter, Step, Stops
  <2> DEFINE r == [read[p] EXCEPT !.presetGen = 0, !.rolls = conf[order[p].preset].gen # read[p].presetGen]
  <2>2. r \in ReadRecord
    BY <1>o, <2>1 DEF ReadRecord
  <2>3. ASSUME To(p, "agentAfter"), Learn(p, r), UNCHANGED order PROVE WalksOn(p)
    <3>1. Fits(order[p], "agentAfter", r) /\ "agentAfter" \in Stops \ {"idle"}
      BY <1>o, <2>1 DEF Fits, Walks, Carrying, Restores, Issues, Switches, Stops, ReadRecord
    <3> HIDE DEF r
    <3> QED
      BY <1>o, <2>1, <2>2, <2>3, <3>1, Walked
  <2> QED
    BY <1>19, <2>3 DEF ReadPresetAfter
<1>20. CASE Rolled(p)
  <2>1. at[p] = "rolled" /\ "rolled" \in Stops
    BY <1>20 DEF Rolled, Step, Stops
  <2> DEFINE r == [read[p] EXCEPT !.revision = 0]
  <2>2. r \in ReadRecord
    BY <1>o, <2>1 DEF ReadRecord
  <2>3. ASSUME To(p, "gen"), Learn(p, r), UNCHANGED order PROVE WalksOn(p)
    <3>1. Fits(order[p], "gen", r) /\ "gen" \in Stops \ {"idle"}
      BY <1>o, <2>1 DEF Fits, Walks, Carrying, Restores, Issues, Switches, Stops, ReadRecord
    <3> HIDE DEF r
    <3> QED
      BY <1>o, <2>1, <2>2, <2>3, <3>1, Walked
  <2> QED
    BY <1>20, <2>3 DEF Rolled
<1>21. CASE ReadGen(p)
  <2>1. at[p] = "gen" /\ "gen" \in Stops
    BY <1>21 DEF ReadGen, Step, Stops
  <2> DEFINE r == [Blank EXCEPT !.gen = agent.gen, !.preset = read[p].preset, !.wiring = read[p].wiring]
  <2>2. r \in ReadRecord
    <3>1. agent.gen \in Nat /\ read[p].preset \in Presets \cup {Nil} /\ read[p].wiring \in Wirings \cup {Nil}
      BY <1>0, <1>o, <2>1, Counts DEF ReadRecord
    <3> QED
      BY <3>1, Blanks
  <2>3. Fits(order[p], "observed", r) /\ "observed" \in Stops \ {"idle"}
    BY <1>o, <2>1 DEF Fits, Walks, Carrying, Restores, Issues, Switches, Stops, Blank
  <2>4. at[p] # "idle"
    BY <2>1
  <2>5. To(p, "observed") /\ Learn(p, r) /\ UNCHANGED order
    BY <1>21 DEF ReadGen
  <2> HIDE DEF r
  <2> QED
    BY <2>2, <2>3, <2>4, <2>5, Walked
<1>22. CASE ReadNewest(p)
  <2>1. at[p] = "newest" /\ "newest" \in Stops
    BY <1>22 DEF ReadNewest, Step, Stops
  <2> DEFINE r == [read[p] EXCEPT !.revision = Newest]
  <2>2. r \in ReadRecord
    BY <1>o, <2>1, <1>0, Counts, Noted
  <2>3. ASSUME To(p, "hash"), Learn(p, r), UNCHANGED order PROVE WalksOn(p)
    <3>1. Fits(order[p], "hash", r) /\ "hash" \in Stops \ {"idle"}
      BY <1>o, <2>1 DEF Fits, Walks, Carrying, Restores, Issues, Switches, Stops, ReadRecord
    <3> HIDE DEF r
    <3> QED
      BY <1>o, <2>1, <2>2, <2>3, <3>1, Walked
  <2> QED
    BY <1>22, <2>3 DEF ReadNewest
<1>23. CASE Own(p)
  <2>1. at[p] = "own" /\ "own" \in Stops
    BY <1>23 DEF Own, Step, Stops
  <2> DEFINE r == [Blank EXCEPT !.content = conf[agent.preset].content]
  <2>2. ASSUME conf[agent.preset].gen > 0 PROVE r.content \in Contents /\ r \in ReadRecord /\ r.token = Nil
    <3>1. conf[agent.preset].content \in Contents
      BY <1>0, <2>2 DEF ClusterTypes
    <3> QED
      BY <3>1, Blanks DEF ReadRecord, Blank
  <2>3. ASSUME NEW s \in {"presetGen", "exists"}, To(p, s), Learn(p, r), UNCHANGED order,
               conf[agent.preset].gen > 0, s = "exists" => order[p].kind # "direct"
        PROVE  WalksOn(p)
    <3>1. Fits(order[p], s, r) /\ s \in Stops \ {"idle"}
      BY <1>o, <2>1, <2>2, <2>3 DEF Fits, Walks, Carrying, Restores, Issues, Switches, Stops
    <3> HIDE DEF r
    <3> QED
      BY <1>o, <2>1, <2>2, <2>3, <3>1, Walked
  <2>4. ASSUME Finish(p) PROVE WalksOn(p)
    BY <2>4, Ended
  <2> QED
    BY <1>23, <2>3, <2>4 DEF Own, Refused
<1>24. CASE Issue(p)
  <2>1. at[p] = "issue" /\ "issue" \in Stops
    BY <1>24 DEF Issue, Step, Stops
  <2>2. ASSUME To(p, "reconcile"), UNCHANGED <<order, read>> PROVE WalksOn(p)
    <3>1. Fits(order[p], "reconcile", read[p]) /\ "reconcile" \in Stops \ {"idle"}
      BY <1>o, <2>1 DEF Fits, Walks, Carrying, Restores, Issues, Switches, Stops
    <3> QED
      BY <1>o, <2>1, <2>2, <3>1, Stepped
  <2>3. ASSUME NEW t \in Tokens, To(p, "store"), Learn(p, [read[p] EXCEPT !.token = t]), UNCHANGED order
        PROVE  WalksOn(p)
    <3> DEFINE r == [read[p] EXCEPT !.token = t]
    <3>1. r \in ReadRecord /\ r.token # Nil /\ r.content = read[p].content
      BY <1>o, <2>1, Marked DEF ReadRecord
    <3>2. Fits(order[p], "store", r) /\ "store" \in Stops \ {"idle"}
      BY <1>o, <2>1, <3>1 DEF Fits, Walks, Carrying, Restores, Issues, Switches, Stops
    <3> HIDE DEF r
    <3>3. Learn(p, r)
      BY <2>3 DEF r
    <3> QED
      BY <1>o, <2>1, <2>3, <3>1, <3>2, <3>3, Walked
  <2> QED
    BY <1>24, <2>2, <2>3 DEF Issue
<1>25. CASE Store(p)
  <2>1. at[p] = "store" /\ "store" \in Stops
    BY <1>25 DEF Store, Step, Stops
  <2> DEFINE r == [read[p] EXCEPT !.token = Nil]
  <2>2. r \in ReadRecord /\ r.token = Nil /\ r.content = read[p].content
    BY <1>o, <2>1 DEF ReadRecord
  <2>3. ASSUME NEW s, s = AfterIssue(p), To(p, s), Learn(p, r), UNCHANGED order PROVE WalksOn(p)
    <3>1. Fits(order[p], s, r) /\ s \in Stops \ {"idle"}
      BY <1>o, <2>1, <2>2, <2>3 DEF Fits, Walks, Carrying, Restores, Issues, Switches, Stops, AfterIssue
    <3> HIDE DEF r
    <3> QED
      BY <1>o, <2>1, <2>2, <2>3, <3>1, Walked
  <2>4. ASSUME Finish(p) PROVE WalksOn(p)
    BY <2>4, Ended
  <2> QED
    BY <1>25, <2>3, <2>4 DEF Store, Refused
<1>26. CASE ReadAgentAfter(p)
  <2>1. at[p] = "agentAfter" /\ "agentAfter" \in Stops
    BY <1>26 DEF ReadAgentAfter, Step, Stops
  <2> DEFINE r == [read[p] EXCEPT !.agentGen = 0, !.rolls = FALSE]
  <2>2. r \in ReadRecord /\ r.token = read[p].token
    BY <1>o, <2>1 DEF ReadRecord
  <2>3. ASSUME NEW s \in {"rolled", "gen"}, To(p, s), Learn(p, r), UNCHANGED order PROVE WalksOn(p)
    <3>1. Fits(order[p], s, r) /\ s \in Stops \ {"idle"}
      BY <1>o, <2>1, <2>2 DEF Fits, Walks, Carrying, Restores, Issues, Switches, Stops
    <3> HIDE DEF r
    <3> QED
      BY <1>o, <2>1, <2>2, <2>3, <3>1, Walked
  <2> QED
    BY <1>26, <2>3 DEF ReadAgentAfter
<1>27. CASE ReadHash(p)
  <2>1. at[p] = "hash" /\ "hash" \in Stops
    BY <1>27 DEF ReadHash, Step, Stops
  <2> DEFINE r == [read[p] EXCEPT !.hash = rolled[read[p].revision], !.revision = 0]
  <2>2. ASSUME HasReplicaSet(read[p].revision) PROVE r \in ReadRecord /\ r.token = read[p].token /\ r.hash \in Template
    <3>1. rolled[read[p].revision] \in Template
      BY <1>0, <2>2 DEF ClusterTypes, HasReplicaSet
    <3> QED
      BY <1>o, <2>1, <3>1 DEF ReadRecord
  <2>3. ASSUME HasReplicaSet(read[p].revision), To(p, "single"), Learn(p, r), UNCHANGED order PROVE WalksOn(p)
    <3>1. Fits(order[p], "single", r) /\ "single" \in Stops \ {"idle"}
      BY <1>o, <2>1, <2>2, <2>3 DEF Fits, Walks, Carrying, Restores, Issues, Switches, Stops
    <3> HIDE DEF r
    <3> QED
      BY <1>o, <2>1, <2>2, <2>3, <3>1, Walked
  <2>4. ASSUME Finish(p) PROVE WalksOn(p)
    BY <2>4, Ended
  <2> QED
    BY <1>27, <2>3, <2>4 DEF ReadHash, Refused
<1>28. CASE ReadLive(p)
  <2>1. at[p] = "live" /\ "live" \in Stops
    BY <1>28 DEF ReadLive, Step, Stops
  <2> DEFINE preset == IF Here THEN agent.preset ELSE Keyless
             wiring == IF Here /\ agent.name = "hello-tools" THEN agent.wiring ELSE "direct"
             r == [Blank EXCEPT !.preset = preset, !.wiring = wiring]
  <2>2. preset \in Presets /\ wiring \in Wirings
    BY <1>0, Marked DEF ClusterTypes, Wirings
  <2>3. r \in ReadRecord /\ r.token = Nil /\ r.preset = preset /\ r.wiring = wiring
    BY <2>2 DEF ReadRecord, Blank
  <2>4. To(p, "reset") /\ Learn(p, r) /\ UNCHANGED order
    BY <1>28 DEF ReadLive
  <2> HIDE DEF preset, wiring
  <2>5. Fits(order[p], "reset", r) /\ "reset" \in Stops \ {"idle"}
    BY <1>o, <2>1, <2>2, <2>3 DEF Fits, Walks, Carrying, Restores, Issues, Switches, Stops
  <2>6. at[p] # "idle"
    BY <2>1
  <2> HIDE DEF r
  <2> QED
    BY <2>3, <2>4, <2>5, <2>6, Walked
<1>29. CASE Apply(p)
  <2>1. at[p] = "apply" /\ "apply" \in Stops
    BY <1>29 DEF Apply, Step, Stops
  <2>2. ASSUME To(p, "patch"), UNCHANGED <<order, read>> PROVE WalksOn(p)
    <3>1. Fits(order[p], "patch", read[p]) /\ "patch" \in Stops \ {"idle"}
      BY <1>o, <2>1 DEF Fits, Walks, Carrying, Restores, Issues, Switches, Stops
    <3> QED
      BY <1>o, <2>1, <2>2, <3>1, Stepped
  <2>3. ASSUME Idles(p) PROVE WalksOn(p)
    BY <1>0, <2>3, Idling DEF WalksOn
  <2> QED
    BY <1>29, <2>2, <2>3 DEF Apply, Idles
<1> QED
  BY <1>1, <1>2, <1>3, <1>4, <1>5, <1>6, <1>7, <1>8, <1>9, <1>10, <1>11, <1>12, <1>13, <1>14, <1>15, <1>16, <1>17, <1>18, <1>19, <1>20, <1>21, <1>22, <1>23, <1>24, <1>25, <1>26, <1>27, <1>28, <1>29 DEF Acts

LEMMA CommandsOnward ==
  ASSUME AgentsTypes, NEW p \in People, Moves(p)
  PROVE  WalksOn(p)
<1>1. CASE Acts(p)
  BY <1>1, ActsOnward
<1>2. CASE Interrupted(p)
  BY <1>2, Ended DEF Interrupted, Refused
<1>3. ASSUME NEW d \in Orders, Give(p, d) PROVE WalksOn(p)
  <2>1. CommandTypes /\ at[p] = "idle" /\ read[p].token = Nil /\ UNCHANGED read
    BY <1>3 DEF AgentsTypes, Walking, Give, Step
  <2>2. d # Nil /\ d.kind \in Switches \cup {"up", "tools", "untools"}
    BY Ordered DEF OrderRecord, Switches
  <2>3. First(d.kind) \in Stops \ {"idle"} /\ Fits(d, First(d.kind), read[p])
    BY <2>1, <2>2 DEF First, Stops, Fits, Walks, Carrying, Restores, Issues, Switches
  <2>4. at' \in [People -> Stops] /\ at'[p] = First(d.kind) /\ \A q \in People : q # p => at'[q] = at[q]
    BY <1>3, <2>1, <2>3, Going DEF Give
  <2>5. /\ order' \in [People -> Orders \cup {Nil}] /\ order'[p] = d
        /\ \A q \in People : q # p => order'[q] = order[q]
    BY <1>3, <2>1 DEF Give, CommandTypes
  <2>6. Walking(p)'
    BY <2>1, <2>2, <2>3, <2>4, <2>5 DEF Walking
  <2> QED
    BY <2>1, <2>4, <2>5, <2>6 DEF WalksOn, Unmoved, CommandTypes
<1> QED
  BY <1>1, <1>2, <1>3 DEF Moves

-----------------------------------------------------------------------------
(* What a command does to the agent and to what others were told. *)

\* It leaves both alone,
Leaves(p) ==
  /\ UNCHANGED <<agent, conf>>
  /\ \A q \in People : q # p => settled'[q] = settled[q] /\ ended'[q] = ended[q]

\* or writes the agent,
Rewrites(p) ==
  /\ agent'.gen = agent.gen + 1 /\ agent'.seen = agent.seen /\ agent'.name = agent.name /\ UNCHANGED conf
  /\ settled'[p] = settled[p] /\ \A q \in People : ended'[q] = Nil /\ (q # p => ~settled'[q])

\* or its model.
Inexact(q) == ended'[q] = IF ended[q] = Nil THEN Nil ELSE [ended[q] EXCEPT !.exact = FALSE]
Reconfigures(p) ==
  /\ UNCHANGED agent /\ \A m \in Presets : conf[m].gen <= conf'[m].gen
  /\ settled'[p] = settled[p] /\ \A q \in People : Inexact(q) /\ (q # p => ~settled'[q])

LEMMA Writing ==
  ASSUME HistoryTypes, NEW p \in People, NEW void \in BOOLEAN, Wrote(p, void)
  PROVE  /\ HistoryTypes' /\ settled'[p] = settled[p]
         /\ \A q \in People : q # p => ~settled'[q]
         /\ \A q \in People : IF void THEN ended'[q] = Nil ELSE Inexact(q)
<1>1. /\ settled' = [q \in People |-> settled[q] /\ q = p]
      /\ ended' = [q \in People |-> IF ended[q] = Nil \/ void THEN Nil ELSE [ended[q] EXCEPT !.exact = FALSE]]
  BY DEF Wrote
<1>2. settled' \in [People -> BOOLEAN] /\ settled'[p] = settled[p] /\ \A q \in People : q # p => ~settled'[q]
  BY <1>1 DEF HistoryTypes
<1>3. ASSUME NEW q \in People PROVE (ended[q] # Nil => [ended[q] EXCEPT !.exact = FALSE] \in EndRecord)
  BY DEF HistoryTypes, EndRecord
<1>4. ended' \in [People -> EndRecord \cup {Nil}]
  BY <1>1, <1>3
<1>5. \A q \in People : IF void THEN ended'[q] = Nil ELSE Inexact(q)
  BY <1>1 DEF Inexact
<1> QED
  BY <1>2, <1>4, <1>5 DEF HistoryTypes

LEMMA Wired ==
  ASSUME ClusterTypes, HistoryTypes, NEW p \in People, NEW x \in Presets, NEW w \in Wirings, Wire(p, x, w), UNCHANGED <<conf, rolled, pods>>
  PROVE  /\ ClusterTypes' /\ HistoryTypes' /\ ((Leaves(p) /\ settled'[p] = settled[p]) \/ Rewrites(p))
         /\ agent'.preset = x /\ agent'.wiring = w /\ Here'
<1> DEFINE new == [agent EXCEPT !.preset = x, !.wiring = w]
<1>1. /\ new.preset = x /\ new.wiring = w /\ new.gen = agent.gen /\ new.seen = agent.seen /\ new.name = agent.name
      /\ new \in [name : {"hello-world", "hello-tools"}, gen : 0..MaxGen, preset : Presets,
                  wiring : Wirings, seen : 0..MaxGen]
  BY DEF ClusterTypes
<1> HIDE DEF new
<1>2. CASE Here /\ new = agent /\ UNCHANGED agent /\ keepHistory
  BY <1>1, <1>2 DEF ClusterTypes, HistoryTypes, keepHistory, Leaves, Here, Newest
<1>3. CASE agent.gen < MaxGen /\ agent' = [new EXCEPT !.gen = @ + 1] /\ Wrote(p, TRUE)
  <2>1. agent.gen \in Nat /\ MaxGen \in Nat
    BY Counts, Marked
  <2>2. agent.gen + 1 \in 0..MaxGen /\ agent.gen + 1 > 0
    BY <1>3, <2>1
  <2>3. /\ agent'.gen = agent.gen + 1 /\ agent'.seen = agent.seen /\ agent'.name = agent.name
        /\ agent'.preset = x /\ agent'.wiring = w
        /\ agent' \in [name : {"hello-world", "hello-tools"}, gen : 0..MaxGen, preset : Presets,
                       wiring : Wirings, seen : 0..MaxGen]
    BY <1>1, <1>3, <2>2
  <2>4. HistoryTypes' /\ Rewrites(p)
    BY <1>3, <2>3, Writing DEF Rewrites
  <2>5. ClusterTypes'
    BY <2>3 DEF ClusterTypes, Newest
  <2> QED
    BY <2>2, <2>3, <2>4, <2>5 DEF Here
<1> QED
  BY <1>2, <1>3 DEF Wire, new

LEMMA Configured ==
  ASSUME ClusterTypes, HistoryTypes, NEW p \in People, NEW m \in Presets, NEW c \in Contents, Configure(p, m, c),
         UNCHANGED <<agent, rolled, pods>>
  PROVE  /\ ClusterTypes' /\ HistoryTypes'
         /\ \/ Leaves(p) /\ settled'[p] = settled[p]
            \/ Reconfigures(p) /\ conf'[m].gen > conf[m].gen
<1>1. CASE UNCHANGED conf /\ keepHistory
  BY <1>1 DEF ClusterTypes, HistoryTypes, keepHistory, Leaves, Newest
<1>2. CASE /\ conf[m].gen < MaxGen /\ Wrote(p, FALSE)
           /\ conf' = [conf EXCEPT ![m] = [gen |-> @.gen + 1, content |-> c]]
  <2>1. conf[m].gen \in Nat /\ MaxGen \in Nat
    BY Counts, Marked
  <2> DEFINE new == [gen |-> conf[m].gen + 1, content |-> c]
  <2>2. new \in [gen : 0..MaxGen, content : Contents \cup {Nil}] /\ new.gen > conf[m].gen /\ new.content \in Contents
    BY <1>2, <2>1
  <2>3. conf' = [conf EXCEPT ![m] = new] /\ conf \in [Presets -> [gen : 0..MaxGen, content : Contents \cup {Nil}]]
    BY <1>2 DEF ClusterTypes
  <2> HIDE DEF new
  <2>4. conf' \in [Presets -> [gen : 0..MaxGen, content : Contents \cup {Nil}]]
    BY <2>2, <2>3
  <2>5. /\ conf'[m] = new
        /\ \A n \in Presets : n # m => conf'[n] = conf[n]
    BY <2>3
  <2>6. \A n \in Presets : conf'[n].gen > 0 => conf'[n].content \in Contents
    BY <2>2, <2>5 DEF ClusterTypes
  <2>7. \A n \in Presets : conf[n].gen <= conf'[n].gen
    BY <2>1, <2>2, <2>5, Counts
  <2>8. HistoryTypes' /\ Reconfigures(p)
    BY <1>2, <2>7, Writing DEF Reconfigures
  <2>9. ClusterTypes'
    BY <2>4, <2>6 DEF ClusterTypes, Newest
  <2> QED
    BY <2>2, <2>5, <2>8, <2>9
<1> QED
  BY <1>1, <1>2 DEF Configure

\* A command that is over, without a word or with one.
LEMMA Silenced ==
  ASSUME HistoryTypes, NEW p \in People, Refused(p), UNCHANGED <<agent, conf>>
  PROVE  HistoryTypes' /\ Leaves(p) /\ ~settled'[p] /\ ended'[p] = ended[p]
BY DEF Refused, Finish, HistoryTypes, Leaves

LEMMA Left ==
  ASSUME AgentsTypes, NEW p \in People, at[p] # "idle"
  PROVE  What(p) \in EndRecord
<1>1. order[p] \in Orders /\ read[p] \in ReadRecord /\ settled[p] \in BOOLEAN
  BY Walker DEF AgentsTypes, HistoryTypes
<1>2. order[p].kind \in Switches \cup {"up", "tools", "untools"} /\ order[p].preset \in Presets \cup {Nil}
  BY <1>1, Ordered DEF OrderRecord, Switches
<1>3. /\ read[p].gen \in Nat /\ read[p].preset \in Presets \cup {Nil} /\ read[p].wiring \in Wirings \cup {Nil}
  BY <1>1 DEF ReadRecord
<1> QED
  BY <1>1, <1>2, <1>3 DEF What, EndRecord

LEMMA Told ==
  ASSUME AgentsTypes, NEW p \in People, at[p] # "idle", Succeeded(p, What(p)), UNCHANGED <<agent, conf>>
  PROVE  HistoryTypes' /\ Leaves(p) /\ ~settled'[p] /\ ended'[p] = What(p)
<1>1. What(p) \in EndRecord /\ HistoryTypes
  BY Left DEF AgentsTypes
<1> QED
  BY <1>1 DEF Succeeded, Finish, HistoryTypes, Leaves

\* What a command does by a step, to the cluster and to what others know.
Does(p) ==
  /\ ClusterTypes' /\ HistoryTypes' /\ UNCHANGED <<rolled, pods>>
  /\ Leaves(p) \/ Rewrites(p) \/ Reconfigures(p)

LEMMA KeptAll ==
  ASSUME AgentsTypes, NEW p \in People, UNCHANGED <<agent, conf, rolled, pods>>, keepHistory
  PROVE  Does(p)
BY DEF AgentsTypes, ClusterTypes, HistoryTypes, keepHistory, Does, Leaves, Newest

LEMMA Stopped ==
  ASSUME AgentsTypes, NEW p \in People, UNCHANGED <<agent, conf, rolled, pods>>,
         Refused(p) \/ (Succeeded(p, What(p)) /\ at[p] # "idle")
  PROVE  Does(p)
<1>1. ClusterTypes' /\ HistoryTypes
  BY DEF AgentsTypes, ClusterTypes, Newest
<1> QED
  BY <1>1, Silenced, Told DEF Does

\* A switch has the content it gives at hand.
LEMMA ApplyContent ==
  ASSUME AgentsTypes, NEW p \in People, Apply(p)
  PROVE  (IF order[p].content # Nil THEN order[p].content ELSE read[p].content) \in Contents
<1>1. Fits(order[p], "apply", read[p]) /\ order[p] \in Orders
  BY Walker DEF Apply, Step
<1>2. order[p].kind \in Switches
  BY <1>1 DEF Fits, Walks
<1>3. order[p].kind \in {"interactive", "direct"} => read[p].content \in Contents
  BY <1>1 DEF Fits, Carrying
<1>4. order[p].kind \in {"use", "govern"} => order[p].content \in Contents
  BY <1>1, Ordered
<1>5. order[p].content \in Contents \cup {Nil} /\ Nil \notin Contents
  BY <1>1, Ordered, Marked DEF OrderRecord
<1> QED
  BY <1>2, <1>3, <1>4, <1>5 DEF Switches

LEMMA CommandsDo ==
  ASSUME AgentsTypes, NEW p \in People, Moves(p)
  PROVE  Does(p)
<1>0. ClusterTypes /\ HistoryTypes
  BY DEF AgentsTypes
<1>1. CASE Own(p) \/ SecretExists(p) \/ ReadBound(p) \/ ReconcileExisting(p) \/ Accepted(p) \/ Switch(p)
  BY <1>1, KeptAll, Stopped
     DEF Own, SecretExists, ReadBound, ReconcileExisting, Accepted, Switch, keepCluster, objects, deployment
<1>2. CASE Issue(p) \/ Store(p) \/ Allow(p) \/ Server(p)
  BY <1>2, KeptAll, Stopped DEF Issue, Store, Allow, Server, objects, deployment
<1>3. CASE ReadPresetGen(p) \/ ReadRevision(p) \/ ReadPresetAfter(p) \/ ReadAgentAfter(p) \/ Rolled(p)
  BY <1>3, KeptAll
     DEF ReadPresetGen, ReadRevision, ReadPresetAfter, ReadAgentAfter, Rolled, keepCluster, objects, deployment
<1>4. CASE ReadGen(p) \/ Observed(p) \/ RolledOut(p) \/ ReadNewest(p) \/ ReadHash(p)
  BY <1>4, KeptAll, Stopped
     DEF ReadGen, Observed, RolledOut, ReadNewest, ReadHash, keepCluster, objects, deployment
<1>5. CASE Single(p) \/ Ready(p) \/ Confirm(p)
  BY <1>5, KeptAll, Stopped DEF Single, Ready, Confirm, Step, keepCluster, objects, deployment
<1>6. CASE ReadAgentGen(p)
  <2>1. CASE Refused(p) /\ keepCluster
    BY <2>1, Stopped DEF keepCluster, objects, deployment
  <2>2. CASE settled' = [settled EXCEPT ![p] = Quiet] /\ UNCHANGED ended /\ keepCluster
    <3>1. Quiet \in BOOLEAN
      BY DEF Quiet
    <3>2. HistoryTypes' /\ \A q \in People : q # p => settled'[q] = settled[q] /\ ended'[q] = ended[q]
      BY <1>0, <2>2, <3>1 DEF HistoryTypes
    <3> QED
      BY <1>0, <2>2, <3>2 DEF Does, Leaves, keepCluster, objects, deployment, ClusterTypes, Newest
  <2> QED
    BY <1>6, <2>1, <2>2 DEF ReadAgentGen
<1>7. CASE ReadLive(p)
  <2>1. HistoryTypes' /\ \A q \in People : q # p => settled'[q] = settled[q] /\ ended'[q] = ended[q]
    BY <1>0, <1>7 DEF HistoryTypes, ReadLive
  <2> QED
    BY <1>0, <1>7, <2>1 DEF ReadLive, Does, Leaves, keepCluster, objects, deployment, ClusterTypes, Newest
<1>8. ASSUME at[p] \in Restores PROVE /\ order[p].kind = "up" => read[p].preset \in Presets /\ read[p].wiring \in Wirings
                                    /\ order[p].kind \in Walks(at[p]) /\ order[p] \in Orders
  BY <1>8, Walker DEF Fits, Restores
<1>9. CASE Rewire(p)
  <2>1. at[p] = "rewire" /\ at[p] \in Restores
    BY <1>9 DEF Rewire, Step, Restores
  <2>2. (IF order[p].kind = "up" THEN read[p].wiring ELSE order[p].wiring) \in Wirings
    BY <1>8, <2>1, Ordered DEF Walks, Governed
  <2>3. agent.preset \in Presets
    BY <1>0 DEF ClusterTypes
  <2> QED
    BY <1>0, <1>9, <2>2, <2>3, Wired DEF Rewire, Does, deployment
<1>10. CASE Reset(p)
  <2>1. (IF agent.name = "hello-tools" THEN "direct" ELSE agent.wiring) \in Wirings
    BY <1>0 DEF ClusterTypes, Wirings
  <2> QED
    BY <1>0, <1>10, <2>1, Wired, Marked DEF Reset, Does, deployment
<1>11. CASE Patch(p)
  <2>1. at[p] = "patch" /\ at[p] \in Restores
    BY <1>11 DEF Patch, Step, Restores
  <2>2. (IF order[p].kind = "up" THEN read[p].preset ELSE order[p].preset) \in Presets
    BY <1>8, <2>1, Ordered DEF Walks, Switches
  <2>3. agent.wiring \in Wirings
    BY <1>0 DEF ClusterTypes
  <2> QED
    BY <1>0, <1>11, <2>2, <2>3, Wired DEF Patch, Does, deployment
<1>12. CASE Apply(p)
  <2>1. Fits(order[p], "apply", read[p]) /\ order[p] \in Orders
    BY <1>12, Walker DEF Apply, Step
  <2>2. order[p].kind \in Switches /\ order[p].preset \in Presets
    BY <2>1, Ordered DEF Fits, Walks
  <2>3. (IF order[p].content # Nil THEN order[p].content ELSE read[p].content) \in Contents
    BY <1>12, ApplyContent
  <2> QED
    BY <1>0, <1>12, <2>2, <2>3, Configured DEF Apply, Does, deployment
<1>13. CASE Acts(p)
  BY <1>13, <1>1, <1>2, <1>3, <1>4, <1>5, <1>6, <1>7, <1>9, <1>10, <1>11, <1>12 DEF Acts
<1>14. CASE Interrupted(p)
  BY <1>14, Stopped DEF Interrupted, keepCluster, objects, deployment
<1>15. ASSUME NEW d \in Orders, Give(p, d) PROVE Does(p)
  <2>1. HistoryTypes' /\ \A q \in People : q # p => settled'[q] = settled[q] /\ ended'[q] = ended[q]
    BY <1>0, <1>15 DEF HistoryTypes, Give
  <2> QED
    BY <1>0, <1>15, <2>1 DEF Give, Does, Leaves, objects, deployment, ClusterTypes, Newest
<1> QED
  BY <1>13, <1>14, <1>15 DEF Moves

\* The plane, its Secrets and its servers.
LEMMA CustodyStep ==
  ASSUME AgentsTypes, AgentsNext
  PROVE  CustodyTypes'
<1>0. CustodyTypes
  BY DEF AgentsTypes
<1>1. ASSUME UNCHANGED <<server, plane>> PROVE CustodyTypes'
  BY <1>0, <1>1 DEF CustodyTypes, plane, crossings
<1>2. CASE Controllers
  <2>1. ASSUME NEW w \in Governed, ServerAccepted(w) PROVE CustodyTypes'
    BY <1>0, <2>1 DEF ServerAccepted, CustodyTypes, plane, crossings
  <2> QED
    BY <1>1, <1>2, <2>1 DEF Controllers, Reconcile, PodStarts, PodDrains, objects
<1>3. ASSUME NEW c \in Creds, RowDeleted(c) PROVE CustodyTypes'
  BY <1>0, <1>3 DEF RowDeleted, Asked, CustodyTypes, objects
<1>4. ASSUME NEW p \in People, NEW d \in Orders, Give(p, d) PROVE CustodyTypes'
  BY <1>1, <1>4 DEF Give, objects
<1>5. ASSUME NEW p \in People, Interrupted(p) PROVE CustodyTypes'
  BY <1>1, <1>5 DEF Interrupted, keepCluster, objects
<1>6. ASSUME NEW p \in People, Acts(p) PROVE CustodyTypes'
  <2>1. CASE Issue(p)
    <3>1. CASE UNCHANGED row
      BY <1>0, <2>1, <3>1 DEF Issue, CustodyTypes, objects, crossings
    <3>2. ASSUME NEW t \in Tokens, row' = [row EXCEPT ![order[p].cred] = t] PROVE CustodyTypes'
      BY <1>0, <2>1, <3>2 DEF Issue, CustodyTypes, objects, crossings
    <3>3. ASSUME Tokens \ InUse # {} PROVE (CHOOSE t \in Tokens : t \notin InUse) \in Tokens
      BY <3>3
    <3> QED
      BY <2>1, <3>1, <3>2, <3>3 DEF Issue
  <2>2. CASE Store(p)
    <3>1. /\ order[p] \in Orders /\ order[p].kind \in Issues /\ read[p] \in ReadRecord /\ read[p].token # Nil
      BY <2>2, Walker DEF Store, Step, Fits, Walks
    <3>2. order[p].cred \in Creds /\ read[p].token \in Tokens
      BY <3>1, Ordered DEF ReadRecord
    <3>3. UNCHANGED <<server, row, allowed>>
      BY <2>2 DEF Store, objects
    <3>4. CASE UNCHANGED <<secret, crossings>>
      BY <1>0, <3>3, <3>4 DEF CustodyTypes, crossings
    <3>5. CASE ~UNCHANGED <<secret, crossings>>
      <4>1. /\ secret' = [secret EXCEPT ![order[p].secret] = [cred |-> order[p].cred, token |-> read[p].token]]
            /\ crossed' = crossed \cup {q \in Asked \ {p} : order[q].secret = order[p].secret}
            /\ lost' = IF p \in crossed /\ secret[order[p].secret] # Nil THEN lost \cup {secret[order[p].secret].cred} ELSE lost
        BY <2>2, <3>5 DEF Store
      <4>2. secret' \in [Secrets -> [cred : Creds, token : Tokens] \cup {Nil}]
        BY <1>0, <3>2, <4>1 DEF CustodyTypes
      <4>3. crossed' \subseteq People
        BY <1>0, <4>1 DEF CustodyTypes, Asked
      <4>4. order[p].secret \in Secrets
        BY <3>1, Ordered
      <4>5. lost' \subseteq Creds
        BY <1>0, <4>1, <4>4 DEF CustodyTypes
      <4> QED
        BY <1>0, <3>3, <4>2, <4>3, <4>5 DEF CustodyTypes
    <3> QED
      BY <3>4, <3>5
  <2>3. CASE Allow(p)
    <3>1. order[p] \in Orders /\ order[p].kind \in Issues
      BY <2>3, Walker DEF Allow, Step, Fits, Walks, Issues
    <3>2. order[p].cred \in Creds
      BY <3>1, Ordered
    <3> QED
      BY <1>0, <2>3, <3>2 DEF Allow, CustodyTypes, objects, crossings
  <2>4. CASE Server(p)
    BY <1>0, <2>4 DEF Server, CustodyTypes, plane, crossings
  <2>5. CASE Rewire(p) \/ Reset(p) \/ Patch(p) \/ Apply(p)
    BY <1>1, <2>5 DEF Rewire, Reset, Patch, Apply
  <2>6. CASE \/ Own(p) \/ SecretExists(p) \/ ReconcileExisting(p) \/ Accepted(p) \/ Switch(p)
             \/ ReadPresetGen(p) \/ ReadAgentGen(p) \/ ReadRevision(p) \/ ReadPresetAfter(p) \/ ReadAgentAfter(p)
             \/ Rolled(p) \/ ReadLive(p)
    BY <1>1, <2>6 DEF Own, SecretExists, ReconcileExisting, Accepted, Switch, ReadPresetGen, ReadAgentGen,
       ReadRevision, ReadPresetAfter, ReadAgentAfter, Rolled, ReadLive, keepCluster, objects
  <2>7. CASE \/ ReadGen(p) \/ Observed(p) \/ RolledOut(p) \/ ReadNewest(p) \/ ReadHash(p) \/ Single(p)
             \/ Ready(p) \/ Confirm(p)
    BY <1>1, <2>7 DEF ReadGen, Observed, RolledOut, ReadNewest, ReadHash, Single, Ready, Confirm, keepCluster, objects
  <2>8. CASE ReadBound(p)
    BY <1>0, <2>8 DEF ReadBound, CustodyTypes, objects
  <2> QED
    BY <1>6, <2>1, <2>2, <2>3, <2>4, <2>5, <2>6, <2>7, <2>8 DEF Acts
<1> QED
  BY <1>2, <1>3, <1>4, <1>5, <1>6 DEF AgentsNext

\* What kagent and Kubernetes do.
LEMMA ControllersStep ==
  ASSUME AgentsTypes, Controllers \/ \E c \in Creds : RowDeleted(c)
  PROVE  ClusterTypes' /\ UNCHANGED commands
<1>0. ClusterTypes
  BY DEF AgentsTypes
<1>1. CASE Reconcile
  <2>1. /\ agent.preset \in Presets /\ agent.wiring \in Wirings /\ agent.gen \in 0..MaxGen
        /\ conf[agent.preset].content \in Contents
    BY <1>0, <1>1 DEF Reconcile, ClusterTypes
  <2>2. Wanted \in Template
    BY <2>1 DEF Wanted, Template
  <2>3. agent' \in [name : {"hello-world", "hello-tools"}, gen : 0..MaxGen, preset : Presets,
                    wiring : Wirings, seen : 0..MaxGen]
    BY <1>0, <1>1, <2>1 DEF Reconcile, ClusterTypes
  <2>4. rolled' \in Seq(Template) /\ Newest' <= MaxRevision
    <3>1. CASE UNCHANGED rolled
      BY <1>0, <3>1 DEF ClusterTypes, Newest
    <3>2. CASE Newest < MaxRevision /\ rolled' = Append(rolled, Wanted)
      <4>1. rolled' \in Seq(Template) /\ Len(rolled') = Len(rolled) + 1
        BY <1>0, <2>2, <3>2 DEF ClusterTypes
      <4>2. Newest \in Nat /\ MaxRevision \in Nat
        BY <1>0, Counts, Marked
      <4> QED
        BY <3>2, <4>1, <4>2 DEF Newest
    <3> QED
      BY <1>1, <3>1, <3>2 DEF Reconcile
  <2> QED
    BY <1>0, <1>1, <2>3, <2>4 DEF Reconcile, ClusterTypes
<1>2. CASE PodStarts
  <2>1. Serving \subseteq Template
    BY <1>0 DEF ClusterTypes, Serving, Newest
  <2> QED
    BY <1>0, <1>2, <2>1 DEF PodStarts, ClusterTypes, objects, Newest
<1>3. ASSUME NEW t \in pods, PodDrains(t) PROVE ClusterTypes' /\ UNCHANGED commands
  BY <1>0, <1>3 DEF PodDrains, ClusterTypes, objects, Newest
<1>4. ASSUME NEW w \in Governed, ServerAccepted(w) PROVE ClusterTypes' /\ UNCHANGED commands
  BY <1>0, <1>4 DEF ServerAccepted, ClusterTypes, deployment, Newest
<1>5. ASSUME NEW c \in Creds, RowDeleted(c) PROVE ClusterTypes' /\ UNCHANGED commands
  BY <1>0, <1>5 DEF RowDeleted, ClusterTypes, objects, deployment, Newest
<1> QED
  BY <1>1, <1>2, <1>3, <1>4, <1>5 DEF Controllers

LEMMA AgentsTypesStep ==
  ASSUME AgentsTypes, [AgentsNext]_agentsVars
  PROVE  AgentsTypes'
<1>1. CASE UNCHANGED agentsVars
  BY <1>1 DEF AgentsTypes, ClusterTypes, CustodyTypes, CommandTypes, HistoryTypes, Walking, agentsVars, objects,
     deployment, plane, crossings, commands, Newest
<1>2. ASSUME AgentsNext, NEW p \in People, Moves(p) PROVE AgentsTypes'
  <2>1. WalksOn(p) /\ Does(p) /\ CustodyTypes'
    BY <1>2, CommandsOnward, CommandsDo, CustodyStep
  <2>2. ASSUME NEW q \in People PROVE Walking(q)'
    <3>1. CASE q = p
      BY <2>1, <3>1 DEF WalksOn
    <3>2. CASE q # p
      BY <2>1, <3>2 DEF WalksOn, Unmoved, Walking, AgentsTypes
    <3> QED
      BY <3>1, <3>2
  <2> QED
    BY <2>1, <2>2 DEF WalksOn, Does, AgentsTypes
<1>3. CASE AgentsNext /\ (Controllers \/ \E c \in Creds : RowDeleted(c))
  <2>1. ClusterTypes' /\ UNCHANGED commands /\ CustodyTypes'
    BY <1>3, ControllersStep, CustodyStep
  <2> QED
    BY <2>1 DEF AgentsTypes, CommandTypes, HistoryTypes, Walking, commands
<1> QED
  BY <1>1, <1>2, <1>3 DEF AgentsNext, Moves

LEMMA AgentsTypesInit == AgentsInit => AgentsTypes
<1> SUFFICES ASSUME AgentsInit PROVE AgentsTypes
  OBVIOUS
<1>1. PICK n \in {"hello-world", "hello-tools"}, g \in {0, 1} :
        agent = [name |-> n, gen |-> g, preset |-> Keyless, wiring |-> "direct", seen |-> g]
  BY DEF AgentsInit
<1>2. PICK c \in Contents : conf = [m \in Presets |-> IF m = Keyless THEN [gen |-> 1, content |-> c]
                                                      ELSE [gen |-> 0, content |-> Nil]]
  BY DEF AgentsInit
<1>3. /\ agent \in [name : {"hello-world", "hello-tools"}, gen : 0..MaxGen, preset : Presets,
                    wiring : Wirings, seen : 0..MaxGen]
      /\ agent.preset = Keyless /\ agent.wiring = "direct"
  <2>1. g \in 0..MaxGen /\ Keyless \in Presets /\ "direct" \in Wirings
    BY <1>1, Marked DEF Wirings
  <2> QED
    BY <1>1, <2>1
<1>4. /\ conf \in [Presets -> [gen : 0..MaxGen, content : Contents \cup {Nil}]]
      /\ \A m \in Presets : conf[m].gen > 0 => conf[m].content \in Contents
      /\ conf[Keyless].content = c
  <2>1. 0 \in 0..MaxGen /\ 1 \in 0..MaxGen /\ Keyless \in Presets
    BY Marked
  <2> QED
    BY <1>2, <2>1
<1>5. Wanted \in Template
  BY <1>3, <1>4, Marked DEF Wanted, Template, Wirings
<1>6. rolled \in Seq(Template) /\ Newest <= MaxRevision /\ pods \subseteq Template
  <2>1. 1 <= MaxRevision /\ 0 <= MaxRevision
    BY Marked
  <2>2. CASE rolled = <<Wanted>>
    BY <1>5, <2>1, <2>2 DEF AgentsInit, Newest, Serving
  <2>3. CASE rolled = <<>>
    BY <2>1, <2>3 DEF AgentsInit, Newest, Serving
  <2> QED
    BY <2>2, <2>3 DEF AgentsInit
<1>7. ClusterTypes
  BY <1>3, <1>4, <1>6 DEF ClusterTypes
<1>8. CustodyTypes
  BY DEF AgentsInit, CustodyTypes
<1>9. "idle" \in Stops /\ Blank \in ReadRecord /\ Blank.token = Nil
  BY Blanks DEF Stops, Blank
<1>10. CommandTypes /\ HistoryTypes /\ \A p \in People : Walking(p)
  BY <1>9 DEF AgentsInit, CommandTypes, HistoryTypes, Walking
<1> QED
  BY <1>7, <1>8, <1>10 DEF AgentsTypes

LEMMA AgentsTypesSafe == AgentsSpec => []AgentsTypes
BY AgentsTypesInit, AgentsTypesStep, PTL DEF AgentsSpec

\* The state of Agents has its types, and whoever has a command knows what its
\* place takes: the token to store, the template to wait for.
THEOREM AgentsTypeCorrect == AgentsSpec => []AgentsTypeOK
<1>1. AgentsTypes => AgentsTypeOK
  <2> SUFFICES ASSUME AgentsTypes PROVE AgentsTypeOK
    OBVIOUS
  <2>1. ASSUME NEW p \in People
        PROVE  /\ at[p] = "idle" <=> order[p] = Nil
               /\ at[p] = "store" <=> read[p].token # Nil
               /\ at[p] = "single" => read[p].hash \in Template
    BY DEF AgentsTypes, Walking, Fits
  <2> QED
    BY <2>1 DEF AgentsTypes, ClusterTypes, CustodyTypes, CommandTypes, HistoryTypes, AgentsTypeOK
<1> QED
  BY <1>1, AgentsTypesSafe, PTL

-----------------------------------------------------------------------------
(* What a step of somebody means to everybody. *)

\* A command that says so has come to its end.
SaysSo(q) ==
  /\ ended'[q] = What(q) /\ UNCHANGED <<agent, conf>>
  /\ \/ Single(q) /\ order[q].kind = "untools"
     \/ Ready(q) /\ order[q].kind \notin Switches
     \/ Confirm(q) /\ agent.preset = order[q].preset

\* What became of what a command had said.
Ending(q) ==
  \/ ended'[q] = ended[q] /\ UNCHANGED <<agent, conf>>
  \/ ended'[q] = Nil
  \/ ended[q] # Nil /\ ended'[q] = [ended[q] EXCEPT !.exact = FALSE] /\ UNCHANGED agent
  \/ SaysSo(q)

LEMMA OwnEnding ==
  ASSUME AgentsTypes, NEW p \in People, Moves(p), Leaves(p)
  PROVE  ended'[p] = ended[p] \/ ended'[p] = Nil \/ SaysSo(p)
<1>0. HistoryTypes
  BY DEF AgentsTypes
<1>1. CASE keepHistory \/ Refused(p)
  BY <1>1 DEF keepHistory, Refused
<1>2. CASE Own(p) \/ SecretExists(p) \/ ReadBound(p) \/ ReconcileExisting(p) \/ Accepted(p) \/ Switch(p)
           \/ Issue(p) \/ Store(p) \/ Allow(p) \/ Server(p)
  BY <1>1, <1>2 DEF Own, SecretExists, ReadBound, ReconcileExisting, Accepted, Switch, Issue, Store, Allow, Server
<1>3. CASE ReadPresetGen(p) \/ ReadAgentGen(p) \/ ReadRevision(p) \/ ReadPresetAfter(p) \/ ReadAgentAfter(p)
           \/ Rolled(p) \/ ReadLive(p)
  BY <1>1, <1>3 DEF ReadPresetGen, ReadAgentGen, ReadRevision, ReadPresetAfter, ReadAgentAfter, Rolled, ReadLive
<1>4. CASE ReadGen(p) \/ Observed(p) \/ RolledOut(p) \/ ReadNewest(p) \/ ReadHash(p)
  BY <1>1, <1>4 DEF ReadGen, Observed, RolledOut, ReadNewest, ReadHash
<1>5. ASSUME Succeeded(p, What(p)) PROVE ended'[p] = What(p)
  BY <1>0, <1>5 DEF Succeeded, HistoryTypes
<1>6. CASE Single(p)
  BY <1>1, <1>5, <1>6 DEF Single, SaysSo, Leaves
<1>7. CASE Ready(p)
  BY <1>1, <1>5, <1>7 DEF Ready, SaysSo, Leaves
<1>8. CASE Confirm(p)
  BY <1>1, <1>5, <1>8 DEF Confirm, SaysSo, Leaves
<1>9. CASE Rewire(p) \/ Reset(p) \/ Patch(p)
  <2>1. ASSUME Wrote(p, TRUE) PROVE ended'[p] = Nil
    BY <2>1 DEF Wrote
  <2>2. ASSUME NEW x, NEW w, Wire(p, x, w) PROVE keepHistory \/ Wrote(p, TRUE)
    BY <2>2 DEF Wire
  <2>3. keepHistory \/ Wrote(p, TRUE)
    BY <1>9, <2>2 DEF Rewire, Reset, Patch
  <2> QED
    BY <1>1, <2>1, <2>3
<1>12. CASE Apply(p)
  <2>1. order[p].preset \in Presets
    BY <1>12, Walker, Ordered DEF Apply, Step, Fits, Walks
  <2>2. conf[order[p].preset].gen \in Nat
    BY <2>1, Counts DEF AgentsTypes
  <2>3. ASSUME NEW c, conf' = [conf EXCEPT ![order[p].preset] = [gen |-> @.gen + 1, content |-> c]] PROVE FALSE
    <3>1. conf'[order[p].preset].gen = conf[order[p].preset].gen + 1
      BY <2>1, <2>3 DEF AgentsTypes, ClusterTypes
    <3> QED
      BY <2>2, <3>1 DEF Leaves
  <2> QED
    BY <1>1, <1>12, <2>3 DEF Apply, Configure
<1>10. CASE Interrupted(p)
  BY <1>1, <1>10 DEF Interrupted
<1>11. ASSUME NEW d \in Orders, Give(p, d) PROVE ended'[p] = Nil
  BY <1>0, <1>11 DEF Give, HistoryTypes
<1> QED
  BY <1>2, <1>3, <1>4, <1>6, <1>7, <1>8, <1>9, <1>10, <1>11, <1>12 DEF Moves, Acts

LEMMA Endings ==
  ASSUME AgentsTypes, NEW p \in People, Moves(p), NEW q \in People
  PROVE  Ending(q)
<1>1. Does(p)
  BY CommandsDo
<1>2. CASE Leaves(p) /\ q # p
  BY <1>2 DEF Leaves, Ending
<1>3. CASE Leaves(p) /\ q = p
  BY <1>3, OwnEnding DEF Leaves, Ending
<1>4. CASE Rewrites(p)
  BY <1>4 DEF Rewrites, Ending
<1>5. CASE Reconfigures(p)
  BY <1>5 DEF Reconfigures, Inexact, Ending
<1> QED
  BY <1>1, <1>2, <1>3, <1>4, <1>5 DEF Does

\* What another's step means to a command on its way.
Disturbed(q) ==
  \/ UNCHANGED <<agent, conf>> /\ settled'[q] = settled[q]
  \/ ~settled'[q] /\ agent'.gen = agent.gen + 1 /\ UNCHANGED conf
  \/ ~settled'[q] /\ UNCHANGED agent /\ \A m \in Presets : conf[m].gen <= conf'[m].gen

LEMMA Elsewhere ==
  ASSUME AgentsTypes, NEW p \in People, Moves(p), NEW q \in People, q # p
  PROVE  Unmoved(q) /\ Disturbed(q) /\ UNCHANGED <<rolled, pods>>
<1>1. Does(p) /\ WalksOn(p)
  BY CommandsDo, CommandsOnward
<1>2. Disturbed(q)
  BY <1>1 DEF Does, Leaves, Rewrites, Reconfigures, Disturbed
<1> QED
  BY <1>1, <1>2 DEF Does, WalksOn

\* What kagent does.
LEMMA Reconciled ==
  ASSUME AgentsTypes, Reconcile
  PROVE  /\ Here /\ agent'.gen = agent.gen /\ agent'.seen = agent.gen /\ agent'.preset = agent.preset
         /\ agent'.wiring = agent.wiring /\ Wanted' = Wanted /\ UNCHANGED <<conf, pods>>
         /\ Newest' > 0 /\ rolled'[Newest'] = Wanted /\ Serving' = {Wanted}
         /\ \A i \in DOMAIN rolled : i \in DOMAIN rolled' /\ rolled'[i] = rolled[i]
         /\ Newest <= Newest'
         /\ UNCHANGED rolled \/ Newest < Newest'
<1>1. ClusterTypes /\ rolled \in Seq(Template) /\ Newest \in Nat
  BY Counts DEF AgentsTypes, ClusterTypes
<1>2. /\ Here /\ agent'.gen = agent.gen /\ agent'.seen = agent.gen /\ agent'.preset = agent.preset
      /\ agent'.wiring = agent.wiring /\ UNCHANGED <<conf, pods>>
  BY <1>1 DEF Reconcile, ClusterTypes
<1>3. Wanted' = Wanted
  BY <1>2 DEF Wanted
<1>4. CASE Serving = {Wanted} /\ UNCHANGED rolled
  <2>1. Newest # 0 /\ rolled[Newest] = Wanted
    BY <1>4 DEF Serving
  <2> QED
    BY <1>1, <1>2, <1>3, <1>4, <2>1 DEF Newest, Serving
<1>5. CASE rolled' = Append(rolled, Wanted)
  <2>0. Wanted \in Template
    BY <1>1, Marked DEF Wanted, Template, ClusterTypes, Reconcile
  <2>1. Len(rolled') = Len(rolled) + 1 /\ rolled'[Len(rolled) + 1] = Wanted /\ rolled' \in Seq(Template)
    BY <1>1, <1>5, <2>0
  <2>2. \A i \in 1..Len(rolled) : rolled'[i] = rolled[i]
    BY <1>1, <1>5, <2>0
  <2>3. DOMAIN rolled = 1..Len(rolled) /\ DOMAIN rolled' = 1..Len(rolled')
    BY <1>1, <2>1
  <2>4. Newest' = Newest + 1 /\ rolled'[Newest'] = Wanted
    BY <2>1 DEF Newest
  <2>5. \A i \in DOMAIN rolled : i \in DOMAIN rolled' /\ rolled'[i] = rolled[i]
    BY <1>1, <2>1, <2>2, <2>3 DEF Newest
  <2>6. Serving' = {Wanted}
    BY <1>1, <2>4 DEF Serving
  <2> QED
    BY <1>1, <1>2, <1>3, <2>4, <2>5, <2>6
<1> QED
  BY <1>4, <1>5 DEF Reconcile

-----------------------------------------------------------------------------
(* kmx up puts back what it found. *)

Like(found) ==
  /\ agent.preset = found.preset
  /\ found.wiring = "kaimahi-tools" => agent.wiring = "kaimahi-tools"

\* On its way,
UpFacts(stop, r) ==
  /\ stop = "rewire" => r.wiring = "kaimahi-tools" /\ agent.preset = r.preset
  /\ stop = "ready" => Like(r)
UpWay(p) == at[p] # "idle" /\ order[p].kind = "up" /\ settled[p] => UpFacts(at[p], read[p])

\* and when it has said so.
UpEnd(p) == ended[p] # Nil => (ended[p].kind = "up" /\ ended[p].exact => Like(ended[p].found))

UpInv == \A p \in People : UpWay(p) /\ UpEnd(p)

LEMMA UpEnds ==
  ASSUME AgentsTypes, NEW q \in People, UpWay(q), UpEnd(q), Ending(q)
  PROVE  UpEnd(q)'
<1>1. CASE ended'[q] = ended[q] /\ UNCHANGED agent
  BY <1>1 DEF UpEnd, Like
<1>2. CASE ended'[q] = Nil
  BY <1>2 DEF UpEnd
<1>3. CASE ended[q] # Nil /\ ended'[q] = [ended[q] EXCEPT !.exact = FALSE]
  <2>1. ended[q] \in EndRecord
    BY <1>3 DEF AgentsTypes, HistoryTypes
  <2>2. ~ended'[q].exact
    BY <1>3, <2>1 DEF EndRecord
  <2> QED
    BY <2>2 DEF UpEnd
<1>4. CASE SaysSo(q)
  <2>1. CASE Ready(q) /\ order[q].kind \notin Switches
    <3>1. at[q] = "ready" /\ order[q].kind = "up" /\ settled[q] => Like(read[q])
      BY <2>1 DEF Ready, Step, UpWay, UpFacts
    <3>2. ended'[q] = What(q)
      BY <1>4 DEF SaysSo
    <3>3. /\ What(q).kind = order[q].kind /\ What(q).exact = settled[q]
          /\ What(q).found.preset = read[q].preset /\ What(q).found.wiring = read[q].wiring
      BY DEF What
    <3>4. at[q] = "ready"
      BY <2>1 DEF Ready, Step
    <3>5. UNCHANGED agent
      BY <1>4 DEF SaysSo
    <3> QED
      BY <3>1, <3>2, <3>3, <3>4, <3>5 DEF UpEnd, Like
  <2>2. CASE Single(q) /\ order[q].kind = "untools"
    <3>1. ended'[q].kind = "untools"
      BY <1>4, <2>2 DEF SaysSo, What
    <3> QED
      BY <3>1 DEF UpEnd
  <2>3. CASE Confirm(q)
    <3>1. order[q].kind \in Switches
      BY <2>3, Walker DEF Confirm, Step, Fits, Walks
    <3>2. ended'[q].kind = order[q].kind
      BY <1>4 DEF SaysSo, What
    <3> QED
      BY <3>1, <3>2 DEF UpEnd, Switches
  <2> QED
    BY <1>4, <2>1, <2>2, <2>3 DEF SaysSo
<1> QED
  BY <1>1, <1>2, <1>3, <1>4 DEF Ending

\* The steps of kmx up that write the agent.
LEMMA UpWayOwn ==
  ASSUME AgentsTypes, NEW p \in People, UpWay(p), Moves(p)
  PROVE  UpWay(p)'
<1>0. WalksOn(p) /\ Does(p) /\ ClusterTypes /\ HistoryTypes /\ CommandTypes
  BY CommandsOnward, CommandsDo DEF AgentsTypes
<1>1. CASE Reset(p)
  <2>1. at[p] = "reset" /\ at[p] \in Stops
    BY <1>1 DEF Reset, Step, Stops
  <2>2. agent'.preset = Keyless
    <3>1. (IF agent.name = "hello-tools" THEN "direct" ELSE agent.wiring) \in Wirings
      BY <1>0 DEF ClusterTypes, Wirings
    <3> QED
      BY <1>0, <1>1, <3>1, Wired, Marked DEF Reset, deployment
  <2>3. at'[p] = (IF order[p].kind = "up" THEN PutsBack(p) ELSE "gen") /\ UNCHANGED <<read, order>>
    BY <1>0, <1>1 DEF Reset, To, CommandTypes
  <2>4. /\ at'[p] = "rewire" /\ order[p].kind = "up" => read[p].wiring = "kaimahi-tools" /\ read[p].preset = Keyless
        /\ at'[p] = "ready" /\ order[p].kind = "up" => read[p].preset = Keyless /\ read[p].wiring # "kaimahi-tools"
    BY <2>3 DEF PutsBack
  <2> QED
    BY <2>2, <2>3, <2>4 DEF UpWay, UpFacts, Like
<1>2. CASE Patch(p)
  <2>1. at[p] = "patch"
    BY <1>2 DEF Patch, Step
  <2>2. /\ at'[p] = "rewire" => read[p].wiring = "kaimahi-tools"
        /\ at'[p] = "ready" => order[p].kind = "up" /\ read[p].wiring # "kaimahi-tools"
        /\ at'[p] = "ready" \/ at'[p] = "rewire" \/ at'[p] = "presetAfter"
        /\ UNCHANGED <<read, order>>
    BY <1>0, <1>2 DEF Patch, To, CommandTypes
  <2>3. order[p].kind = "up" => agent'.preset = read[p].preset
    <3> SUFFICES ASSUME order[p].kind = "up" PROVE agent'.preset = read[p].preset
      OBVIOUS
    <3>1. read[p].preset \in Presets /\ agent.wiring \in Wirings
      BY <1>0, <2>1, Walker DEF Fits, Restores, ClusterTypes
    <3> QED
      BY <1>0, <1>2, <3>1, Wired DEF Patch, deployment
  <2> QED
    BY <2>2, <2>3 DEF UpWay, UpFacts, Like
<1>3. CASE Rewire(p)
  <2>1. at[p] = "rewire" /\ UNCHANGED <<read, order>>
    BY <1>3 DEF Rewire, Step
  <2>2. at'[p] # "rewire"
    BY <1>0, <1>3 DEF Rewire, To, CommandTypes
  <2>3. CASE order[p].kind = "up"
    <3>1. read[p].wiring \in Wirings /\ agent.preset \in Presets
      BY <1>0, <2>1, <2>3, Walker DEF Fits, Restores, ClusterTypes
    <3>2. agent'.wiring = read[p].wiring /\ agent'.preset = agent.preset /\ settled'[p] = settled[p]
      BY <1>0, <1>3, <2>3, <3>1, Wired DEF Rewire, deployment, Rewrites
    <3> QED
      BY <2>1, <2>2, <2>3, <3>2 DEF UpWay, UpFacts, Like
  <2> QED
    BY <2>1, <2>3 DEF UpWay
<1>4. CASE Single(p)
  <2>1. order[p].kind # "up" /\ (UNCHANGED order \/ at'[p] = "idle")
    <3>1. order[p].kind \in Switches \cup {"tools", "untools"}
      BY <1>4, Walker DEF Single, Step, Fits, Walks
    <3> QED
      BY <1>0, <1>4, <3>1 DEF Single, Succeeded, Finish, To, CommandTypes, Switches
  <2> QED
    BY <2>1 DEF UpWay
<1>5. ASSUME at'[p] \notin {"rewire", "ready"} PROVE UpWay(p)'
  BY <1>5 DEF UpWay, UpFacts
<1>6. CASE Accepted(p)
  <2>1. order[p].kind = "tools" /\ UNCHANGED order
    BY <1>6, Walker DEF Accepted, Step, Fits, Walks
  <2> QED
    BY <2>1 DEF UpWay
<1>7. CASE Own(p) \/ SecretExists(p) \/ ReadBound(p) \/ ReconcileExisting(p) \/ Switch(p)
           \/ Issue(p) \/ Store(p) \/ Allow(p) \/ Server(p)
  <2>1. at'[p] \notin {"rewire", "ready"}
    BY <1>0, <1>7 DEF Own, SecretExists, ReadBound, ReconcileExisting, Switch, Issue, Store, Allow, Server,
       Refused, Finish, To, CommandTypes, AfterIssue
  <2> QED
    BY <1>5, <2>1
<1>8. CASE ReadPresetGen(p) \/ ReadAgentGen(p) \/ ReadRevision(p) \/ Apply(p) \/ ReadPresetAfter(p)
           \/ ReadAgentAfter(p) \/ Rolled(p) \/ ReadLive(p)
  <2>1. at'[p] \notin {"rewire", "ready"}
    BY <1>0, <1>8 DEF ReadPresetGen, ReadAgentGen, ReadRevision, Apply, ReadPresetAfter, ReadAgentAfter, Rolled,
       ReadLive, Refused, Finish, To, CommandTypes
  <2> QED
    BY <1>5, <2>1
<1>9. CASE ReadGen(p) \/ Observed(p) \/ RolledOut(p) \/ ReadNewest(p) \/ ReadHash(p) \/ Ready(p) \/ Confirm(p)
  <2>1. at'[p] \notin {"rewire", "ready"}
    BY <1>0, <1>9 DEF ReadGen, Observed, RolledOut, ReadNewest, ReadHash, Ready, Confirm,
       Refused, Succeeded, Finish, To, CommandTypes
  <2> QED
    BY <1>5, <2>1
<1>10. CASE Interrupted(p)
  <2>1. at'[p] \notin {"rewire", "ready"}
    BY <1>0, <1>10 DEF Interrupted, Refused, Finish, To, CommandTypes
  <2> QED
    BY <1>5, <2>1
<1>11. ASSUME NEW d \in Orders, Give(p, d) PROVE UpWay(p)'
  <2>1. at'[p] \notin {"rewire", "ready"}
    <3>1. d.kind \in Switches \cup {"up", "tools", "untools"}
      BY Ordered DEF OrderRecord, Switches
    <3>2. First(d.kind) \notin {"rewire", "ready"}
      BY <3>1 DEF First, Switches
    <3> QED
      BY <1>0, <1>11, <3>2 DEF Give, To, CommandTypes
  <2> QED
    BY <1>5, <2>1
<1> QED
  BY <1>1, <1>2, <1>3, <1>4, <1>6, <1>7, <1>8, <1>9, <1>10, <1>11 DEF Moves, Acts

LEMMA UpStep ==
  ASSUME AgentsTypes, UpInv, [AgentsNext]_agentsVars
  PROVE  UpInv'
<1> SUFFICES ASSUME NEW q \in People PROVE UpWay(q)' /\ UpEnd(q)'
  BY DEF UpInv
<1>0. UpWay(q) /\ UpEnd(q)
  BY DEF UpInv
<1>1. ASSUME NEW p \in People, Moves(p) PROVE UpWay(q)' /\ UpEnd(q)'
  <2>1. UpEnd(q)'
    BY <1>0, <1>1, Endings, UpEnds
  <2>2. CASE q = p
    BY <1>0, <1>1, <2>1, <2>2, UpWayOwn
  <2>3. CASE q # p
    <3>1. Unmoved(q) /\ Disturbed(q)
      BY <1>1, <2>3, Elsewhere
    <3>2. UpWay(q)'
      BY <1>0, <3>1 DEF Unmoved, Disturbed, UpWay, UpFacts, Like
    <3> QED
      BY <2>1, <3>2
  <2> QED
    BY <2>2, <2>3
<1>2. ASSUME agent'.preset = agent.preset, agent'.wiring = agent.wiring, UNCHANGED commands
      PROVE  UpWay(q)' /\ UpEnd(q)'
  BY <1>0, <1>2 DEF UpWay, UpFacts, UpEnd, Like, commands
<1>3. CASE Reconcile
  BY <1>2, <1>3, Reconciled DEF Reconcile
<1>4. CASE UNCHANGED agent /\ UNCHANGED commands
  BY <1>2, <1>4
<1> QED
  BY <1>1, <1>3, <1>4 DEF AgentsNext, Controllers, Moves, PodStarts, PodDrains, ServerAccepted, RowDeleted,
     objects, agentsVars

LEMMA Nobody == ASSUME AgentsInit, NEW p \in People PROVE at[p] = "idle" /\ order[p] = Nil /\ ended[p] = Nil /\ ~settled[p]
BY DEF AgentsInit

LEMMA UpSafe == AgentsSpec => []UpInv
<1>1. AgentsInit => UpInv
  BY Nobody DEF UpInv, UpWay, UpEnd
<1> QED
  BY <1>1, UpStep, AgentsTypesSafe, PTL DEF AgentsSpec

\* kmx up that nobody interfered with leaves the agent on the model it found,
\* and behind the committed gateway if it was.
THEOREM UpKeeps == AgentsSpec => []UpKeepsWiring
<1>1. UpInv => UpKeepsWiring
  BY DEF UpInv, UpEnd, Like, UpKeepsWiring
<1> QED
  BY <1>1, UpSafe, PTL

-----------------------------------------------------------------------------
(* The pods of an agent that is still what a wait saw. *)

\* What kagent has seen of the agent, the Deployment runs.
RollInv ==
  /\ agent.seen <= agent.gen
  /\ Here /\ agent.seen = agent.gen => Newest > 0 /\ rolled[Newest].preset = agent.preset

Awaiting == {"observed", "rollout", "newest", "hash", "single", "ready", "confirm"}
AllOn(preset) == pods # {} /\ \A t \in pods : t.preset = preset

\* On the way of a wait,
WaitFacts(stop, r) ==
  /\ 0 < r.gen /\ r.gen <= agent.gen
  /\ r.gen = agent.gen =>
       /\ stop # "observed" => agent.seen = agent.gen
       /\ stop \notin {"observed", "rollout"} => pods # {}
       /\ stop = "hash" => r.revision \in DOMAIN rolled /\ rolled[r.revision].preset = agent.preset
       /\ stop = "single" => r.hash.preset = agent.preset
       /\ stop \in {"ready", "confirm"} => AllOn(agent.preset)
WaitWay(p) == at[p] \in Awaiting /\ order[p].kind # "up" => WaitFacts(at[p], read[p])

\* and when a switch has said so.
WaitEnd(p) ==
  LET e == ended[p]
  IN e # Nil => (e.kind \in Switches /\ e.gen = agent.gen =>
                   0 < agent.gen /\ agent.seen = agent.gen /\ agent.preset = e.preset /\ AllOn(agent.preset))

WaitInv == RollInv /\ \A p \in People : WaitWay(p) /\ WaitEnd(p)

LEMMA Runs ==
  ASSUME RollInv, AgentsTypes, 0 < agent.gen, agent.seen = agent.gen
  PROVE  Serving # {} /\ \A t \in Serving : t.preset = agent.preset
<1>1. Newest > 0 /\ rolled[Newest].preset = agent.preset
  BY DEF RollInv, Here
<1>2. Serving = {rolled[Newest]}
  BY <1>1 DEF Serving
<1> QED
  BY <1>1, <1>2

LEMMA RollStep ==
  ASSUME AgentsTypes, RollInv, AgentsNext
  PROVE  RollInv'
<1>0. agent.gen \in Nat /\ agent.seen \in Nat /\ Newest \in Nat
  BY Counts DEF AgentsTypes
<1>1. ASSUME NEW p \in People, Moves(p) PROVE RollInv'
  <2>1. UNCHANGED <<rolled, pods>> /\ (Leaves(p) \/ Rewrites(p) \/ Reconfigures(p))
    BY <1>1, CommandsDo DEF Does
  <2>2. CASE UNCHANGED agent
    BY <2>1, <2>2 DEF RollInv, Here, Newest
  <2>3. CASE agent'.gen = agent.gen + 1 /\ agent'.seen = agent.seen
    BY <1>0, <2>3 DEF RollInv
  <2> QED
    BY <2>1, <2>2, <2>3 DEF Leaves, Rewrites, Reconfigures
<1>2. CASE Reconcile
  <2>1. agent'.seen = agent'.gen /\ Newest' > 0 /\ rolled'[Newest'] = Wanted /\ agent'.preset = agent.preset
    BY <1>2, Reconciled
  <2>2. agent'.gen = agent.gen
    BY <1>2, Reconciled
  <2>3. Wanted.preset = agent.preset
    BY DEF Wanted
  <2> QED
    BY <1>0, <2>1, <2>2, <2>3 DEF RollInv
<1>3. CASE UNCHANGED <<agent, rolled>>
  BY <1>3 DEF RollInv, Here, Newest
<1> QED
  BY <1>1, <1>2, <1>3 DEF AgentsNext, Controllers, Moves, PodStarts, PodDrains, ServerAccepted, RowDeleted,
     objects, deployment

\* kagent and Kubernetes leave a wait what it knows.
LEMMA WaitKept ==
  ASSUME AgentsTypes, RollInv, Controllers \/ (\E c \in Creds : RowDeleted(c)),
         NEW stop, NEW r, WaitFacts(stop, r)
  PROVE  WaitFacts(stop, r)'
<1>1. CASE Reconcile
  <2>1. /\ agent'.gen = agent.gen /\ agent'.preset = agent.preset /\ agent'.seen = agent'.gen /\ UNCHANGED pods
        /\ \A i \in DOMAIN rolled : i \in DOMAIN rolled' /\ rolled'[i] = rolled[i]
    BY <1>1, Reconciled
  <2> QED
    BY <2>1 DEF WaitFacts, AllOn
<1>2. CASE PodStarts
  <2>1. UNCHANGED <<agent, rolled>> /\ pods' = pods \cup Serving
    BY <1>2 DEF PodStarts, objects
  <2>2. 0 < agent.gen /\ agent.seen = agent.gen => \A t \in Serving : t.preset = agent.preset
    BY Runs
  <2>3. 0 < agent.gen /\ agent.seen = agent.gen /\ AllOn(agent.preset) => AllOn(agent.preset)'
    BY <2>1, <2>2 DEF AllOn
  <2>4. stop \in {"ready", "confirm"} => stop # "observed"
    OBVIOUS
  <2> QED
    BY <2>1, <2>3, <2>4 DEF WaitFacts
<1>3. ASSUME NEW t \in pods, PodDrains(t) PROVE WaitFacts(stop, r)'
  <2>1. UNCHANGED <<agent, rolled>> /\ pods' = pods \ {t} /\ Serving \subseteq pods /\ t \notin Serving
    BY <1>3 DEF PodDrains, objects
  <2>2. 0 < agent.gen /\ agent.seen = agent.gen => Serving # {}
    BY Runs
  <2>3. 0 < agent.gen /\ agent.seen = agent.gen => pods' # {}
    BY <2>1, <2>2
  <2>4. stop \notin {"observed", "rollout"} => stop # "observed"
    OBVIOUS
  <2>5. stop \in {"ready", "confirm"} => stop \notin {"observed", "rollout"}
    OBVIOUS
  <2> QED
    BY <2>1, <2>3, <2>4, <2>5 DEF WaitFacts, AllOn
<1>4. CASE UNCHANGED <<agent, rolled, pods>>
  BY <1>4 DEF WaitFacts, AllOn
<1> QED
  BY <1>1, <1>2, <1>3, <1>4 DEF Controllers, ServerAccepted, RowDeleted, objects, deployment

LEMMA EndKept ==
  ASSUME AgentsTypes, RollInv, Controllers \/ (\E c \in Creds : RowDeleted(c)), NEW q \in People, WaitEnd(q)
  PROVE  WaitEnd(q)'
<1>0. UNCHANGED ended
  BY ControllersStep DEF commands
<1>1. PICK r : r.gen = ended[q].gen
  <2>1. [gen |-> ended[q].gen].gen = ended[q].gen
    OBVIOUS
  <2> QED
    BY <2>1
<1>2. agent'.gen = agent.gen /\ agent'.preset = agent.preset /\ (agent'.seen = agent.seen \/ agent'.seen = agent.gen)
  <2>1. CASE Reconcile
    BY <2>1, Reconciled
  <2> QED
    BY <2>1 DEF Controllers, PodStarts, PodDrains, ServerAccepted, RowDeleted, objects
<1>3. SUFFICES ASSUME ended[q] # Nil, ended[q].kind \in Switches, ended[q].gen = agent.gen
               PROVE  /\ 0 < agent'.gen /\ agent'.seen = agent'.gen
                      /\ agent'.preset = ended[q].preset /\ AllOn(agent.preset)'
  BY <1>0, <1>2 DEF WaitEnd
<1>4. 0 < agent.gen /\ agent.seen = agent.gen /\ agent.preset = ended[q].preset /\ AllOn(agent.preset)
  BY <1>3 DEF WaitEnd
<1>5. WaitFacts("ready", r)
  <2>1. agent.gen \in Nat
    BY Counts DEF AgentsTypes
  <2> QED
    BY <1>1, <1>3, <1>4, <2>1 DEF WaitFacts, AllOn
<1>6. WaitFacts("ready", r)'
  BY <1>5, WaitKept
<1>7. AllOn(agent.preset)'
  BY <1>0, <1>1, <1>2, <1>3, <1>6 DEF WaitFacts
<1> QED
  BY <1>2, <1>4, <1>7

LEMMA WaitEnds ==
  ASSUME AgentsTypes, NEW q \in People, WaitWay(q), WaitEnd(q), Ending(q), UNCHANGED <<rolled, pods>>
  PROVE  WaitEnd(q)'
<1>1. CASE ended'[q] = ended[q] /\ UNCHANGED agent
  BY <1>1 DEF WaitEnd, AllOn
<1>2. CASE ended'[q] = Nil
  BY <1>2 DEF WaitEnd
<1>3. CASE ended[q] # Nil /\ ended'[q] = [ended[q] EXCEPT !.exact = FALSE] /\ UNCHANGED agent
  <2>1. ended[q] \in EndRecord
    BY <1>3 DEF AgentsTypes, HistoryTypes
  <2>2. ended'[q].kind = ended[q].kind /\ ended'[q].gen = ended[q].gen /\ ended'[q].preset = ended[q].preset
    BY <1>3, <2>1 DEF EndRecord
  <2> QED
    BY <1>3, <2>2 DEF WaitEnd, AllOn
<1>4. CASE SaysSo(q)
  <2>0. /\ ended'[q] = What(q) /\ UNCHANGED agent
        /\ What(q).kind = order[q].kind /\ What(q).gen = read[q].gen /\ What(q).preset = order[q].preset
    BY <1>4 DEF SaysSo, What
  <2>1. CASE order[q].kind \notin Switches
    BY <2>0, <2>1 DEF WaitEnd
  <2>2. CASE order[q].kind = "untools"
    BY <2>0, <2>2 DEF WaitEnd, Switches
  <2>3. CASE Confirm(q) /\ agent.preset = order[q].preset
    <3>1. at[q] = "confirm" /\ order[q].kind \in Switches
      BY <2>3, Walker DEF Confirm, Step, Fits, Walks
    <3>2. WaitFacts("confirm", read[q])
      BY <3>1 DEF WaitWay, Awaiting, Switches
    <3>3. read[q].gen = agent.gen => 0 < agent.gen /\ agent.seen = agent.gen /\ AllOn(agent.preset)
      BY <3>2 DEF WaitFacts
    <3> QED
      BY <2>0, <2>3, <3>3 DEF WaitEnd, AllOn
  <2> QED
    BY <1>4, <2>1, <2>2, <2>3 DEF SaysSo
<1> QED
  BY <1>1, <1>2, <1>3, <1>4 DEF Ending

\* The next stop of a wait.
LEMMA WaitOn ==
  ASSUME AgentsTypes, RollInv, NEW p \in People, WaitWay(p), Moves(p)
  PROVE  WaitWay(p)'
<1>0. /\ WalksOn(p) /\ Does(p) /\ ClusterTypes /\ HistoryTypes /\ CommandTypes
      /\ agent.gen \in Nat /\ agent.seen \in Nat /\ Newest \in Nat
  BY CommandsOnward, CommandsDo, Counts DEF AgentsTypes
<1>a. ASSUME at'[p] \notin Awaiting PROVE WaitWay(p)'
  BY <1>a DEF WaitWay
<1>b. ASSUME order[p].kind = "up", UNCHANGED order PROVE WaitWay(p)'
  BY <1>b DEF WaitWay
<1>1. CASE ReadGen(p)
  <2>1. read[p] \in ReadRecord
    BY <1>0 DEF CommandTypes
  <2>2. at'[p] = "observed" /\ read'[p].gen = agent.gen /\ UNCHANGED agent /\ agent.gen > 0
    BY <1>0, <1>1 DEF ReadGen, To, Learn, CommandTypes, keepCluster, objects, Here, Blank
  <2>3. WaitFacts("observed", read[p])'
    BY <1>0, <2>2 DEF WaitFacts
  <2> QED
    BY <2>2, <2>3 DEF WaitWay
<1> DEFINE Waits == Observed(p) \/ RolledOut(p) \/ ReadNewest(p) \/ ReadHash(p) \/ Single(p) \/ Ready(p)
<1>2. ASSUME Waits, order[p].kind # "up" PROVE WaitFacts(at[p], read[p]) /\ UNCHANGED <<agent, rolled, pods>>
  <2>1. at[p] \in Awaiting /\ UNCHANGED <<agent, rolled, pods>>
    BY <1>2 DEF Observed, RolledOut, ReadNewest, ReadHash, Single, Ready, Step, Awaiting, keepCluster, objects, deployment
  <2> QED
    BY <1>2, <2>1 DEF WaitWay
<1>3. CASE Observed(p)
  <2>1. at'[p] = "rollout" /\ UNCHANGED <<order, read>> /\ agent.seen = read[p].gen
    BY <1>0, <1>3 DEF Observed, To, CommandTypes
  <2>2. order[p].kind # "up" => WaitFacts("rollout", read[p])'
    BY <1>2, <1>3, <2>1 DEF WaitFacts
  <2> QED
    BY <2>1, <2>2 DEF WaitWay
<1>4. CASE RolledOut(p)
  <2>1. at[p] = "rollout" /\ at'[p] = "newest" /\ UNCHANGED <<order, read>> /\ pods # {}
    BY <1>0, <1>4 DEF RolledOut, Step, To, CommandTypes
  <2>2. order[p].kind # "up" => WaitFacts("newest", read[p])'
    BY <1>2, <1>4, <2>1 DEF WaitFacts
  <2> QED
    BY <2>1, <2>2 DEF WaitWay
<1>5. CASE ReadNewest(p)
  <2>1. /\ at[p] = "newest" /\ at'[p] = "hash" /\ UNCHANGED order
        /\ read'[p].gen = read[p].gen /\ read'[p].revision = Newest
    BY <1>0, <1>5 DEF ReadNewest, Step, To, Learn, CommandTypes, ReadRecord
  <2>2. order[p].kind # "up" => WaitFacts("hash", read[p])'
    <3> SUFFICES ASSUME order[p].kind # "up" PROVE WaitFacts("hash", read[p])'
      OBVIOUS
    <3>1. WaitFacts("newest", read[p]) /\ UNCHANGED <<agent, rolled, pods>>
      BY <1>2, <1>5, <2>1
    <3>2. read[p].gen = agent.gen => Newest > 0 /\ rolled[Newest].preset = agent.preset
      BY <3>1 DEF WaitFacts, RollInv, Here
    <3>3. Newest > 0 => Newest \in DOMAIN rolled
      BY <1>0 DEF Newest, ClusterTypes
    <3> QED
      BY <2>1, <3>1, <3>2, <3>3 DEF WaitFacts
  <2> QED
    BY <2>1, <2>2 DEF WaitWay
<1>6. CASE ReadHash(p)
  <2>1. CASE Refused(p)
    BY <1>0, <1>a, <2>1 DEF Refused, Finish, To, CommandTypes, Awaiting
  <2>2. CASE To(p, "single") /\ Learn(p, [read[p] EXCEPT !.hash = rolled[read[p].revision], !.revision = 0])
             /\ UNCHANGED order
    <3>1. /\ at[p] = "hash" /\ at'[p] = "single"
          /\ read'[p].gen = read[p].gen /\ read'[p].hash = rolled[read[p].revision]
      BY <1>0, <1>6, <2>2 DEF ReadHash, Step, To, Learn, CommandTypes, ReadRecord
    <3>2. order[p].kind # "up" => WaitFacts("single", read[p])'
      BY <1>2, <1>6, <3>1 DEF WaitFacts
    <3> QED
      BY <2>2, <3>1, <3>2 DEF WaitWay
  <2> QED
    BY <1>6, <2>1, <2>2 DEF ReadHash
<1>7. CASE Single(p)
  <2>1. CASE Succeeded(p, What(p))
    BY <1>0, <1>a, <2>1 DEF Succeeded, Finish, To, CommandTypes, Awaiting
  <2>2. CASE To(p, "ready") /\ UNCHANGED <<order, read>>
    <3>1. at[p] = "single" /\ at'[p] = "ready" /\ pods = {read[p].hash}
      BY <1>0, <1>7, <2>2 DEF Single, Step, To, CommandTypes
    <3>2. order[p].kind # "up" => WaitFacts("ready", read[p])'
      BY <1>2, <1>7, <2>2, <3>1 DEF WaitFacts, AllOn
    <3> QED
      BY <2>2, <3>1, <3>2 DEF WaitWay
  <2> QED
    BY <1>7, <2>1, <2>2 DEF Single
<1>8. CASE Ready(p)
  <2>1. CASE Succeeded(p, What(p))
    BY <1>0, <1>a, <2>1 DEF Succeeded, Finish, To, CommandTypes, Awaiting
  <2>2. CASE To(p, "confirm") /\ UNCHANGED <<order, read>>
    <3>1. at[p] = "ready" /\ at'[p] = "confirm"
      BY <1>0, <1>8, <2>2 DEF Ready, Step, To, CommandTypes
    <3>2. order[p].kind # "up" => WaitFacts("confirm", read[p])'
      BY <1>2, <1>8, <2>2, <3>1 DEF WaitFacts, AllOn
    <3> QED
      BY <2>2, <3>1, <3>2 DEF WaitWay
  <2> QED
    BY <1>8, <2>1, <2>2 DEF Ready
<1>9. CASE Confirm(p)
  BY <1>0, <1>a, <1>9 DEF Confirm, Refused, Succeeded, Finish, To, CommandTypes, Awaiting
<1>10. CASE Rewire(p) \/ Reset(p) \/ Patch(p)
  <2>1. at'[p] \notin Awaiting \/ order[p].kind = "up"
    BY <1>0, <1>10 DEF Rewire, Reset, Patch, To, CommandTypes, Awaiting
  <2> QED
    BY <1>a, <1>b, <1>10, <2>1 DEF Rewire, Reset, Patch
<1>11. CASE Own(p) \/ SecretExists(p) \/ ReadBound(p) \/ ReconcileExisting(p) \/ Accepted(p) \/ Switch(p)
            \/ Issue(p) \/ Store(p) \/ Allow(p) \/ Server(p)
  <2>1. at'[p] \notin Awaiting
    BY <1>0, <1>11 DEF Own, SecretExists, ReadBound, ReconcileExisting, Accepted, Switch, Issue, Store, Allow, Server,
       Refused, Finish, To, CommandTypes, AfterIssue, Awaiting
  <2> QED
    BY <1>a, <2>1
<1>12. CASE ReadPresetGen(p) \/ ReadAgentGen(p) \/ ReadRevision(p) \/ Apply(p) \/ ReadPresetAfter(p)
            \/ ReadAgentAfter(p) \/ Rolled(p) \/ ReadLive(p)
  <2>1. at'[p] \notin Awaiting
    BY <1>0, <1>12 DEF ReadPresetGen, ReadAgentGen, ReadRevision, Apply, ReadPresetAfter, ReadAgentAfter, Rolled,
       ReadLive, Refused, Finish, To, CommandTypes, Awaiting
  <2> QED
    BY <1>a, <2>1
<1>13. CASE Interrupted(p)
  BY <1>0, <1>a, <1>13 DEF Interrupted, Refused, Finish, To, CommandTypes, Awaiting
<1>14. ASSUME NEW d \in Orders, Give(p, d) PROVE WaitWay(p)'
  <2>1. d.kind \in Switches \cup {"up", "tools", "untools"}
    BY Ordered DEF OrderRecord, Switches
  <2>2. First(d.kind) \notin Awaiting
    BY <2>1 DEF First, Switches, Awaiting
  <2> QED
    BY <1>0, <1>a, <1>14, <2>2 DEF Give, To, CommandTypes
<1> QED
  BY <1>1, <1>3, <1>4, <1>5, <1>6, <1>7, <1>8, <1>9, <1>10, <1>11, <1>12, <1>13, <1>14 DEF Moves, Acts

LEMMA WaitStep ==
  ASSUME AgentsTypes, WaitInv, [AgentsNext]_agentsVars
  PROVE  WaitInv'
<1>1. CASE UNCHANGED agentsVars
  BY <1>1 DEF WaitInv, RollInv, WaitWay, WaitEnd, WaitFacts, AllOn, Here, Newest, agentsVars, objects, deployment, commands
<1>2. CASE AgentsNext
  <2>1. RollInv'
    BY <1>2, RollStep DEF WaitInv
  <2> SUFFICES ASSUME NEW q \in People PROVE WaitWay(q)' /\ WaitEnd(q)'
    BY <2>1 DEF WaitInv
  <2>0. RollInv /\ WaitWay(q) /\ WaitEnd(q)
    BY DEF WaitInv
  <2>2. ASSUME NEW p \in People, Moves(p) PROVE WaitWay(q)' /\ WaitEnd(q)'
    <3>1. UNCHANGED <<rolled, pods>>
      BY <2>2, CommandsDo DEF Does
    <3>2. WaitEnd(q)'
      BY <2>0, <2>2, <3>1, Endings, WaitEnds
    <3>3. CASE q = p
      BY <2>0, <2>2, <3>2, <3>3, WaitOn
    <3>4. CASE q # p
      <4>1. Unmoved(q) /\ Disturbed(q)
        BY <2>2, <3>4, Elsewhere
      <4>2. agent.gen \in Nat
        BY Counts DEF AgentsTypes
      <4>3. UNCHANGED agent \/ agent'.gen = agent.gen + 1
        BY <4>1 DEF Disturbed
      <4>4. at[q] \in Awaiting /\ order[q].kind # "up" => read[q].gen \in Nat
        BY DEF AgentsTypes, CommandTypes, ReadRecord
      <4>5. WaitWay(q)'
        BY <2>0, <3>1, <4>1, <4>2, <4>3, <4>4 DEF Unmoved, WaitWay, WaitFacts, AllOn
      <4> QED
        BY <3>2, <4>5
    <3> QED
      BY <3>3, <3>4
  <2>3. CASE Controllers \/ \E c \in Creds : RowDeleted(c)
    <3>1. WaitEnd(q)'
      BY <2>0, <2>3, EndKept
    <3>2. UNCHANGED commands
      BY <2>3, ControllersStep
    <3>3. PICK s, r : s = at[q] /\ r = read[q]
      OBVIOUS
    <3>4. at[q] \in Awaiting /\ order[q].kind # "up" => WaitFacts(s, r)
      BY <2>0, <3>3 DEF WaitWay
    <3>5. WaitFacts(s, r) => WaitFacts(s, r)'
      BY <2>0, <2>3, WaitKept
    <3>6. at'[q] = s /\ read'[q] = r /\ UNCHANGED order
      BY <3>2, <3>3 DEF commands
    <3> QED
      BY <3>1, <3>3, <3>4, <3>5, <3>6 DEF WaitWay
  <2> QED
    BY <1>2, <2>2, <2>3 DEF AgentsNext, Moves
<1> QED
  BY <1>1, <1>2

LEMMA WaitSafe == AgentsSpec => []WaitInv
<1>1. AgentsInit => WaitInv
  <2> SUFFICES ASSUME AgentsInit PROVE WaitInv
    OBVIOUS
  <2>0. AgentsTypes /\ agent.gen \in Nat
    BY AgentsTypesInit, Counts DEF AgentsTypes
  <2>1. agent.seen = agent.gen
    BY DEF AgentsInit
  <2>2. ASSUME Here PROVE Newest > 0 /\ rolled[Newest].preset = agent.preset
    <3>1. rolled = <<Wanted>>
      BY <2>2 DEF AgentsInit
    <3>2. Newest = 1 /\ rolled[1] = Wanted
      BY <3>1 DEF Newest
    <3> QED
      BY <3>2 DEF Wanted
  <2>3. ASSUME NEW p \in People PROVE WaitWay(p) /\ WaitEnd(p)
    BY Nobody DEF WaitWay, WaitEnd, Awaiting
  <2> QED
    BY <2>0, <2>1, <2>2, <2>3 DEF WaitInv, RollInv
<1> QED
  BY <1>1, WaitStep, AgentsTypesSafe, PTL DEF AgentsSpec

\* When a switch reports success and the agent is still what it waited for,
\* every pod that can answer runs the preset asked for.
THEOREM SwitchServes == AgentsSpec => []SwitchedServes
<1>1. WaitInv => SwitchedServes
  <2> SUFFICES ASSUME WaitInv, NEW p \in People, ended[p] # Nil, ended[p].kind \in Switches, ended[p].gen = agent.gen
               PROVE  pods # {} /\ \A t \in pods : t.preset = ended[p].preset
    BY DEF SwitchedServes
  <2>1. agent.preset = ended[p].preset /\ AllOn(agent.preset)
    BY DEF WaitInv, WaitEnd
  <2> QED
    BY <2>1 DEF AllOn
<1> QED
  BY <1>1, WaitSafe, PTL

-----------------------------------------------------------------------------
(* A switch that is alone leaves the pods on what the agent now says. *)

UpToDate == Serving = {Wanted}

\* The stops of a command before it has looked at the agent.
Early == {"own", "exists", "bound", "issue", "reconcile", "store", "switch", "presetGen", "agentGen"}

\* What a switch that found the deployment at rest can be sure of: what it
\* compares with was so then, and what it waits for has the content it gave.
OwnFacts(stop, d, r) ==
  /\ stop \notin Early
  /\ stop \in {"revision", "apply"} => Quiet
  /\ stop \in {"revision", "apply", "patch"} => agent.gen = r.agentGen
  /\ stop \in {"revision", "apply"} => 0 < r.agentGen
  /\ stop = "apply" => Newest = r.revision
  /\ stop \in {"patch", "presetAfter"} /\ agent.gen = r.agentGen
       /\ (Newest > r.revision \/ conf[d.preset].gen = r.presetGen) => UpToDate
  /\ stop = "agentAfter" /\ agent.gen = r.agentGen /\ (Newest > r.revision \/ ~r.rolls) => UpToDate
  /\ stop \in {"presetAfter", "agentAfter"} /\ agent.gen # r.agentGen /\ agent.seen = agent.gen => UpToDate
  /\ stop = "rolled" /\ Newest > r.revision => UpToDate
  /\ stop \in {"gen", "observed"} /\ agent.seen = agent.gen => UpToDate
  /\ stop \in Awaiting => r.gen = agent.gen
  /\ stop \in {"rollout", "newest", "hash", "single"} => agent.seen = agent.gen /\ UpToDate
  /\ stop = "hash" => r.revision = Newest
  /\ stop = "single" => r.hash = Wanted
  /\ stop \in {"ready", "confirm"} => Quiet

\* The generation of the preset is read before anything is applied.
Comparing == {"agentGen", "revision", "apply", "patch", "presetAfter"}
Fresh == {"idle", "own", "exists", "bound", "issue", "reconcile", "store", "switch"}
FreshWay(p) == at[p] \in Fresh => read[p].presetGen = 0
GenWay(p) == at[p] \in Comparing /\ order[p].kind \in Switches => read[p].presetGen <= conf[order[p].preset].gen

OwnWay(p) ==
  /\ at[p] = "idle" => ~settled[p]
  /\ at[p] # "idle" /\ order[p].kind \in Switches /\ settled[p] => OwnFacts(at[p], order[p], read[p])

OwnEnd(p) == ended[p] # Nil => (ended[p].kind \in Switches /\ ended[p].exact => Quiet)

OwnInv == \A p \in People : FreshWay(p) /\ GenWay(p) /\ OwnWay(p) /\ OwnEnd(p)

\* At rest, nobody of the cluster moves.
LEMMA QuietKept ==
  ASSUME AgentsTypes, Quiet, Controllers \/ \E c \in Creds : RowDeleted(c)
  PROVE  Quiet' /\ UNCHANGED <<agent, conf, rolled, pods>>
<1>1. ASSUME UNCHANGED <<agent, conf, rolled, pods>> PROVE Quiet'
  BY <1>1 DEF Quiet, Serving, Newest, Wanted
<1>2. ~Reconcile /\ ~PodStarts /\ \A t \in pods : ~PodDrains(t)
  BY DEF Quiet, Reconcile, PodStarts, PodDrains
<1> QED
  BY <1>1, <1>2 DEF Controllers, ServerAccepted, RowDeleted, objects, deployment

LEMMA OwnKept ==
  ASSUME AgentsTypes, Controllers \/ (\E c \in Creds : RowDeleted(c)),
         NEW stop, NEW d, NEW r, OwnFacts(stop, d, r)
  PROVE  OwnFacts(stop, d, r)'
<1>1. CASE Quiet
  <2>1. UNCHANGED <<agent, conf, rolled, pods>>
    BY <1>1, QuietKept
  <2> QED
    BY <2>1 DEF OwnFacts, Quiet, UpToDate, Serving, Newest, Wanted
<1>2. CASE Reconcile /\ ~Quiet
  <2>1. /\ agent'.gen = agent.gen /\ agent'.seen = agent'.gen /\ agent.preset = agent'.preset /\ Wanted' = Wanted
        /\ UNCHANGED conf
    BY <1>2, Reconciled
  <2>2. UpToDate'
    BY <1>2, <2>1, Reconciled DEF UpToDate
  <2>3. ~(agent.seen = agent.gen /\ UpToDate)
    BY <1>2 DEF Reconcile, UpToDate
  <2>4. stop \notin {"revision", "apply", "rollout", "newest", "hash", "single", "ready", "confirm"}
    BY <1>2, <2>3 DEF OwnFacts
  <2> QED
    BY <2>1, <2>2, <2>4 DEF OwnFacts
<1>3. CASE UNCHANGED <<agent, conf, rolled>> /\ ~Quiet
  BY <1>3 DEF OwnFacts, Quiet, UpToDate, Serving, Newest, Wanted
<1> QED
  BY <1>1, <1>2, <1>3 DEF Controllers, PodStarts, PodDrains, ServerAccepted, RowDeleted, objects, deployment

LEMMA OwnEnds ==
  ASSUME AgentsTypes, NEW q \in People, OwnWay(q), OwnEnd(q), Ending(q), UNCHANGED <<rolled, pods>>
  PROVE  OwnEnd(q)'
<1>0. ASSUME UNCHANGED <<agent, conf>>, Quiet PROVE Quiet'
  BY <1>0 DEF Quiet, Serving, Newest, Wanted
<1>1. CASE ended'[q] = ended[q] /\ UNCHANGED <<agent, conf>>
  BY <1>0, <1>1 DEF OwnEnd
<1>2. CASE ended'[q] = Nil
  BY <1>2 DEF OwnEnd
<1>3. CASE ended[q] # Nil /\ ended'[q] = [ended[q] EXCEPT !.exact = FALSE]
  <2>1. ended[q] \in EndRecord
    BY <1>3 DEF AgentsTypes, HistoryTypes
  <2>2. ~ended'[q].exact
    BY <1>3, <2>1 DEF EndRecord
  <2> QED
    BY <2>2 DEF OwnEnd
<1>4. CASE SaysSo(q)
  <2>0. /\ ended'[q] = What(q) /\ UNCHANGED <<agent, conf>>
        /\ What(q).kind = order[q].kind /\ What(q).exact = settled[q]
    BY <1>4 DEF SaysSo, What
  <2>1. CASE order[q].kind \notin Switches
    BY <2>0, <2>1 DEF OwnEnd
  <2>2. CASE order[q].kind = "untools"
    BY <2>0, <2>2 DEF OwnEnd, Switches
  <2>3. CASE Confirm(q)
    <3>1. at[q] = "confirm" /\ order[q].kind \in Switches
      BY <2>3, Walker DEF Confirm, Step, Fits, Walks
    <3>2. settled[q] => Quiet
      BY <3>1 DEF OwnWay, OwnFacts
    <3> QED
      BY <1>0, <2>0, <3>2 DEF OwnEnd
  <2> QED
    BY <1>4, <2>1, <2>2, <2>3 DEF SaysSo
<1> QED
  BY <1>1, <1>2, <1>3, <1>4 DEF Ending

LEMMA FreshOn ==
  ASSUME AgentsTypes, NEW p \in People, FreshWay(p), Moves(p)
  PROVE  FreshWay(p)'
<1>0. CommandTypes
  BY DEF AgentsTypes
<1>a. ASSUME at'[p] \notin Fresh PROVE FreshWay(p)'
  BY <1>a DEF FreshWay
<1>b. ASSUME Learn(p, Blank) PROVE FreshWay(p)'
  BY <1>0, <1>b DEF Learn, Blank, CommandTypes, FreshWay
<1>c. ASSUME Refused(p) \/ Succeeded(p, What(p)) PROVE FreshWay(p)'
  BY <1>b, <1>c DEF Refused, Succeeded, Finish
<1>d. ASSUME at[p] \in Fresh, read'[p].presetGen = read[p].presetGen PROVE FreshWay(p)'
  BY <1>d DEF FreshWay
<1>1. CASE ReadBound(p) \/ ReconcileExisting(p) \/ Switch(p)
  <2>1. at[p] \in Fresh
    BY <1>1 DEF ReadBound, ReconcileExisting, Switch, Step, Fresh
  <2> QED
    BY <1>1, <1>c, <1>d, <2>1 DEF ReadBound, ReconcileExisting, Switch
<1>2. CASE SecretExists(p)
  BY <1>0, <1>2, <1>d DEF SecretExists, Step, Fresh, Learn, CommandTypes, ReadRecord
<1>3. CASE Issue(p)
  <2>1. at[p] \in Fresh /\ read[p] \in ReadRecord
    BY <1>0, <1>3 DEF Issue, Step, Fresh, CommandTypes
  <2>2. CASE UNCHANGED read
    BY <1>d, <2>1, <2>2
  <2>3. ASSUME NEW t, Learn(p, [read[p] EXCEPT !.token = t]) PROVE FreshWay(p)'
    BY <1>0, <1>d, <2>1, <2>3 DEF Learn, CommandTypes, ReadRecord
  <2> QED
    BY <1>3, <2>2, <2>3 DEF Issue
<1>4. CASE Store(p)
  <2>1. at[p] \in Fresh /\ read[p] \in ReadRecord
    BY <1>0, <1>4 DEF Store, Step, Fresh, CommandTypes
  <2>2. ASSUME Learn(p, [read[p] EXCEPT !.token = Nil]) PROVE FreshWay(p)'
    BY <1>0, <1>d, <2>1, <2>2 DEF Learn, CommandTypes, ReadRecord
  <2> QED
    BY <1>4, <1>c, <2>2 DEF Store
<1>5. CASE Own(p)
  <2>1. ASSUME NEW c, Learn(p, [Blank EXCEPT !.content = c]) PROVE FreshWay(p)'
    BY <1>0, <2>1 DEF Learn, CommandTypes, Blank, FreshWay
  <2> QED
    BY <1>5, <1>c, <2>1 DEF Own
<1>6. CASE Server(p) \/ Allow(p) \/ Accepted(p) \/ Rewire(p) \/ Reset(p) \/ Patch(p)
  <2>1. at'[p] \notin Fresh \/ Refused(p)
    BY <1>0, <1>6 DEF Server, Allow, Accepted, Rewire, Reset, Patch, PutsBack, To, CommandTypes, Fresh
  <2> QED
    BY <1>a, <1>c, <2>1
<1>7. CASE Apply(p)
  <2>1. at'[p] = "patch" \/ Learn(p, Blank)
    BY <1>0, <1>7 DEF Apply, To, CommandTypes
  <2> QED
    BY <1>a, <1>b, <2>1 DEF Fresh
<1>8. CASE ReadPresetGen(p) \/ ReadAgentGen(p) \/ ReadRevision(p) \/ ReadPresetAfter(p) \/ ReadAgentAfter(p)
           \/ Rolled(p) \/ ReadLive(p)
  <2>1. at'[p] \notin Fresh \/ Refused(p)
    BY <1>0, <1>8 DEF ReadPresetGen, ReadAgentGen, ReadRevision, ReadPresetAfter, ReadAgentAfter, Rolled, ReadLive,
       To, CommandTypes, Fresh
  <2> QED
    BY <1>a, <1>c, <2>1
<1>9. CASE ReadGen(p) \/ Observed(p) \/ RolledOut(p) \/ ReadNewest(p) \/ ReadHash(p) \/ Single(p) \/ Ready(p)
           \/ Confirm(p)
  <2>1. at'[p] \notin Fresh \/ Refused(p) \/ Succeeded(p, What(p))
    BY <1>0, <1>9 DEF ReadGen, Observed, RolledOut, ReadNewest, ReadHash, Single, Ready, Confirm, To, CommandTypes, Fresh
  <2> QED
    BY <1>a, <1>c, <2>1
<1>10. CASE Interrupted(p)
  BY <1>c, <1>10 DEF Interrupted
<1>11. ASSUME NEW d \in Orders, Give(p, d) PROVE FreshWay(p)'
  <2>1. at[p] \in Fresh /\ UNCHANGED read
    BY <1>11 DEF Give, Step, Fresh
  <2> QED
    BY <1>d, <2>1
<1> QED
  BY <1>1, <1>2, <1>3, <1>4, <1>5, <1>6, <1>7, <1>8, <1>9, <1>10, <1>11 DEF Moves, Acts

\* The next stop of a switch.
LEMMA GenOn ==
  ASSUME AgentsTypes, NEW p \in People, FreshWay(p), GenWay(p), Moves(p)
  PROVE  GenWay(p)'
<1>0. WalksOn(p) /\ Does(p) /\ CommandTypes
  BY CommandsOnward, CommandsDo DEF AgentsTypes
<1>a. ASSUME at'[p] \notin Comparing PROVE GenWay(p)'
  BY <1>a DEF GenWay
<1>b. ASSUME UNCHANGED order, at[p] \in Comparing, read'[p].presetGen = read[p].presetGen PROVE GenWay(p)'
  <2>1. order[p].kind \in Switches => order[p].preset \in Presets /\ read[p].presetGen \in Nat
    BY <1>b, Walker, Ordered DEF Comparing, ReadRecord
  <2>2. ASSUME NEW m \in Presets PROVE conf[m].gen \in Nat /\ conf'[m].gen \in Nat /\ conf[m].gen <= conf'[m].gen
    <3>1. conf[m].gen \in Nat
      BY Counts DEF AgentsTypes
    <3>2. ClusterTypes'
      BY <1>0 DEF Does
    <3>3. conf'[m].gen \in 0..MaxGen
      BY <3>2 DEF ClusterTypes
    <3>4. conf[m].gen <= conf'[m].gen
      BY <1>0, <3>1 DEF Does, Leaves, Rewrites, Reconfigures
    <3> QED
      BY <3>1, <3>3, <3>4, Marked
  <2> QED
    BY <1>b, <2>1, <2>2 DEF GenWay
<1>1. CASE ReadPresetGen(p)
  <2>1. at[p] = "presetGen" /\ order[p].kind \in Switches /\ order[p].preset \in Presets /\ read[p] \in ReadRecord
    BY <1>1, Walker, Ordered DEF ReadPresetGen, Step, Fits, Walks
  <2>2. read'[p].presetGen = conf[order[p].preset].gen /\ UNCHANGED <<order, conf>>
    BY <1>0, <1>1, <2>1 DEF ReadPresetGen, Learn, CommandTypes, ReadRecord, keepCluster, objects
  <2>3. conf[order[p].preset].gen \in Nat
    BY <2>1, Counts DEF AgentsTypes
  <2> QED
    BY <2>2, <2>3 DEF GenWay
<1>2. CASE ReadAgentGen(p) \/ ReadRevision(p)
  <2>1. CASE Refused(p)
    BY <1>0, <1>a, <2>1 DEF Refused, Finish, To, CommandTypes, Comparing
  <2>2. CASE Learn(p, [read[p] EXCEPT !.agentGen = agent.gen]) /\ UNCHANGED order
    <3>1. at[p] \in Comparing /\ read[p] \in ReadRecord
      BY <1>0, <1>2 DEF ReadAgentGen, ReadRevision, Step, Comparing, CommandTypes
    <3> QED
      BY <1>0, <1>b, <2>2, <3>1 DEF Learn, CommandTypes, ReadRecord
  <2>3. CASE Learn(p, [read[p] EXCEPT !.revision = Newest]) /\ UNCHANGED order
    <3>1. at[p] \in Comparing /\ read[p] \in ReadRecord
      BY <1>0, <1>2 DEF ReadAgentGen, ReadRevision, Step, Comparing, CommandTypes
    <3> QED
      BY <1>0, <1>b, <2>3, <3>1 DEF Learn, CommandTypes, ReadRecord
  <2> QED
    BY <1>2, <2>1, <2>2, <2>3 DEF ReadAgentGen, ReadRevision
<1>3. CASE Apply(p)
  <2>1. at[p] \in Comparing
    BY <1>3 DEF Apply, Step, Comparing
  <2>2. CASE UNCHANGED <<order, read>>
    BY <1>b, <2>1, <2>2
  <2>3. CASE To(p, "idle")
    BY <1>0, <1>a, <2>3 DEF To, CommandTypes, Comparing
  <2> QED
    BY <1>3, <2>2, <2>3 DEF Apply
<1>4. CASE Patch(p)
  <2>1. at[p] \in Comparing /\ UNCHANGED <<order, read>>
    BY <1>4 DEF Patch, Step, Comparing
  <2> QED
    BY <1>b, <2>1
<1>5. CASE Switch(p)
  <2>1. UNCHANGED order /\ (at'[p] = "presetGen" \/ at'[p] = "apply") /\ UNCHANGED <<read, conf>>
    BY <1>0, <1>5 DEF Switch, To, CommandTypes, keepCluster, objects
  <2>2. read[p].presetGen = 0
    BY <1>5 DEF Switch, Step, FreshWay, Fresh
  <2>3. order[p].kind \in Switches => conf[order[p].preset].gen \in Nat
    BY <1>5, Walker, Ordered, Counts DEF AgentsTypes, Switch, Step
  <2> QED
    BY <2>1, <2>2, <2>3 DEF GenWay
<1>6. CASE Reset(p)
  <2>1. order[p].kind \notin Switches /\ UNCHANGED order
    BY <1>6, Walker DEF Reset, Step, Fits, Walks, Switches
  <2> QED
    BY <2>1 DEF GenWay
<1>7. CASE Own(p) \/ SecretExists(p) \/ ReadBound(p) \/ ReconcileExisting(p) \/ Accepted(p)
           \/ Issue(p) \/ Store(p) \/ Allow(p) \/ Server(p)
  <2>1. at'[p] \notin Comparing
    BY <1>0, <1>7 DEF Own, SecretExists, ReadBound, ReconcileExisting, Accepted, Issue, Store, Allow, Server,
       Refused, Finish, To, CommandTypes, AfterIssue, Comparing
  <2> QED
    BY <1>a, <2>1
<1>8. CASE ReadPresetAfter(p) \/ ReadAgentAfter(p) \/ Rolled(p) \/ ReadLive(p) \/ Rewire(p)
  <2>1. at'[p] \notin Comparing
    BY <1>0, <1>8 DEF ReadPresetAfter, ReadAgentAfter, Rolled, ReadLive, Rewire, To, CommandTypes, Comparing
  <2> QED
    BY <1>a, <2>1
<1>9. CASE ReadGen(p) \/ Observed(p) \/ RolledOut(p) \/ ReadNewest(p) \/ ReadHash(p) \/ Single(p) \/ Ready(p)
           \/ Confirm(p)
  <2>1. at'[p] \notin Comparing
    BY <1>0, <1>9 DEF ReadGen, Observed, RolledOut, ReadNewest, ReadHash, Single, Ready, Confirm,
       Refused, Succeeded, Finish, To, CommandTypes, Comparing
  <2> QED
    BY <1>a, <2>1
<1>10. CASE Interrupted(p)
  BY <1>0, <1>a, <1>10 DEF Interrupted, Refused, Finish, To, CommandTypes, Comparing
<1>11. ASSUME NEW d \in Orders, Give(p, d) PROVE GenWay(p)'
  <2>1. d.kind \in Switches \cup {"up", "tools", "untools"}
    BY Ordered DEF OrderRecord, Switches
  <2>2. First(d.kind) \notin Comparing
    BY <2>1 DEF First, Switches, Comparing
  <2> QED
    BY <1>0, <1>a, <1>11, <2>2 DEF Give, To, CommandTypes
<1> QED
  BY <1>1, <1>2, <1>3, <1>4, <1>5, <1>6, <1>7, <1>8, <1>9, <1>10, <1>11 DEF Moves, Acts

LEMMA OwnOn ==
  ASSUME AgentsTypes, RollInv, NEW p \in People, GenWay(p), OwnWay(p), Moves(p)
  PROVE  OwnWay(p)'
<1>0. /\ WalksOn(p) /\ Does(p) /\ ClusterTypes /\ HistoryTypes /\ CommandTypes
      /\ agent.gen \in Nat /\ agent.seen \in Nat /\ Newest \in Nat
  BY CommandsOnward, CommandsDo, Counts DEF AgentsTypes
<1>i. ASSUME ~settled'[p] PROVE OwnWay(p)'
  BY <1>i DEF OwnWay
<1>f. ASSUME Refused(p) \/ Succeeded(p, What(p)) PROVE OwnWay(p)'
  <2>1. ~settled'[p]
    BY <1>0, <1>f DEF Refused, Succeeded, Finish, HistoryTypes
  <2> QED
    BY <1>i, <2>1
<1>k. ASSUME order[p].kind \notin Switches, UNCHANGED order, at'[p] # "idle" PROVE OwnWay(p)'
  BY <1>k DEF OwnWay
<1> DEFINE Way == order[p].kind \in Switches /\ settled[p]
<1>w. ASSUME Way, at[p] # "idle" PROVE OwnFacts(at[p], order[p], read[p])
  BY <1>w DEF OwnWay
<1>s. ASSUME keepCluster
      PROVE  /\ UNCHANGED <<agent, conf, rolled, pods>> /\ Newest' = Newest /\ Wanted' = Wanted
             /\ (UpToDate <=> UpToDate') /\ (Quiet <=> Quiet')
  BY <1>s DEF keepCluster, objects, deployment, Newest, Wanted, Serving, UpToDate, Quiet
\* Before it has looked, it is sure of nothing.
<1>1. CASE Own(p) \/ SecretExists(p) \/ ReadBound(p) \/ ReconcileExisting(p) \/ Issue(p) \/ Store(p) \/ Switch(p)
           \/ ReadPresetGen(p)
  <2>1. at[p] \in Early /\ at[p] # "idle"
    BY <1>1 DEF Own, SecretExists, ReadBound, ReconcileExisting, Issue, Store, Switch, ReadPresetGen, Step, Early
  <2>2. ~Way
    BY <1>w, <2>1 DEF OwnFacts
  <2>3. (UNCHANGED order /\ UNCHANGED settled) \/ Refused(p)
    BY <1>1 DEF Own, SecretExists, ReadBound, ReconcileExisting, Issue, Store, Switch, ReadPresetGen, keepHistory
  <2>4. at'[p] # "idle" \/ Refused(p)
    BY <1>0, <1>1 DEF Own, SecretExists, ReadBound, ReconcileExisting, Issue, Store, Switch, ReadPresetGen, To,
       CommandTypes, AfterIssue
  <2> QED
    BY <1>f, <2>2, <2>3, <2>4 DEF OwnWay
<1>2. CASE ReadAgentGen(p)
  <2>1. CASE Refused(p)
    BY <1>f, <2>1
  <2>2. CASE /\ To(p, "revision") /\ Learn(p, [read[p] EXCEPT !.agentGen = agent.gen])
             /\ settled' = [settled EXCEPT ![p] = Quiet] /\ UNCHANGED order /\ keepCluster /\ Here
    <3>1. at'[p] = "revision" /\ read'[p].agentGen = agent.gen
      BY <1>0, <2>2 DEF To, Learn, CommandTypes, ReadRecord
    <3>2. settled'[p] => Quiet
      BY <1>0, <2>2 DEF HistoryTypes
    <3>3. UNCHANGED <<agent, conf, rolled, pods>> /\ (Quiet <=> Quiet')
      BY <1>s, <2>2
    <3>4. Quiet' => OwnFacts("revision", order[p], read[p])'
      BY <2>2, <3>1, <3>3 DEF OwnFacts, Early, Awaiting, Here
    <3> QED
      BY <3>1, <3>2, <3>3, <3>4 DEF OwnWay
  <2> QED
    BY <1>2, <2>1, <2>2 DEF ReadAgentGen
<1>3. CASE ReadRevision(p)
  <2>1. /\ at[p] = "revision" /\ at'[p] = "apply" /\ read'[p].agentGen = read[p].agentGen
        /\ read'[p].revision = Newest /\ UNCHANGED <<order, settled>>
    BY <1>0, <1>3 DEF ReadRevision, Step, To, Learn, CommandTypes, ReadRecord, keepHistory
  <2>2. UNCHANGED <<agent, conf, rolled, pods>> /\ Newest' = Newest /\ (Quiet <=> Quiet')
    BY <1>s, <1>3 DEF ReadRevision
  <2>3. Way => OwnFacts("apply", order[p], read[p])'
    BY <1>w, <2>1, <2>2 DEF OwnFacts, Early, Awaiting
  <2> QED
    BY <2>1, <2>3 DEF OwnWay
<1>4. CASE Apply(p)
  <2>0. /\ at[p] = "apply" /\ order[p].kind \in Switches /\ order[p].preset \in Presets
        /\ read[p].presetGen \in Nat /\ conf[order[p].preset].gen \in Nat
    <3>1. at[p] = "apply" /\ order[p].kind \in Switches /\ order[p].preset \in Presets /\ read[p] \in ReadRecord
      BY <1>4, Walker, Ordered DEF Apply, Step, Fits, Walks
    <3> QED
      BY <1>0, <3>1, Counts DEF ReadRecord
  <2>1. /\ UNCHANGED <<agent, rolled, pods>>
        /\ \/ UNCHANGED conf /\ settled'[p] = settled[p]
           \/ conf'[order[p].preset].gen > conf[order[p].preset].gen /\ settled'[p] = settled[p]
    <3>1. (IF order[p].content # Nil THEN order[p].content ELSE read[p].content) \in Contents
      BY <1>4, ApplyContent
    <3> QED
      BY <1>0, <1>4, <2>0, <3>1, Configured DEF Apply, deployment, Leaves, Reconfigures
  <2>2. ASSUME Way
        PROVE  /\ Quiet /\ agent.gen = read[p].agentGen /\ 0 < read[p].agentGen /\ Newest = read[p].revision
               /\ read[p].presetGen <= conf[order[p].preset].gen
    BY <1>w, <2>0, <2>2 DEF OwnFacts, GenWay, Comparing
  <2>3. CASE To(p, "idle")
    <3>1. ~Way
      BY <1>0, <1>4, <2>0, <2>2, <2>3 DEF Apply, To, CommandTypes
    <3> QED
      BY <1>i, <2>0, <2>1, <3>1
  <2>4. CASE To(p, "patch") /\ UNCHANGED <<order, read>>
    <3>1. at'[p] = "patch"
      BY <1>0, <2>4 DEF To, CommandTypes
    <3>2. Newest' = Newest
      BY <2>1 DEF Newest
    <3>3. ASSUME Way, UNCHANGED conf PROVE UpToDate'
      <4>1. UpToDate
        BY <2>2, <3>3 DEF Quiet, UpToDate
      <4> QED
        BY <2>1, <3>3, <4>1 DEF UpToDate, Serving, Newest, Wanted
    <3>4. ASSUME Way, conf'[order[p].preset].gen > conf[order[p].preset].gen
          PROVE  conf'[order[p].preset].gen # read[p].presetGen
      <4>1. conf'[order[p].preset].gen \in Nat
        <5>1. ClusterTypes'
          BY <1>0 DEF Does
        <5>2. conf'[order[p].preset].gen \in 0..MaxGen
          BY <2>0, <5>1 DEF ClusterTypes
        <5> QED
          BY <5>2, Marked
      <4> QED
        BY <2>0, <2>2, <3>4, <4>1
    <3>5. Way => OwnFacts("patch", order[p], read[p])'
      <4> SUFFICES ASSUME Way PROVE OwnFacts("patch", order[p], read[p])'
        OBVIOUS
      <4>1. agent'.gen = read'[p].agentGen /\ ~(Newest' > read'[p].revision)
        BY <1>0, <2>1, <2>2, <2>4, <3>2
      <4>2. (Newest' > read'[p].revision \/ conf'[order'[p].preset].gen = read'[p].presetGen) => UpToDate'
        BY <2>1, <2>4, <3>3, <3>4, <4>1
      <4> QED
        BY <4>1, <4>2 DEF OwnFacts, Early, Awaiting
    <3> QED
      BY <2>0, <2>1, <2>4, <3>1, <3>5 DEF OwnWay
  <2> QED
    BY <1>4, <2>3, <2>4 DEF Apply
<1>5. CASE Patch(p)
  <2>0. at[p] = "patch" /\ order[p] \in Orders /\ UNCHANGED <<order, read>> /\ at'[p] # "idle"
    BY <1>0, <1>5, Walker DEF Patch, Step, To, CommandTypes
  <2>1. CASE order[p].kind \in Switches
    <3>1. /\ at'[p] = "presetAfter" /\ UNCHANGED <<conf, rolled, pods>>
          /\ UNCHANGED agent \/ (agent'.gen = agent.gen + 1 /\ agent'.seen = agent.seen)
          /\ settled'[p] = settled[p]
      <4>1. order[p].preset \in Presets /\ agent.wiring \in Wirings /\ order[p].kind # "up"
        BY <1>0, <2>0, <2>1, Ordered DEF ClusterTypes, Switches
      <4>2. (Leaves(p) /\ settled'[p] = settled[p]) \/ Rewrites(p)
        BY <1>0, <1>5, <4>1, Wired DEF Patch, deployment
      <4> QED
        BY <1>0, <1>5, <4>1, <4>2 DEF Patch, To, CommandTypes, deployment, Leaves, Rewrites
    <3>2. ASSUME Way
          PROVE  /\ agent.gen = read[p].agentGen
                 /\ (Newest > read[p].revision \/ conf[order[p].preset].gen = read[p].presetGen) => UpToDate
      BY <1>w, <2>0, <3>2 DEF OwnFacts
    <3>3. ASSUME Way, UNCHANGED agent PROVE OwnFacts("presetAfter", order[p], read[p])'
      <4>1. Newest' = Newest /\ (UpToDate <=> UpToDate')
        BY <3>1, <3>3 DEF UpToDate, Serving, Newest, Wanted
      <4> QED
        BY <2>0, <3>1, <3>2, <3>3, <4>1 DEF OwnFacts, Early, Awaiting
    <3>4. ASSUME Way, agent'.gen = agent.gen + 1, agent'.seen = agent.seen
          PROVE  OwnFacts("presetAfter", order[p], read[p])'
      <4>1. agent'.gen # read'[p].agentGen /\ agent'.seen # agent'.gen
        BY <1>0, <2>0, <3>2, <3>4 DEF RollInv
      <4> QED
        BY <4>1 DEF OwnFacts, Early, Awaiting
    <3> QED
      BY <2>0, <3>1, <3>3, <3>4 DEF OwnWay
  <2> QED
    BY <1>k, <2>0, <2>1
<1>6. CASE ReadPresetAfter(p)
  <2>1. /\ at[p] = "presetAfter" /\ at'[p] = "agentAfter" /\ UNCHANGED <<order, settled>>
        /\ read'[p].agentGen = read[p].agentGen /\ read'[p].revision = read[p].revision
        /\ read'[p].rolls = (conf[order[p].preset].gen # read[p].presetGen)
    BY <1>0, <1>6 DEF ReadPresetAfter, Step, To, Learn, CommandTypes, ReadRecord, keepHistory
  <2>2. UNCHANGED <<agent, conf, rolled, pods>> /\ Newest' = Newest /\ (UpToDate <=> UpToDate')
    BY <1>s, <1>6 DEF ReadPresetAfter
  <2>3. Way => OwnFacts("agentAfter", order[p], read[p])'
    BY <1>w, <2>1, <2>2 DEF OwnFacts, Early, Awaiting
  <2> QED
    BY <2>1, <2>3 DEF OwnWay
<1>7. CASE ReadAgentAfter(p)
  <2>1. /\ at[p] = "agentAfter" /\ UNCHANGED <<order, settled>> /\ read'[p].revision = read[p].revision
        /\ at'[p] = IF agent.gen = read[p].agentGen /\ read[p].rolls THEN "rolled" ELSE "gen"
    BY <1>0, <1>7 DEF ReadAgentAfter, Step, To, Learn, CommandTypes, ReadRecord, keepHistory
  <2>2. UNCHANGED <<agent, conf, rolled, pods>> /\ Newest' = Newest /\ (UpToDate <=> UpToDate')
    BY <1>s, <1>7 DEF ReadAgentAfter
  <2>3. ASSUME Way, agent.gen = read[p].agentGen, read[p].rolls PROVE OwnFacts("rolled", order[p], read[p])'
    BY <1>w, <2>1, <2>2, <2>3 DEF OwnFacts, Early, Awaiting
  <2>4. ASSUME Way, ~(agent.gen = read[p].agentGen /\ read[p].rolls) PROVE OwnFacts("gen", order[p], read[p])'
    BY <1>w, <2>1, <2>2, <2>4 DEF OwnFacts, Early, Awaiting
  <2> QED
    BY <2>1, <2>3, <2>4 DEF OwnWay
<1>8. CASE Rolled(p)
  <2>1. at[p] = "rolled" /\ at'[p] = "gen" /\ UNCHANGED <<order, settled>> /\ Newest > read[p].revision
    BY <1>0, <1>8 DEF Rolled, Step, To, CommandTypes, keepHistory
  <2>2. UNCHANGED <<agent, conf, rolled, pods>> /\ (UpToDate <=> UpToDate')
    BY <1>s, <1>8 DEF Rolled
  <2>3. Way => OwnFacts("gen", order[p], read[p])'
    BY <1>w, <2>1, <2>2 DEF OwnFacts, Early, Awaiting
  <2> QED
    BY <2>1, <2>3 DEF OwnWay
<1>9. CASE ReadGen(p)
  <2>1. at[p] = "gen" /\ at'[p] = "observed" /\ UNCHANGED <<order, settled>> /\ read'[p].gen = agent.gen
    BY <1>0, <1>9 DEF ReadGen, Step, To, Learn, CommandTypes, Blank, keepHistory
  <2>2. UNCHANGED <<agent, conf, rolled, pods>> /\ (UpToDate <=> UpToDate')
    BY <1>s, <1>9 DEF ReadGen
  <2>3. Way => OwnFacts("observed", order[p], read[p])'
    BY <1>w, <2>1, <2>2 DEF OwnFacts, Early, Awaiting
  <2> QED
    BY <2>1, <2>3 DEF OwnWay
<1>10. CASE Observed(p)
  <2>1. at[p] = "observed" /\ at'[p] = "rollout" /\ UNCHANGED <<order, read, settled>> /\ agent.seen = read[p].gen
    BY <1>0, <1>10 DEF Observed, Step, To, CommandTypes, keepHistory
  <2>2. UNCHANGED <<agent, conf, rolled, pods>> /\ (UpToDate <=> UpToDate')
    BY <1>s, <1>10 DEF Observed
  <2>3. Way => OwnFacts("rollout", order[p], read[p])'
    BY <1>w, <2>1, <2>2 DEF OwnFacts, Early, Awaiting
  <2> QED
    BY <2>1, <2>3 DEF OwnWay
<1>11. CASE RolledOut(p)
  <2>1. at[p] = "rollout" /\ at'[p] = "newest" /\ UNCHANGED <<order, read, settled>>
    BY <1>0, <1>11 DEF RolledOut, Step, To, CommandTypes, keepHistory
  <2>2. UNCHANGED <<agent, conf, rolled, pods>> /\ (UpToDate <=> UpToDate')
    BY <1>s, <1>11 DEF RolledOut
  <2>3. Way => OwnFacts("newest", order[p], read[p])'
    BY <1>w, <2>1, <2>2 DEF OwnFacts, Early, Awaiting
  <2> QED
    BY <2>1, <2>3 DEF OwnWay
<1>12. CASE ReadNewest(p)
  <2>1. /\ at[p] = "newest" /\ at'[p] = "hash" /\ UNCHANGED <<order, settled>>
        /\ read'[p].gen = read[p].gen /\ read'[p].revision = Newest
    BY <1>0, <1>12 DEF ReadNewest, Step, To, Learn, CommandTypes, ReadRecord, keepHistory
  <2>2. UNCHANGED <<agent, conf, rolled, pods>> /\ Newest' = Newest /\ (UpToDate <=> UpToDate')
    BY <1>s, <1>12 DEF ReadNewest
  <2>3. Way => OwnFacts("hash", order[p], read[p])'
    BY <1>w, <2>1, <2>2 DEF OwnFacts, Early, Awaiting
  <2> QED
    BY <2>1, <2>3 DEF OwnWay
<1>13. CASE ReadHash(p)
  <2>1. CASE Refused(p)
    BY <1>f, <2>1
  <2>2. CASE /\ To(p, "single") /\ Learn(p, [read[p] EXCEPT !.hash = rolled[read[p].revision], !.revision = 0])
             /\ UNCHANGED order /\ keepHistory
    <3>1. /\ at[p] = "hash" /\ at'[p] = "single" /\ UNCHANGED <<order, settled>>
          /\ read'[p].gen = read[p].gen /\ read'[p].hash = rolled[read[p].revision]
      BY <1>0, <1>13, <2>2 DEF ReadHash, Step, To, Learn, CommandTypes, ReadRecord, keepHistory
    <3>2. UNCHANGED <<agent, conf, rolled, pods>> /\ Wanted' = Wanted /\ (UpToDate <=> UpToDate')
      BY <1>s, <1>13 DEF ReadHash
    <3>3. ASSUME Way PROVE OwnFacts("single", order[p], read[p])'
      <4>1. agent.seen = agent.gen /\ UpToDate /\ read[p].revision = Newest /\ read[p].gen = agent.gen
        BY <1>w, <3>1, <3>3 DEF OwnFacts, Awaiting
      <4>2. rolled[Newest] = Wanted
        BY <4>1 DEF UpToDate, Serving
      <4> QED
        BY <3>1, <3>2, <4>1, <4>2 DEF OwnFacts, Early, Awaiting
    <3> QED
      BY <3>1, <3>3 DEF OwnWay
  <2> QED
    BY <1>13, <2>1, <2>2 DEF ReadHash
<1>14. CASE Single(p)
  <2>1. CASE Succeeded(p, What(p))
    BY <1>f, <2>1
  <2>2. CASE To(p, "ready") /\ UNCHANGED <<order, read>> /\ keepHistory
    <3>1. at[p] = "single" /\ at'[p] = "ready" /\ UNCHANGED <<order, read, settled>> /\ pods = {read[p].hash}
      BY <1>0, <1>14, <2>2 DEF Single, Step, To, CommandTypes, keepHistory
    <3>2. UNCHANGED <<agent, conf, rolled, pods>> /\ (Quiet <=> Quiet')
      BY <1>s, <1>14 DEF Single
    <3>3. ASSUME Way PROVE OwnFacts("ready", order[p], read[p])'
      <4>1. agent.seen = agent.gen /\ UpToDate /\ read[p].hash = Wanted /\ read[p].gen = agent.gen
        BY <1>w, <3>1, <3>3 DEF OwnFacts, Awaiting
      <4>2. Quiet
        BY <3>1, <4>1 DEF UpToDate, Quiet
      <4> QED
        BY <3>1, <3>2, <4>1, <4>2 DEF OwnFacts, Early, Awaiting
    <3> QED
      BY <3>1, <3>3 DEF OwnWay
  <2> QED
    BY <1>14, <2>1, <2>2 DEF Single
<1>15. CASE Ready(p)
  <2>1. CASE Succeeded(p, What(p))
    BY <1>f, <2>1
  <2>2. CASE To(p, "confirm") /\ UNCHANGED <<order, read>> /\ keepHistory
    <3>1. at[p] = "ready" /\ at'[p] = "confirm" /\ UNCHANGED <<order, read, settled>>
      BY <1>0, <1>15, <2>2 DEF Ready, Step, To, CommandTypes, keepHistory
    <3>2. UNCHANGED <<agent, conf, rolled, pods>> /\ (Quiet <=> Quiet')
      BY <1>s, <1>15 DEF Ready
    <3>3. Way => OwnFacts("confirm", order[p], read[p])'
      BY <1>w, <3>1, <3>2 DEF OwnFacts, Early, Awaiting
    <3> QED
      BY <3>1, <3>3 DEF OwnWay
  <2> QED
    BY <1>15, <2>1, <2>2 DEF Ready
<1>16. CASE Confirm(p)
  BY <1>f, <1>16 DEF Confirm
\* The other commands are no switches.
<1>17. CASE Allow(p) \/ Server(p) \/ Accepted(p) \/ Rewire(p) \/ Reset(p) \/ ReadLive(p)
  <2>1. order[p].kind \notin Switches
    BY <1>17, Walker DEF Allow, Server, Accepted, Rewire, Reset, ReadLive, Step, Fits, Walks, Switches
  <2>2. Refused(p) \/ (UNCHANGED order /\ at'[p] # "idle")
    BY <1>0, <1>17 DEF Allow, Server, Accepted, Rewire, Reset, ReadLive, To, CommandTypes, PutsBack
  <2> QED
    BY <1>f, <1>k, <2>1, <2>2
<1>18. CASE Interrupted(p)
  BY <1>f, <1>18 DEF Interrupted
<1>19. ASSUME NEW d \in Orders, Give(p, d) PROVE OwnWay(p)'
  <2>1. ~settled[p] /\ UNCHANGED settled
    BY <1>19 DEF Give, Step, OwnWay
  <2> QED
    BY <1>i, <2>1
<1> QED
  BY <1>1, <1>2, <1>3, <1>4, <1>5, <1>6, <1>7, <1>8, <1>9, <1>10, <1>11, <1>12, <1>13, <1>14, <1>15, <1>16, <1>17,
     <1>18, <1>19 DEF Moves, Acts

LEMMA AloneStep ==
  ASSUME AgentsTypes, RollInv, OwnInv, [AgentsNext]_agentsVars
  PROVE  OwnInv'
<1> SUFFICES ASSUME NEW q \in People PROVE FreshWay(q)' /\ GenWay(q)' /\ OwnWay(q)' /\ OwnEnd(q)'
  BY DEF OwnInv
<1>0. FreshWay(q) /\ GenWay(q) /\ OwnWay(q) /\ OwnEnd(q)
  BY DEF OwnInv
<1>1. ASSUME NEW p \in People, Moves(p), q = p PROVE FreshWay(q)' /\ GenWay(q)' /\ OwnWay(q)' /\ OwnEnd(q)'
  <2>1. OwnEnd(q)'
    BY <1>0, <1>1, Endings, OwnEnds, CommandsDo DEF Does
  <2> QED
    BY <1>0, <1>1, <2>1, FreshOn, GenOn, OwnOn
<1>2. ASSUME NEW p \in People, Moves(p), q # p PROVE FreshWay(q)' /\ GenWay(q)' /\ OwnWay(q)' /\ OwnEnd(q)'
  <2>0. Unmoved(q) /\ Disturbed(q) /\ UNCHANGED <<rolled, pods>>
    BY <1>2, Elsewhere
  <2>1. OwnEnd(q)'
    BY <1>0, <1>2, <2>0, Endings, OwnEnds
  <2>2. FreshWay(q)'
    BY <1>0, <2>0 DEF Unmoved, FreshWay
  <2>3. GenWay(q)'
    <3> SUFFICES ASSUME at[q] \in Comparing, order[q].kind \in Switches PROVE read[q].presetGen <= conf'[order[q].preset].gen
      BY <2>0 DEF Unmoved, GenWay
    <3>1. order[q].preset \in Presets /\ read[q].presetGen \in Nat
      BY Walker, Ordered DEF Comparing, ReadRecord
    <3>2. conf[order[q].preset].gen \in Nat
      BY <3>1, Counts DEF AgentsTypes
    <3>3. ClusterTypes'
      BY <1>2, CommandsDo DEF Does
    <3>4. conf'[order[q].preset].gen \in 0..MaxGen
      BY <3>1, <3>3 DEF ClusterTypes
    <3>5. conf[order[q].preset].gen <= conf'[order[q].preset].gen
      BY <2>0, <3>1, <3>2 DEF Disturbed
    <3>6. read[q].presetGen <= conf[order[q].preset].gen
      BY <1>0 DEF GenWay
    <3> QED
      BY <3>1, <3>2, <3>4, <3>5, <3>6, Marked
  <2>4. CASE UNCHANGED <<agent, conf>> /\ settled'[q] = settled[q]
    <3>1. OwnWay(q)'
      BY <1>0, <2>0, <2>4 DEF Unmoved, OwnWay, OwnFacts, Quiet, UpToDate, Serving, Newest, Wanted
    <3> QED
      BY <2>1, <2>2, <2>3, <3>1
  <2>5. CASE ~settled'[q]
    <3>1. OwnWay(q)'
      BY <2>5 DEF OwnWay
    <3> QED
      BY <2>1, <2>2, <2>3, <3>1
  <2> QED
    BY <2>0, <2>4, <2>5 DEF Disturbed
<1>3. CASE Controllers \/ \E c \in Creds : RowDeleted(c)
  <2>1. UNCHANGED <<conf, commands>>
    BY <1>3, ControllersStep DEF Controllers, Reconcile, PodStarts, PodDrains, ServerAccepted, RowDeleted, objects
  <2>2. UNCHANGED <<at, order, read, settled, ended>>
    BY <2>1 DEF commands
  <2>3. PICK s, d, r : s = at[q] /\ d = order[q] /\ r = read[q]
    OBVIOUS
  <2>4. OwnFacts(s, d, r) => OwnFacts(s, d, r)'
    BY <1>3, OwnKept
  <2>5. at[q] # "idle" /\ order[q].kind \in Switches /\ settled[q] => OwnFacts(s, d, r)
    BY <1>0, <2>3 DEF OwnWay
  <2>6. OwnWay(q)'
    BY <1>0, <2>2, <2>3, <2>4, <2>5 DEF OwnWay
  <2>7. Quiet => Quiet'
    BY <1>3, QuietKept
  <2>8. FreshWay(q)' /\ GenWay(q)' /\ OwnEnd(q)'
    BY <1>0, <2>1, <2>2, <2>7 DEF FreshWay, GenWay, OwnEnd
  <2> QED
    BY <2>6, <2>8
<1>4. CASE UNCHANGED agentsVars
  <2>1. UNCHANGED <<agent, conf, rolled, pods, at, order, read, settled, ended>>
    BY <1>4 DEF agentsVars, objects, deployment, commands
  <2>2. FreshWay(q)' /\ GenWay(q)'
    BY <1>0, <2>1 DEF FreshWay, GenWay
  <2>3. OwnWay(q)'
    BY <1>0, <2>1 DEF OwnWay, OwnFacts, Quiet, UpToDate, Serving, Newest, Wanted
  <2>4. OwnEnd(q)'
    BY <1>0, <2>1 DEF OwnEnd, Quiet, Serving, Newest, Wanted
  <2> QED
    BY <2>2, <2>3, <2>4
<1> QED
  BY <1>1, <1>2, <1>3, <1>4 DEF AgentsNext, Moves

LEMMA OwnSafe == AgentsSpec => []OwnInv
<1>1. AgentsInit => OwnInv
  <2> SUFFICES ASSUME AgentsInit, NEW p \in People PROVE FreshWay(p) /\ GenWay(p) /\ OwnWay(p) /\ OwnEnd(p)
    BY DEF OwnInv
  <2>1. read[p].presetGen = 0
    BY DEF AgentsInit, Blank
  <2> QED
    BY <2>1, Nobody DEF FreshWay, GenWay, OwnWay, OwnEnd, Comparing
<1>2. WaitInv => RollInv
  BY DEF WaitInv
<1> QED
  BY <1>1, <1>2, AloneStep, AgentsTypesSafe, WaitSafe, PTL DEF AgentsSpec

\* A switch that began on a deployment at rest, with nobody else writing,
\* leaves the one pod on the preset's new content even when the agent itself
\* did not change.
THEOREM ContentReaches == AgentsSpec => []ContentServed
<1>1. OwnInv => ContentServed
  BY DEF OwnInv, OwnEnd, Quiet, ContentServed
<1> QED
  BY <1>1, OwnSafe, PTL

\* What a switch reports, the pods do.
THEOREM SwitchesReach == AgentsSpec => []SwitchReachesPods
<1>1. SwitchedServes /\ ContentServed => SwitchReachesPods
  BY DEF SwitchReachesPods
<1> QED
  BY <1>1, SwitchServes, ContentReaches, PTL

-----------------------------------------------------------------------------
(* A credential's one token, and the seam an agent is pointed at. *)

\* A Secret somebody fills, and a row somebody makes.
Fills(p) ==
  LET s == order[p].secret
  IN /\ at[p] = "store" /\ To(p, AfterIssue(p)) /\ UNCHANGED <<order, row>>
     /\ Creates(p) => secret[s] = Nil
     /\ secret' = [secret EXCEPT ![s] = [cred |-> order[p].cred, token |-> read[p].token]]
     /\ crossed' = crossed \cup {q \in Asked \ {p} : order[q].secret = s}
     /\ lost' = IF p \in crossed /\ secret[s] # Nil THEN lost \cup {secret[s].cred} ELSE lost
Mints(p) ==
  /\ at[p] = "issue" /\ UNCHANGED <<order, secret>> /\ row[order[p].cred] = Nil
  /\ \E t \in Tokens : row' = [row EXCEPT ![order[p].cred] = t] /\ Learn(p, [read[p] EXCEPT !.token = t])
Accepting == \A w \in Governed : server[w] = "accepted" => server'[w] = "accepted"
Minds(p) ==
  /\ allowed \subseteq allowed' /\ Accepting
  /\ UNCHANGED <<secret, lost>> \/ Fills(p)
  /\ UNCHANGED row \/ Mints(p)
  /\ crossed \ {p} \subseteq crossed'

LEMMA Minting ==
  ASSUME NEW p \in People, Issue(p)
  PROVE  (To(p, "reconcile") /\ UNCHANGED row) \/ (To(p, "store") /\ Mints(p))
<1>1. UNCHANGED <<secret, order>> /\ at[p] = "issue"
  BY DEF Issue, Step
<1>2. CASE /\ row[order[p].cred] = Nil /\ Tokens \ InUse # {} /\ To(p, "store")
           /\ LET token == CHOOSE t \in Tokens : t \notin InUse
              IN /\ row' = [row EXCEPT ![order[p].cred] = token]
                 /\ Learn(p, [read[p] EXCEPT !.token = token])
  <2>1. (CHOOSE t \in Tokens : t \notin InUse) \in Tokens
    BY <1>2
  <2> HIDE DEF InUse
  <2> QED
    BY <1>1, <1>2, <2>1 DEF Mints
<1> QED
  BY <1>2 DEF Issue

LEMMA CommandsMind ==
  ASSUME AgentsTypes, NEW p \in People, Moves(p)
  PROVE  Minds(p)
<1>a. ASSUME UNCHANGED <<server, secret, row, allowed, lost>>, crossed \ {p} \subseteq crossed' PROVE Minds(p)
  BY <1>a DEF Minds, Accepting
<1> USE DEF crossings
<1>1. CASE Own(p) \/ SecretExists(p) \/ ReadBound(p) \/ ReconcileExisting(p) \/ Accepted(p) \/ Switch(p)
  BY <1>a, <1>1
     DEF Own, SecretExists, ReadBound, ReconcileExisting, Accepted, Switch, keepCluster, objects, plane
<1>2. CASE ReadPresetGen(p) \/ ReadAgentGen(p) \/ ReadRevision(p) \/ ReadPresetAfter(p) \/ ReadAgentAfter(p)
           \/ Rolled(p) \/ ReadLive(p)
  BY <1>a, <1>2
     DEF ReadPresetGen, ReadAgentGen, ReadRevision, ReadPresetAfter, ReadAgentAfter, Rolled, ReadLive,
         keepCluster, objects, plane
<1>3. CASE ReadGen(p) \/ Observed(p) \/ RolledOut(p) \/ ReadNewest(p) \/ ReadHash(p) \/ Single(p) \/ Ready(p)
           \/ Confirm(p)
  BY <1>a, <1>3
     DEF ReadGen, Observed, RolledOut, ReadNewest, ReadHash, Single, Ready, Confirm, keepCluster, objects, plane
<1>4. CASE Rewire(p) \/ Reset(p) \/ Patch(p) \/ Apply(p)
  BY <1>a, <1>4 DEF Rewire, Reset, Patch, Apply, plane
<1>5. CASE Issue(p)
  <2>1. UNCHANGED <<server, secret, allowed, lost, crossed>>
    BY <1>5 DEF Issue, objects
  <2> QED
    BY <1>5, <2>1, Minting DEF Minds, Accepting
<1>6. CASE Store(p)
  <2>1. UNCHANGED <<server, row, allowed>> /\ at[p] = "store"
    BY <1>6 DEF Store, Step, objects
  <2>2. UNCHANGED <<secret, lost, crossed>> \/ Fills(p)
    BY <1>6, <2>1 DEF Store, Fills
  <2> QED
    BY <2>1, <2>2 DEF Minds, Accepting, Fills
<1>7. CASE Allow(p)
  BY <1>7 DEF Allow, Minds, Accepting, objects
<1>8. CASE Server(p)
  <2>1. UNCHANGED <<secret, row, allowed, lost, crossed>>
    BY <1>8 DEF Server, plane
  <2>2. Accepting
    BY <1>8 DEF Server, Accepting, AgentsTypes, CustodyTypes
  <2> QED
    BY <2>1, <2>2 DEF Minds
<1>9. CASE Interrupted(p) \/ \E d \in Orders : Give(p, d)
  BY <1>a, <1>9 DEF Interrupted, Give, keepCluster, objects, plane
<1> QED
  BY <1>1, <1>2, <1>3, <1>4, <1>5, <1>6, <1>7, <1>8, <1>9 DEF Moves, Acts

\* The tool wiring of the agent, before and after.
Target(p) == IF order[p].kind = "up" THEN read[p].wiring ELSE order[p].wiring

LEMMA CommandsWire ==
  ASSUME AgentsTypes, NEW p \in People, Moves(p)
  PROVE  agent'.wiring \in {agent.wiring, "direct"} \/ (at[p] = "rewire" /\ agent'.wiring = Target(p))
<1>0. ClusterTypes /\ HistoryTypes /\ agent.preset \in Presets /\ agent.wiring \in Wirings
  BY DEF AgentsTypes, ClusterTypes
<1>a. ASSUME UNCHANGED agent PROVE agent'.wiring \in {agent.wiring, "direct"}
  BY <1>a
<1>1. CASE Own(p) \/ SecretExists(p) \/ ReadBound(p) \/ ReconcileExisting(p) \/ Accepted(p) \/ Switch(p)
           \/ Issue(p) \/ Store(p) \/ Allow(p) \/ Server(p) \/ Apply(p)
  BY <1>a, <1>1
     DEF Own, SecretExists, ReadBound, ReconcileExisting, Accepted, Switch, Issue, Store, Allow, Server, Apply,
         keepCluster, objects
<1>2. CASE ReadPresetGen(p) \/ ReadAgentGen(p) \/ ReadRevision(p) \/ ReadPresetAfter(p) \/ ReadAgentAfter(p)
           \/ Rolled(p) \/ ReadLive(p)
  BY <1>a, <1>2
     DEF ReadPresetGen, ReadAgentGen, ReadRevision, ReadPresetAfter, ReadAgentAfter, Rolled, ReadLive,
         keepCluster, objects
<1>3. CASE ReadGen(p) \/ Observed(p) \/ RolledOut(p) \/ ReadNewest(p) \/ ReadHash(p) \/ Single(p) \/ Ready(p)
           \/ Confirm(p)
  BY <1>a, <1>3
     DEF ReadGen, Observed, RolledOut, ReadNewest, ReadHash, Single, Ready, Confirm, keepCluster, objects
<1>4. ASSUME NEW x, NEW w, Wire(p, x, w) PROVE agent'.wiring = w
  BY <1>0, <1>4 DEF Wire, ClusterTypes
<1>5. CASE Rewire(p)
  BY <1>4, <1>5 DEF Rewire, Step, Target
<1>6. CASE Reset(p)
  BY <1>4, <1>6 DEF Reset
<1>7. CASE Patch(p)
  BY <1>4, <1>7 DEF Patch
<1>8. CASE Interrupted(p) \/ \E d \in Orders : Give(p, d)
  BY <1>a, <1>8 DEF Interrupted, Give, keepCluster, objects
<1> QED
  BY <1>1, <1>2, <1>3, <1>5, <1>6, <1>7, <1>8 DEF Moves, Acts

\* A server that answers, and a credential that opens it.
Sound(w) == server[w] = "accepted" /\ \E c \in allowed : Kept(c)

\* What a command that issues, or rewires, has made sure of by a stop: of its
\* Secret only as long as nobody crossed it.
IssueFacts(stop, d, r, met) ==
  /\ stop \in {"issue", "reconcile", "store"} /\ ~met => (secret[d.secret] # Nil => secret[d.secret].cred = d.cred)
  /\ stop = "store" /\ ~met => row[d.cred] = r.token
  /\ stop \in {"allow", "server", "accepted"} => Kept(d.cred)
  /\ stop \in {"server", "accepted"} => d.cred \in allowed
  /\ stop = "rewire" /\ d.kind = "tools" => Sound(d.wiring)
  /\ stop \in Restores /\ d.kind = "up" /\ r.wiring \in Governed => Sound(r.wiring)
IssueWay(p) == at[p] # "idle" => IssueFacts(at[p], order[p], read[p], p \in crossed)

IssueInv == \A p \in People : IssueWay(p)
SeamInv == agent.wiring \in Governed => Sound(agent.wiring)

\* The stops of a command that issues.
Guarded == {"issue", "reconcile", "store", "allow", "server", "accepted"}

LEMMA Guards ==
  ASSUME AgentsTypes, NEW p \in People, at[p] \in Guarded
  PROVE  /\ order[p] \in Orders /\ order[p].kind \in Issues
         /\ order[p].cred \in Creds /\ order[p].cred # Nil /\ order[p].secret \in Secrets
         /\ at[p] = "store" => read[p].token \in Tokens /\ read[p].token # Nil
<1>1. order[p] \in Orders /\ read[p] \in ReadRecord /\ Fits(order[p], at[p], read[p])
  BY Walker DEF Guarded
<1>2. order[p].kind \in Issues
  BY <1>1 DEF Fits, Walks, Guarded, Issues
<1>3. order[p].cred \in Creds /\ order[p].secret \in Secrets
  BY <1>1, <1>2, Ordered
<1>4. at[p] = "store" => read[p].token # Nil /\ read[p].token \in Tokens \cup {Nil}
  BY <1>1 DEF Fits, ReadRecord
<1> QED
  BY <1>1, <1>2, <1>3, <1>4, Marked

\* Whoever fills a Secret, and was not crossed, leaves it to the credential it
\* had.
LEMMA Filled ==
  ASSUME AgentsTypes, IssueInv, NEW p \in People, Fills(p)
  PROVE  /\ secret'[order[p].secret] # Nil /\ secret'[order[p].secret].cred = order[p].cred
         /\ p \notin crossed => /\ secret'[order[p].secret].token = row'[order[p].cred]
                                /\ secret[order[p].secret] # Nil => secret[order[p].secret].cred = order[p].cred
         /\ \A s \in Secrets : s # order[p].secret => secret'[s] = secret[s]
         /\ at'[p] # "store"
<1>1. order[p].cred \in Creds /\ order[p].secret \in Secrets /\ read[p].token \in Tokens /\ at[p] = "store"
  BY Guards DEF Fills, Guarded
<1>2. secret \in [Secrets -> [cred : Creds, token : Tokens] \cup {Nil}]
  BY DEF AgentsTypes, CustodyTypes
<1> DEFINE new == [cred |-> order[p].cred, token |-> read[p].token]
<1>3. new \in [cred : Creds, token : Tokens] /\ new.cred = order[p].cred /\ new.token = read[p].token
  BY <1>1
<1>4. new # Nil
  BY <1>3, Marked
<1>5. secret' = [secret EXCEPT ![order[p].secret] = new] /\ row' = row
  BY DEF Fills
<1> HIDE DEF new
<1>6. IssueFacts("store", order[p], read[p], p \in crossed)
  BY <1>1 DEF IssueInv, IssueWay
<1>7. p \notin crossed => /\ row[order[p].cred] = read[p].token
                          /\ secret[order[p].secret] # Nil => secret[order[p].secret].cred = order[p].cred
  BY <1>6 DEF IssueFacts
<1>8. secret'[order[p].secret] = new /\ \A s \in Secrets : s # order[p].secret => secret'[s] = secret[s]
  BY <1>1, <1>2, <1>5
<1>9. at'[p] \in {"allow", "switch"}
  BY DEF Fills, To, AfterIssue, AgentsTypes, CommandTypes
<1> QED
  BY <1>3, <1>4, <1>5, <1>7, <1>8, <1>9

\* What is held stays held, and what is sound stays sound.
Holding ==
  /\ \A c \in Creds : Kept(c) => Kept(c)'
  /\ allowed \subseteq allowed' /\ Accepting

LEMMA MindsHolds ==
  ASSUME AgentsTypes, IssueInv, NEW p \in People, Minds(p)
  PROVE  Holding
<1>1. ASSUME NEW c \in Creds, Kept(c) PROVE Kept(c)'
  <2>1. CASE UNCHANGED <<secret, lost>>
    BY <1>1, <2>1 DEF Kept
  <2>2. CASE Fills(p)
    <3>1. lost \subseteq lost'
      BY <2>2 DEF Fills
    <3>2. CASE c \in lost
      BY <3>1, <3>2 DEF Kept
    <3>3. ASSUME NEW s \in Secrets, secret[s] # Nil, secret[s].cred = c PROVE Kept(c)'
      <4>1. CASE s # order[p].secret
        <5>1. secret'[s] # Nil /\ secret'[s].cred = c
          BY <2>2, <3>3, <4>1, Filled
        <5> QED
          BY <5>1 DEF Kept
      <4>2. CASE s = order[p].secret /\ p \in crossed
        <5>1. c \in lost'
          BY <2>2, <3>3, <4>2 DEF Fills
        <5> QED
          BY <5>1 DEF Kept
      <4>3. CASE s = order[p].secret /\ p \notin crossed
        <5>1. secret'[s] # Nil /\ secret'[s].cred = c
          BY <2>2, <3>3, <4>3, Filled
        <5> QED
          BY <5>1 DEF Kept
      <4> QED
        BY <4>1, <4>2, <4>3
    <3> QED
      BY <1>1, <3>2, <3>3 DEF Kept
  <2> QED
    BY <2>1, <2>2 DEF Minds
<1> QED
  BY <1>1 DEF Minds, Holding

LEMMA SoundKept ==
  ASSUME AgentsTypes, Holding, NEW w \in Governed, Sound(w)
  PROVE  Sound(w)'
<1>1. PICK c \in allowed : Kept(c)
  BY DEF Sound
<1>2. c \in allowed' /\ Kept(c)'
  BY <1>1 DEF Holding, AgentsTypes, CustodyTypes
<1>3. server'[w] = "accepted"
  BY DEF Sound, Holding, Accepting
<1> QED
  BY <1>2, <1>3 DEF Sound

\* kagent, Kubernetes and whoever deletes rows hold no Secret.
LEMMA OthersHold ==
  ASSUME AgentsTypes, Controllers \/ (\E c \in Creds : RowDeleted(c)) \/ UNCHANGED agentsVars
  PROVE  Holding /\ UNCHANGED <<secret, allowed, lost>> /\ agent'.wiring = agent.wiring
<1>1. agent'.wiring = agent.wiring
  <2>1. CASE Reconcile
    BY <2>1, Reconciled
  <2>2. CASE UNCHANGED agent
    BY <2>2
  <2> QED
    BY <2>1, <2>2 DEF Controllers, PodStarts, PodDrains, ServerAccepted, RowDeleted, objects, agentsVars
<1>2. UNCHANGED <<secret, allowed, lost>>
  BY DEF Controllers, Reconcile, PodStarts, PodDrains, ServerAccepted, RowDeleted, plane, crossings, agentsVars
<1>3. Accepting
  <2>1. CASE UNCHANGED server
    BY <2>1 DEF Accepting
  <2>2. ASSUME NEW w \in Governed, ServerAccepted(w) PROVE Accepting
    BY <2>2 DEF ServerAccepted, Accepting, AgentsTypes, CustodyTypes
  <2> QED
    BY <2>1, <2>2 DEF Controllers, Reconcile, PodStarts, PodDrains, RowDeleted, objects, agentsVars
<1>4. \A c \in Creds : Kept(c) => Kept(c)'
  BY <1>2 DEF Kept
<1> QED
  BY <1>1, <1>2, <1>3, <1>4 DEF Holding

\* What anybody else does leaves a command what it made sure of, or crosses it.
LEMMA IssueKept ==
  ASSUME AgentsTypes, IssueInv, NEW q \in People, Unmoved(q), Holding,
         q \in crossed => q \in crossed',
         UNCHANGED secret \/ \E p \in People : Fills(p),
         UNCHANGED row \/ (\E p \in People : Mints(p)) \/ \E c \in Creds : RowDeleted(c)
  PROVE  IssueWay(q)'
<1> SUFFICES ASSUME at[q] # "idle" PROVE IssueFacts(at[q], order[q], read[q], q \in crossed)'
  BY DEF Unmoved, IssueWay
<1>0. /\ IssueFacts(at[q], order[q], read[q], q \in crossed) /\ at'[q] = at[q] /\ order'[q] = order[q] /\ read'[q] = read[q]
      /\ order[q] # Nil
  BY DEF IssueInv, IssueWay, Unmoved, AgentsTypes, Walking
<1>1. ASSUME at[q] \in {"issue", "reconcile", "store"}, q \notin crossed', secret'[order[q].secret] # Nil
      PROVE  secret'[order[q].secret].cred = order[q].cred
  <2>1. order[q].secret \in Secrets
    BY <1>1, Guards DEF Guarded
  <2>2. CASE secret'[order[q].secret] = secret[order[q].secret]
    BY <1>0, <1>1, <2>2 DEF IssueFacts
  <2>3. ASSUME NEW p \in People, Fills(p) PROVE secret'[order[q].secret] = secret[order[q].secret]
    <3>0. at'[p] # "store"
      BY <2>3, Filled
    <3>1. p # q
      BY <1>0, <2>3, <3>0 DEF Fills
    <3>2. order[p].secret # order[q].secret
      BY <1>1, <2>3, <3>1 DEF Fills, Asked
    <3> QED
      BY <2>1, <2>3, <3>2, Filled
  <2> QED
    BY <2>2, <2>3
<1>2. ASSUME at[q] = "store", q \notin crossed' PROVE row'[order[q].cred] = read[q].token
  <2>1. /\ order[q].cred \in Creds /\ order[q].kind \in Issues /\ read[q].token # Nil
        /\ row[order[q].cred] = read[q].token /\ row \in [Creds -> Tokens \cup {Nil}]
    BY <1>0, <1>2, Guards DEF Guarded, IssueFacts, AgentsTypes, CustodyTypes
  <2>2. CASE UNCHANGED row
    BY <2>1, <2>2
  <2>3. ASSUME NEW p \in People, Mints(p) PROVE row'[order[q].cred] = read[q].token
    BY <2>1, <2>3 DEF Mints
  <2>4. ASSUME NEW c \in Creds, RowDeleted(c) PROVE row'[order[q].cred] = read[q].token
    <3>1. order[q].cred # c
      BY <1>2, <2>4 DEF RowDeleted, Asked
    <3> QED
      BY <2>1, <2>4, <3>1 DEF RowDeleted
  <2> QED
    BY <2>2, <2>3, <2>4
<1>3. ASSUME at[q] \in {"allow", "server", "accepted"}
      PROVE  Kept(order[q].cred)' /\ (at[q] \in {"server", "accepted"} => order[q].cred \in allowed')
  <2>1. PICK c \in Creds : c = order[q].cred
    BY <1>3, Guards DEF Guarded
  <2>2. Kept(c)
    BY <1>0, <1>3, <2>1 DEF IssueFacts
  <2>3. Kept(c)'
    BY <2>2 DEF Holding
  <2> QED
    BY <1>0, <1>3, <2>1, <2>3 DEF IssueFacts, Holding
<1>4. at[q] = "rewire" /\ order[q].kind = "tools" => Sound(order[q].wiring)'
  <2> SUFFICES ASSUME at[q] = "rewire", order[q].kind = "tools" PROVE Sound(order[q].wiring)'
    OBVIOUS
  <2>1. PICK w : w = order[q].wiring
    OBVIOUS
  <2>2. w \in Governed /\ Sound(w)
    BY <1>0, <2>1, Walker, Ordered DEF IssueFacts
  <2>3. Sound(w)'
    BY <2>2, SoundKept
  <2> QED
    BY <1>0, <2>1, <2>3
<1>5. at[q] \in Restores /\ order[q].kind = "up" /\ read[q].wiring \in Governed => Sound(read[q].wiring)'
  <2> SUFFICES ASSUME at[q] \in Restores, order[q].kind = "up", read[q].wiring \in Governed PROVE Sound(read[q].wiring)'
    OBVIOUS
  <2>1. PICK w : w = read[q].wiring
    OBVIOUS
  <2>2. w \in Governed /\ Sound(w)
    BY <1>0, <2>1 DEF IssueFacts
  <2>3. Sound(w)'
    BY <2>2, SoundKept
  <2> QED
    BY <1>0, <2>1, <2>3
<1> QED
  BY <1>0, <1>1, <1>2, <1>3, <1>4, <1>5 DEF IssueFacts

LEMMA IssueOn ==
  ASSUME AgentsTypes, IssueInv, SeamInv, NEW p \in People, Moves(p)
  PROVE  IssueWay(p)'
<1>0. /\ WalksOn(p) /\ CommandTypes /\ Minds(p) /\ Holding
  BY CommandsOnward, CommandsMind, MindsHolds DEF AgentsTypes
<1>a. ASSUME at'[p] \notin Guarded \cup Restores PROVE IssueWay(p)'
  BY <1>a DEF IssueWay, IssueFacts, Guarded, Restores
<1>b. ASSUME UNCHANGED order, order[p].kind \notin {"up", "tools"}, at'[p] \notin Guarded PROVE IssueWay(p)'
  BY <1>b DEF IssueWay, IssueFacts, Guarded
<1>c. ASSUME Refused(p) \/ Succeeded(p, What(p)) PROVE IssueWay(p)'
  BY <1>0, <1>c DEF Refused, Succeeded, Finish, To, CommandTypes, IssueWay
<1>w. ASSUME at[p] # "idle" PROVE IssueFacts(at[p], order[p], read[p], p \in crossed) /\ order[p] # Nil
  BY <1>w DEF IssueInv, IssueWay, AgentsTypes, Walking
\* What kmx up found and puts back.
<1>d. ASSUME at[p] \in Restores, order[p].kind = "up", UNCHANGED <<order, read>>, at'[p] \in Restores
      PROVE  IssueWay(p)'
  <2>1. at[p] \notin Guarded /\ at'[p] \notin Guarded /\ at[p] # "idle"
    BY <1>d DEF Restores, Guarded
  <2>2. PICK w : w = read[p].wiring
    OBVIOUS
  <2>3. w \in Governed => Sound(w)
    BY <1>d, <1>w, <2>1, <2>2 DEF IssueFacts
  <2>4. w \in Governed => Sound(w)'
    BY <1>0, <2>3, SoundKept
  <2>5. read'[p].wiring \in Governed => Sound(read[p].wiring)'
    BY <1>d, <2>2, <2>4
  <2> QED
    BY <1>d, <2>1, <2>5 DEF IssueWay, IssueFacts, Guarded
<1>1. CASE Own(p) \/ SecretExists(p) \/ Switch(p)
  <2>1. at'[p] \notin Guarded \cup Restores
    BY <1>0, <1>1 DEF Own, SecretExists, Switch, Refused, Finish, To, CommandTypes, Guarded, Restores
  <2> QED
    BY <1>a, <2>1
<1>2. CASE ReadBound(p)
  <2>1. CASE Refused(p)
    BY <1>c, <2>1
  <2>2. CASE Bound(p) \in {Nil, order[p].cred} /\ To(p, "issue") /\ UNCHANGED <<order, read>>
    <3>1. at'[p] = "issue" /\ UNCHANGED <<order, secret>> /\ at[p] = "bound"
      BY <1>0, <1>2, <2>2 DEF ReadBound, Step, To, CommandTypes
    <3>2. order[p].secret \in Secrets
      BY <3>1, Walker, Ordered DEF Fits, Walks
    <3>3. secret[order[p].secret] # Nil => secret[order[p].secret].cred \in Creds
      BY <3>2 DEF AgentsTypes, CustodyTypes
    <3>4. secret[order[p].secret] # Nil => secret[order[p].secret].cred = order[p].cred
      BY <2>2, <3>3, Marked DEF Bound
    <3> QED
      BY <3>1, <3>4 DEF IssueWay, IssueFacts, Restores
  <2> QED
    BY <1>2, <2>1, <2>2 DEF ReadBound
<1>3. CASE Issue(p)
  <2>1. /\ at[p] = "issue" /\ UNCHANGED <<order, secret, crossed>> /\ read[p] \in ReadRecord
        /\ row \in [Creds -> Tokens \cup {Nil}]
    BY <1>0, <1>3 DEF Issue, Step, CommandTypes, AgentsTypes, CustodyTypes, crossings
  <2>2. p \notin crossed => (secret'[order[p].secret] # Nil => secret'[order[p].secret].cred = order[p].cred)
    BY <1>w, <2>1 DEF IssueFacts
  <2>3. CASE To(p, "reconcile")
    <3>1. at'[p] = "reconcile"
      BY <1>0, <2>3 DEF To, CommandTypes
    <3> QED
      BY <2>1, <2>2, <3>1 DEF IssueWay, IssueFacts, Restores
  <2>4. CASE To(p, "store") /\ Mints(p)
    <3>1. at'[p] = "store"
      BY <1>0, <2>4 DEF To, CommandTypes
    <3>2. PICK t \in Tokens : row' = [row EXCEPT ![order[p].cred] = t] /\ Learn(p, [read[p] EXCEPT !.token = t])
      BY <2>4 DEF Mints
    <3>3. order[p].cred \in Creds
      BY <2>1, Guards DEF Guarded
    <3>4. row'[order[p].cred] = t
      BY <2>1, <3>2, <3>3
    <3>5. read'[p].token = t
      BY <1>0, <2>1, <3>2 DEF Learn, CommandTypes, ReadRecord
    <3> QED
      BY <2>1, <2>2, <3>1, <3>4, <3>5 DEF IssueWay, IssueFacts, Restores
  <2> QED
    BY <1>3, <2>3, <2>4, Minting
<1>4. CASE ReconcileExisting(p)
  <2>1. CASE Refused(p)
    BY <1>c, <2>1
  <2>2. CASE Keeps(p) /\ To(p, AfterIssue(p)) /\ UNCHANGED <<order, read>>
    <3>1. at[p] = "reconcile" /\ at'[p] \in {"allow", "switch"} /\ UNCHANGED <<order, secret>>
      BY <1>0, <1>4, <2>2 DEF ReconcileExisting, Step, To, CommandTypes, AfterIssue, keepCluster, plane
    <3>2. order[p].cred # Nil /\ order[p].secret \in Secrets
      BY <3>1, Guards DEF Guarded
    <3>3. secret[order[p].secret] # Nil /\ secret[order[p].secret].cred = order[p].cred
      BY <2>2, <3>2 DEF Keeps, Bound
    <3>4. Kept(order[p].cred)'
      BY <3>1, <3>2, <3>3 DEF Kept
    <3> QED
      BY <3>1, <3>4 DEF IssueWay, IssueFacts, Restores
  <2> QED
    BY <1>4, <2>1, <2>2 DEF ReconcileExisting
<1>5. CASE Store(p)
  <2>1. CASE Refused(p)
    BY <1>c, <2>1
  <2>2. CASE To(p, AfterIssue(p)) /\ Fills(p)
    <3>1. at'[p] \in {"allow", "switch"} /\ UNCHANGED order
      BY <1>0, <2>2 DEF To, CommandTypes, AfterIssue, Fills
    <3>2. secret'[order[p].secret] # Nil /\ secret'[order[p].secret].cred = order[p].cred
      BY <2>2, Filled
    <3>3. order[p].secret \in Secrets
      BY <2>2, Guards DEF Fills, Guarded
    <3>4. Kept(order[p].cred)'
      BY <3>1, <3>2, <3>3 DEF Kept
    <3> QED
      BY <3>1, <3>4 DEF IssueWay, IssueFacts, Restores
  <2> QED
    BY <1>5, <2>1, <2>2 DEF Store, Step, Fills
<1>6. CASE Allow(p)
  <2>1. /\ at[p] = "allow" /\ at'[p] = "server" /\ UNCHANGED <<order, secret, lost>>
        /\ order[p].cred \in allowed'
    BY <1>0, <1>6 DEF Allow, Step, To, CommandTypes, crossings
  <2>2. Kept(order[p].cred)
    BY <1>w, <2>1 DEF IssueFacts
  <2>3. Kept(order[p].cred)'
    BY <2>1, <2>2 DEF Kept
  <2> QED
    BY <2>1, <2>3 DEF IssueWay, IssueFacts, Restores
<1>7. CASE Server(p)
  <2>1. CASE Refused(p)
    BY <1>c, <2>1
  <2>2. CASE To(p, "accepted") /\ UNCHANGED <<order, read>>
    <3>1. at[p] = "server" /\ at'[p] = "accepted" /\ UNCHANGED <<order, secret, allowed, lost>>
      BY <1>0, <1>7, <2>2 DEF Server, Step, To, CommandTypes, plane, crossings
    <3>2. Kept(order[p].cred) /\ order[p].cred \in allowed
      BY <1>w, <3>1 DEF IssueFacts
    <3>3. Kept(order[p].cred)'
      BY <3>1, <3>2 DEF Kept
    <3> QED
      BY <3>1, <3>2, <3>3 DEF IssueWay, IssueFacts, Restores
  <2> QED
    BY <1>7, <2>1, <2>2 DEF Server
<1>8. CASE Accepted(p)
  <2>1. /\ at[p] = "accepted" /\ at'[p] = "rewire" /\ UNCHANGED <<order, secret, allowed, server, lost>>
        /\ server[order[p].wiring] = "accepted"
    BY <1>0, <1>8 DEF Accepted, Step, To, CommandTypes, keepCluster, objects, plane, crossings
  <2>2. Kept(order[p].cred) /\ order[p].cred \in allowed
    BY <1>w, <2>1 DEF IssueFacts
  <2>3. order[p].kind = "tools" /\ Kept(order[p].cred)'
    BY <2>1, <2>2, Walker DEF Fits, Walks, Kept
  <2>4. Sound(order[p].wiring)'
    BY <2>1, <2>2, <2>3 DEF Sound
  <2> QED
    BY <2>1, <2>3, <2>4 DEF IssueWay, IssueFacts, Restores
<1>9. CASE Rewire(p) \/ Reset(p) \/ Patch(p)
  <2>1. at[p] \in Restores /\ UNCHANGED <<order, read>>
    BY <1>9 DEF Rewire, Reset, Patch, Step, Restores
  <2>2. order[p].kind = "up" => at'[p] \in Restores
    BY <1>0, <1>9 DEF Rewire, Reset, Patch, PutsBack, To, CommandTypes, Restores
  <2>3. order[p].kind # "up" => at'[p] \notin Guarded \cup Restores
    BY <1>0, <1>9 DEF Rewire, Reset, Patch, To, CommandTypes, Guarded, Restores
  <2> QED
    BY <1>a, <1>d, <2>1, <2>2, <2>3
<1>10. CASE ReadPresetGen(p) \/ ReadAgentGen(p) \/ ReadPresetAfter(p) \/ ReadAgentAfter(p) \/ Rolled(p)
            \/ ReadGen(p) \/ Observed(p) \/ RolledOut(p) \/ ReadNewest(p) \/ ReadHash(p) \/ Ready(p) \/ Confirm(p)
            \/ ReadRevision(p)
  <2>1. at'[p] \notin Guarded \cup Restores
    BY <1>0, <1>10 DEF ReadPresetGen, ReadAgentGen, ReadPresetAfter, ReadAgentAfter, Rolled, ReadGen, Observed,
       RolledOut, ReadNewest, ReadHash, Ready, Confirm, ReadRevision, Refused, Succeeded, Finish, To, CommandTypes,
       Guarded, Restores
  <2> QED
    BY <1>a, <2>1
<1>11. CASE Apply(p)
  <2>1. CASE To(p, "idle")
    BY <1>0, <2>1 DEF To, CommandTypes, IssueWay
  <2>2. CASE To(p, "patch") /\ UNCHANGED order
    <3>1. at'[p] = "patch" /\ order[p].kind \notin {"up", "tools"}
      BY <1>0, <1>11, <2>2, Walker DEF Apply, Step, Fits, Walks, Switches, To, CommandTypes
    <3> QED
      BY <1>b, <2>2, <3>1 DEF Guarded
  <2> QED
    BY <1>11, <2>1, <2>2 DEF Apply
<1>12. CASE Single(p)
  <2>1. CASE Succeeded(p, What(p))
    BY <1>c, <2>1
  <2>2. CASE To(p, "ready") /\ UNCHANGED order
    <3>1. at'[p] = "ready" /\ order'[p].kind # "up"
      BY <1>0, <1>12, <2>2, Walker DEF Single, Step, Fits, Walks, Switches, To, CommandTypes
    <3> QED
      BY <3>1 DEF IssueWay, IssueFacts
  <2> QED
    BY <1>12, <2>1, <2>2 DEF Single
<1>13. CASE ReadLive(p)
  <2>1. /\ at'[p] = "reset" /\ UNCHANGED <<agent, server, secret, allowed, lost>>
        /\ read'[p].wiring \in {agent.wiring, "direct"}
    BY <1>0, <1>13 DEF ReadLive, To, Learn, CommandTypes, Blank, keepCluster, objects, plane, crossings
  <2>2. read'[p].wiring \in Governed => Sound(read[p].wiring)'
    BY <2>1 DEF SeamInv, Sound, Governed, Kept
  <2> QED
    BY <2>1, <2>2 DEF IssueWay, IssueFacts
<1>14. CASE Interrupted(p)
  BY <1>c, <1>14 DEF Interrupted
<1>15. ASSUME NEW d \in Orders, Give(p, d) PROVE IssueWay(p)'
  <2>1. d.kind \in Switches \cup {"up", "tools", "untools"}
    BY Ordered DEF OrderRecord, Switches
  <2>2. at'[p] = First(d.kind) /\ order'[p] = d
    BY <1>0, <1>15 DEF Give, To, CommandTypes
  <2>3. at'[p] \notin Guarded /\ at'[p] # "rewire" /\ (d.kind = "up" => at'[p] \notin Restores)
    BY <2>1, <2>2 DEF First, Switches, Guarded, Restores
  <2> QED
    BY <2>2, <2>3 DEF IssueWay, IssueFacts, Guarded
<1> QED
  BY <1>1, <1>2, <1>3, <1>4, <1>5, <1>6, <1>7, <1>8, <1>9, <1>10, <1>11, <1>12, <1>13, <1>14, <1>15
     DEF Moves, Acts

LEMMA SeamOn ==
  ASSUME AgentsTypes, IssueInv, SeamInv, NEW p \in People, Moves(p)
  PROVE  SeamInv'
<1>0. Holding
  BY CommandsMind, MindsHolds
<1>1. PICK w : w = agent'.wiring
  OBVIOUS
<1> SUFFICES ASSUME w \in Governed PROVE Sound(w)'
  BY <1>1 DEF SeamInv
<1>2. CASE w \in {agent.wiring, "direct"}
  <2>1. Sound(w)
    BY <1>2 DEF SeamInv, Governed
  <2> QED
    BY <1>0, <2>1, SoundKept
<1>3. CASE at[p] = "rewire" /\ w = Target(p)
  <2>1. IssueFacts("rewire", order[p], read[p], p \in crossed) /\ order[p].kind \in {"tools", "up"}
    BY <1>3, Walker DEF IssueInv, IssueWay, Fits, Walks
  <2>2. Sound(w)
    BY <1>3, <2>1 DEF Target, IssueFacts, Restores
  <2> QED
    BY <1>0, <2>2, SoundKept
<1> QED
  BY <1>1, <1>2, <1>3, CommandsWire

LEMMA IssueStep ==
  ASSUME AgentsTypes, IssueInv, SeamInv, [AgentsNext]_agentsVars
  PROVE  IssueInv' /\ SeamInv'
<1>1. CASE UNCHANGED agentsVars
  <2>1. UNCHANGED <<agent, server, secret, row, allowed, crossed, lost, at, order, read>>
    BY <1>1 DEF agentsVars, objects, plane, crossings, commands
  <2> QED
    BY <2>1 DEF IssueInv, IssueWay, IssueFacts, SeamInv, Sound, Kept
<1>2. ASSUME NEW p \in People, Moves(p) PROVE IssueInv' /\ SeamInv'
  <2>1. Minds(p) /\ Holding
    BY <1>2, CommandsMind, MindsHolds
  <2>2. ASSUME NEW q \in People, q # p PROVE IssueWay(q)'
    <3>1. Unmoved(q) /\ (q \in crossed => q \in crossed')
      BY <1>2, <2>1, <2>2, Elsewhere DEF Minds
    <3>2. UNCHANGED secret \/ Fills(p)
      BY <2>1 DEF Minds
    <3>3. UNCHANGED row \/ Mints(p)
      BY <2>1 DEF Minds
    <3> QED
      BY <2>1, <3>1, <3>2, <3>3, IssueKept
  <2>3. IssueWay(p)'
    BY <1>2, IssueOn
  <2> QED
    BY <1>2, <2>2, <2>3, SeamOn DEF IssueInv
<1>3. CASE Controllers \/ \E c \in Creds : RowDeleted(c)
  <2>1. Holding /\ UNCHANGED <<secret, allowed>> /\ agent'.wiring = agent.wiring /\ UNCHANGED commands
    BY <1>3, OthersHold, ControllersStep
  <2>2. UNCHANGED row \/ \E c \in Creds : RowDeleted(c)
    BY <1>3 DEF Controllers, Reconcile, PodStarts, PodDrains, ServerAccepted, plane
  <2>3. ASSUME NEW q \in People PROVE IssueWay(q)'
    <3>1. Unmoved(q)
      BY <2>1 DEF commands, Unmoved
    <3>2. q \in crossed => q \in crossed'
      BY <1>3 DEF Controllers, Reconcile, PodStarts, PodDrains, ServerAccepted, RowDeleted, plane, crossings
    <3> QED
      BY <2>1, <2>2, <3>1, <3>2, IssueKept
  <2>4. SeamInv'
    <3>1. PICK w : w = agent.wiring
      OBVIOUS
    <3>2. w \in Governed => Sound(w)
      BY <3>1 DEF SeamInv
    <3>3. w \in Governed => Sound(w)'
      BY <2>1, <3>2, SoundKept
    <3> QED
      BY <2>1, <3>1, <3>3 DEF SeamInv
  <2> QED
    BY <2>3, <2>4 DEF IssueInv
<1> QED
  BY <1>1, <1>2, <1>3 DEF AgentsNext, Moves

LEMMA IssueSafe == AgentsSpec => [](IssueInv /\ SeamInv)
<1>1. AgentsInit => IssueInv /\ SeamInv
  BY Nobody DEF IssueInv, IssueWay, SeamInv, Governed, AgentsInit
<1> QED
  BY <1>1, IssueStep, AgentsTypesSafe, PTL DEF AgentsSpec

\* An agent is never pointed at a gateway seam that is not ready for it,
\* whatever else is issued at the same time.
THEOREM SeamComesFirst == AgentsSpec => []SeamBeforeAgent
<1>1. SeamInv => SeamBeforeAgent
  BY DEF SeamInv, Sound, SeamBeforeAgent
<1> QED
  BY <1>1, IssueSafe, PTL

\* Re-applied or governed, an agent keeps its model and its gateway, and is
\* behind one only when that one answers.
THEOREM KeepsItsWiring == AgentsSpec => []WiringIsKept
<1>1. UpKeepsWiring /\ SeamBeforeAgent => WiringIsKept
  BY DEF WiringIsKept
<1> QED
  BY <1>1, UpKeeps, SeamComesFirst, PTL

\* A Secret that has its credential's token.
Custodian(s) == secret[s] # Nil /\ row[secret[s].cred] = secret[s].token
Remains(s) == secret'[s] # Nil /\ row'[secret[s].cred] = secret'[s].token /\ secret'[s].cred = secret[s].cred
Crosses(s) == \E p \in crossed : Step(p, "store") /\ at'[p] # "store" /\ order[p].secret = s /\ ~Creates(p)
KeepsToken == \A s \in Secrets : Custodian(s) => Remains(s) \/ Crosses(s)

LEMMA TokenStep ==
  ASSUME AgentsTypes, IssueInv, [AgentsNext]_agentsVars
  PROVE  KeepsToken
<1> SUFFICES ASSUME NEW s \in Secrets, Custodian(s) PROVE Remains(s) \/ Crosses(s)
  BY DEF KeepsToken
<1>0. /\ secret[s] # Nil /\ row[secret[s].cred] = secret[s].token /\ secret[s].cred \in Creds
      /\ secret[s].token # Nil /\ row \in [Creds -> Tokens \cup {Nil}]
  BY Marked DEF Custodian, AgentsTypes, CustodyTypes
<1>1. CASE UNCHANGED <<secret, row>>
  BY <1>0, <1>1 DEF Remains
<1>2. ASSUME NEW p \in People, Fills(p) PROVE Remains(s) \/ Crosses(s)
  <2>1. CASE s = order[p].secret /\ p \notin crossed
    BY <1>0, <1>2, <2>1, Filled DEF Remains
  <2>2. CASE s # order[p].secret
    BY <1>0, <1>2, <2>2, Filled DEF Fills, Remains
  <2>3. CASE s = order[p].secret /\ p \in crossed
    BY <1>0, <1>2, <2>3, Filled DEF Fills, Crosses, Step
  <2> QED
    BY <2>1, <2>2, <2>3
<1>3. ASSUME NEW p \in People, Mints(p), UNCHANGED secret PROVE Remains(s)
  <2>1. secret[s].cred # order[p].cred
    BY <1>0, <1>3 DEF Mints
  <2>2. row'[secret[s].cred] = row[secret[s].cred]
    BY <1>0, <1>3, <2>1 DEF Mints
  <2> QED
    BY <1>0, <1>3, <2>2 DEF Remains
<1>4. ASSUME NEW c \in Creds, RowDeleted(c) PROVE Remains(s)
  BY <1>0, <1>4 DEF RowDeleted, Remains
<1>5. ASSUME NEW p \in People, Moves(p) PROVE Remains(s) \/ Crosses(s)
  <2>1. Minds(p)
    BY <1>5, CommandsMind
  <2> QED
    BY <1>1, <1>2, <1>3, <2>1 DEF Minds, Fills, Mints
<1> QED
  BY <1>1, <1>4, <1>5
     DEF AgentsNext, Moves, Controllers, Reconcile, PodStarts, PodDrains, ServerAccepted, plane, agentsVars

\* The Secret has the only copy of a credential's token, and a credential whose
\* token one Secret held does not lose it, except to a command that applies its
\* own over an answer which somebody has overtaken.
THEOREM TokensAreKept == AgentsSpec => TokenIsKept
<1>1. KeepsToken =>
        [\A s \in Secrets : secret[s] # Nil /\ row[secret[s].cred] = secret[s].token =>
           \/ secret'[s] # Nil /\ row'[secret[s].cred] = secret'[s].token /\ secret'[s].cred = secret[s].cred
           \/ \E p \in crossed : /\ Step(p, "store") /\ at'[p] # "store"
                                 /\ order[p].secret = s /\ ~Creates(p)]_<<secret, row>>
  BY DEF KeepsToken, Custodian, Remains, Crosses
<1> QED
  BY <1>1, TokenStep, AgentsTypesSafe, IssueSafe, PTL DEF AgentsSpec, TokenIsKept
==============================================================================

------------------------------ MODULE MCCommands ------------------------------
(* What people do with kmx, on a small instance: Bringup, Plane and Agents. *)
EXTENDS Agents, Plane, Bringup, TLC

\* Whose commands are given, and which of them beside each other.
VARIABLES domain, family

Order(kind) == [kind |-> kind, preset |-> Nil, content |-> Nil, cred |-> Nil, secret |-> Nil, wiring |-> Nil]
Use1 == [Order("use") EXCEPT !.preset = "governed", !.content = 1]
Use2 == [Use1 EXCEPT !.content = 2]
Govern == [Order("govern") EXCEPT !.preset = "governed", !.content = 1, !.cred = "c", !.secret = "s"]
Mistaken == [Govern EXCEPT !.cred = "d"]
Interactive == [Order("interactive") EXCEPT !.preset = "governed", !.cred = "c", !.secret = "s"]
Direct == [Order("direct") EXCEPT !.preset = "ollama"]
Tools == [Order("tools") EXCEPT !.cred = "c", !.secret = "s", !.wiring = "kaimahi-tools"]
OtherTools == [Tools EXCEPT !.wiring = "other"]
MistakenTools == [Tools EXCEPT !.cred = "d"]

Up == Order("up")
MCOrders == {Use1, Use2, Govern, Mistaken, Interactive, Direct, Tools, OtherTools, MistakenTools,
             Up, Order("untools")}

Errand(kind) == [kind |-> kind, build |-> Unset, dump |-> Unset]
PlaneA == [Errand("plane") EXCEPT !.build = "a"]
PlaneB == [Errand("plane") EXCEPT !.build = "b"]
Backup == [Errand("backup") EXCEPT !.dump = "f"]
Restore == [Errand("restore") EXCEPT !.dump = "f"]
MCErrands == {PlaneA, PlaneB, Backup, Restore}

\* Those that race for one Secret, and those that race for the agent: they
\* meet in no object but the agent's wiring.
IssueFamilies == {{Interactive, Govern}, {Govern, Mistaken}, {Tools, MistakenTools}}
SwitchFamilies ==
  {{Use1, Use2}, {Use1, Up}, {Interactive, Direct}, {Govern, Up},
   {Tools, Up}, {OtherTools, Up}, {OtherTools, Order("untools")}}
AgentFamilies == IssueFamilies \cup SwitchFamilies
\* What one of the two gives, and the other.
PlaneFamilies == {<<{PlaneA}, {PlaneB}>>, <<{PlaneA, Restore}, {Backup, Restore}>>}
\* On which engine.
BringupFamilies == {<<{"up"}, {"quickstart", "down"}, "podman">>, <<{"up", "cluster"}, {"tools-agent"}, "docker">>,
                    <<{"ollama", "agent"}, {"model", "kagent", "cluster"}, "docker">>}
One(set) == CHOOSE x \in set : TRUE
Mine(x, set) == IF x = One(set) THEN family[1] ELSE family[2]

\* A bound: the first go as far as the switch or the rewired agent, and of
\* the others one issues, and one ungoverns, at a time.
BeforeSwitch ==
  {"idle", "own", "exists", "bound", "issue", "reconcile", "store", "allow", "server", "accepted",
   "rewire", "switch", "gen"}
Doing(p, kinds) == order'[p] # Nil /\ order'[p].kind \in kinds
Brief ==
  IF family \in IssueFamilies THEN \A p \in People : at'[p] \in BeforeSwitch
  ELSE \A kinds \in {Issues, {"direct"}}, p, q \in People : Doing(p, kinds) /\ Doing(q, kinds) => p = q

AgentsStep ==
  /\ AgentsNext /\ Brief
  /\ \A p \in People : order'[p] \in family \cup {Nil}
PlaneStep ==
  /\ PlaneNext
  /\ \A c \in Crew : errand'[c] \in Mine(c, Crew) \cup {Unset}
BringupStep ==
  /\ BringupNext
  /\ \A h \in Hands : chore'[h] \in Mine(h, Hands) \cup {NoChore}

\* One of the three at a time.
AnAgent == CHOOSE a \in [name : {"hello-world"}, gen : {0}, preset : {Keyless}, wiring : {"direct"}, seen : {0}] : TRUE
MCInit ==
  /\ AgentsInit /\ PlaneInit /\ BringupInit
  /\ \/ domain = "agents" /\ family \in AgentFamilies
     \/ domain = "plane" /\ family \in PlaneFamilies
     \/ domain = "bringup" /\ family \in BringupFamilies /\ engine = family[3]
  /\ conf[Keyless].content = 1
  /\ domain # "agents" => agent = AnAgent
  \* Only these two commands tell the agents apart.
  /\ domain = "agents" /\ {Up, Order("untools")} \cap family = {} => agent.name = "hello-world"
  /\ domain # "plane" => dumps = [d \in Dumps |-> Unset]
  /\ domain # "bringup" => engine = "docker"
MCNext ==
  /\ UNCHANGED <<domain, family>>
  /\ \/ domain = "agents" /\ AgentsStep /\ UNCHANGED <<planeVars, bringupVars>>
     \/ domain = "plane" /\ PlaneStep /\ UNCHANGED <<agentsVars, bringupVars>>
     \/ domain = "bringup" /\ BringupStep /\ UNCHANGED <<agentsVars, planeVars>>
MCSpec == MCInit /\ [][MCNext]_<<agentsVars, planeVars, bringupVars, domain, family>>
Symmetric == Permutations(People) \cup Permutations(Slots)
=============================================================================

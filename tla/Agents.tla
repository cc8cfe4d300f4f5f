------------------------------- MODULE Agents -------------------------------
(***************************************************************************)
(* The kmx commands that point an agent at a model and at its tools:       *)
(* kmx up (kmx/app/up.go), kmx use and the switch it waits for (use.go),   *)
(* kmx govern and the interactive govern and ungovern (govern.go), kmx     *)
(* tools govern and ungovern (tools.go), against what they find in the     *)
(* cluster: the Agent and its ModelConfigs, which kagent turns into a      *)
(* Deployment in its own time, the Secrets and the plane's credentials.    *)
(*                                                                         *)
(* Several people run commands at once.  Nothing is locked, every kubectl  *)
(* call is a step of its own, and a command may stop at any of them: the   *)
(* call failed, a wait timed out, or somebody pressed ^C.                  *)
(*                                                                         *)
(* One agent is modelled, either of the two that kmx carries.  The pods    *)
(* are told apart by the template they run.                                *)
(***************************************************************************)
EXTENDS Naturals, Sequences

CONSTANTS
  People,
  Presets, Keyless,  \* the ModelConfigs, and the committed agents' own, which
                     \* is no preset that a command switches to
  Contents,          \* what a ModelConfig may say, its name apart
  Creds, Secrets, Tokens,
  Orders,            \* the commands people may give, a set of OrderRecord
  MaxGen, MaxRevision, \* bounds on writes of one object, on Deployment revisions
  Nil

Wirings == {"direct", "kaimahi-tools", "other"}

\* The tool wirings that pass through the plane's gateway.
Governed == Wirings \ {"direct"}

\* content, of a preset whose manifest kmx carries.  secret and cred of a
\* command that issues one.  wiring: the server kmx tools govern names.
OrderRecord == [kind : {"up", "use", "govern", "interactive", "direct", "tools", "untools"},
                preset : Presets \cup {Nil}, content : Contents \cup {Nil},
                cred : Creds \cup {Nil}, secret : Secrets \cup {Nil}, wiring : Governed \cup {Nil}]

Switches == {"use", "govern", "interactive", "direct"}
Issues == {"govern", "interactive", "tools"}

ASSUME AgentsAssumption ==
  /\ Keyless \in Presets /\ Orders \subseteq OrderRecord
  /\ \A d \in Orders :
       /\ d.kind \in Switches => d.preset \notin {Nil, Keyless}
       /\ d.kind \in {"use", "govern"} => d.content # Nil
       /\ d.kind \in Issues => d.cred # Nil /\ d.secret # Nil
       /\ d.kind = "tools" <=> d.wiring # Nil
  /\ MaxGen \in Nat \ {0} /\ MaxRevision \in Nat \ {0}
  /\ Nil \notin Presets /\ Nil \notin Contents /\ Nil \notin Creds /\ Nil \notin Tokens
  /\ Nil \notin Orders /\ Nil \notin [cred : Creds, token : Tokens]

Template == [preset : Presets, content : Contents, wiring : Wirings]

VARIABLES
  agent,    \* the Agent: [name, gen, preset, wiring, seen], gen = 0 when absent
  conf,     \* the ModelConfigs: [gen, content]
  rolled,   \* the template of each revision of the Deployment
  pods,     \* the templates that have a pod
  server,   \* the RemoteMCPServer of each governed wiring
  secret,   \* [cred, token] or Nil
  row,      \* the token of each credential in the plane, or Nil
  allowed,  \* the credentials whose allowlist is set
  crossed,  \* who asked whose token a Secret holds before somebody else filled
            \* it, or before the row of their credential was deleted (history)
  lost,     \* the credentials whose Secret one of those overwrote (history)
  at, order, \* where everybody's command is
  read,     \* what it has read so far
  settled,  \* the deployment ran what it should when the switch began (history)
  ended     \* what a command that succeeded left, until somebody undid it (history)

objects == <<agent, conf, server>>
deployment == <<rolled, pods>>
crossings == <<crossed, lost>>
plane == <<secret, row, allowed, crossings>>
commands == <<at, order, read, settled, ended>>
agentsVars == <<objects, deployment, plane, commands>>

Stops ==
  {"idle", "own", "exists", "bound", "issue", "reconcile", "store", "allow", "server", "accepted",
   "switch", "apply", "presetGen", "agentGen", "revision", "patch", "presetAfter", "agentAfter",
   "rolled", "live", "reset", "rewire", "gen", "observed", "rollout", "newest", "hash", "single",
   "ready", "confirm"}

\* presetGen, agentGen and revision before the switch, gen and hash for its
\* waits, the content and the Secret of an interactive one, the token issued,
\* and the wiring kmx up found.
Blank == [presetGen |-> 0, agentGen |-> 0, revision |-> 0, rolls |-> FALSE, gen |-> 0, hash |-> Nil,
          content |-> Nil, exists |-> FALSE, token |-> Nil, preset |-> Nil, wiring |-> Nil]

-----------------------------------------------------------------------------
(* kagent and Kubernetes. *)

Here == agent.gen > 0
Newest == Len(rolled)
Serving == IF Newest = 0 THEN {} ELSE {rolled[Newest]}
Wanted == [preset |-> agent.preset, content |-> conf[agent.preset].content, wiring |-> agent.wiring]

\* kagent renders the agent and its ModelConfig into the Deployment; a
\* template the Deployment had before gets its ReplicaSet back.
Reconcile ==
  /\ Here /\ conf[agent.preset].gen > 0
  /\ agent.seen # agent.gen \/ Serving # {Wanted}
  /\ agent' = [agent EXCEPT !.seen = agent.gen]
  /\ IF Serving = {Wanted} THEN UNCHANGED rolled
     ELSE Newest < MaxRevision /\ rolled' = Append(rolled, Wanted)
  /\ UNCHANGED <<conf, server, pods, plane, commands>>

PodStarts ==
  /\ Serving # {} /\ ~ Serving \subseteq pods
  /\ pods' = pods \cup Serving
  /\ UNCHANGED <<objects, rolled, plane, commands>>

\* The old pods go once the new one is up.
PodDrains(t) ==
  /\ Serving \subseteq pods /\ t \in pods \ Serving
  /\ pods' = pods \ {t}
  /\ UNCHANGED <<objects, rolled, plane, commands>>

ServerAccepted(w) ==
  /\ server[w] = "applied" /\ server' = [server EXCEPT ![w] = "accepted"]
  /\ UNCHANGED <<agent, conf, deployment, plane, commands>>

\* A write of person p that changed an object takes back what others were told.
Wrote(p, void) ==
  /\ settled' = [q \in People |-> settled[q] /\ q = p]
  /\ ended' = [q \in People |-> IF ended[q] = Nil \/ void THEN Nil ELSE [ended[q] EXCEPT !.exact = FALSE]]
keepHistory == UNCHANGED <<settled, ended>>

\* A write that changes nothing keeps the generation.
Wire(p, preset, wiring) ==
  LET new == [agent EXCEPT !.preset = preset, !.wiring = wiring]
  IN \/ Here /\ new = agent /\ UNCHANGED agent /\ keepHistory
     \/ /\ ~Here \/ new # agent
        /\ agent.gen < MaxGen
        /\ agent' = [new EXCEPT !.gen = @ + 1]
        /\ Wrote(p, TRUE)

Configure(p, name, content) ==
  \/ conf[name].content = content /\ UNCHANGED conf /\ keepHistory
  \/ /\ conf[name].content # content
     /\ conf[name].gen < MaxGen
     /\ conf' = [conf EXCEPT ![name] = [gen |-> @.gen + 1, content |-> content]]
     /\ Wrote(p, FALSE)

-----------------------------------------------------------------------------
(* One command of each person. *)

To(p, stop) == at' = [at EXCEPT ![p] = stop]
Learn(p, what) == read' = [read EXCEPT ![p] = what]

Finish(p) ==
  /\ To(p, "idle") /\ Learn(p, Blank)
  /\ order' = [order EXCEPT ![p] = Nil]
  /\ settled' = [settled EXCEPT ![p] = FALSE]

Refused(p) == Finish(p) /\ UNCHANGED ended

Succeeded(p, what) == Finish(p) /\ ended' = [ended EXCEPT ![p] = what]

Step(p, from) == at[p] = from
keepCluster == UNCHANGED <<objects, deployment, plane>>

First(kind) ==
  CASE kind = "up" -> "live" [] kind = "use" -> "presetGen" [] kind \in {"govern", "tools"} -> "bound"
    [] kind \in {"interactive", "direct"} -> "own" [] kind = "untools" -> "reset"

\* kmx tools ungovern restores the committed tools agent and no other.
Give(p, d) ==
  /\ Step(p, "idle")
  /\ d.kind = "untools" => agent.name = "hello-tools"
  /\ order' = [order EXCEPT ![p] = d]
  /\ To(p, First(d.kind))
  /\ ended' = [ended EXCEPT ![p] = Nil]
  /\ UNCHANGED <<objects, deployment, plane, read, settled>>

\* A call failed, a wait timed out or the process died: nothing is undone.
Interrupted(p) ==
  /\ at[p] # "idle"
  /\ Refused(p)
  /\ keepCluster

-----------------------------------------------------------------------------
(* issueCredential: whose token the Secret holds is read before the plane is *)
(* asked for a new one, which it shows exactly once.                          *)

\* activeModelName, and the ownership of what is about to be replaced.
Own(p) ==
  /\ Step(p, "own")
  /\ keepCluster
  /\ \/ /\ Here /\ conf[agent.preset].gen > 0
        /\ To(p, IF order[p].kind = "direct" THEN "presetGen" ELSE "exists")
        /\ Learn(p, [Blank EXCEPT !.content = conf[agent.preset].content])
        /\ UNCHANGED order /\ keepHistory
     \/ ~(Here /\ conf[agent.preset].gen > 0) /\ Refused(p)

SecretExists(p) ==
  /\ Step(p, "exists") /\ order[p].kind = "interactive"
  /\ To(p, "bound")
  /\ Learn(p, [read[p] EXCEPT !.exists = secret[order[p].secret] # Nil])
  /\ UNCHANGED order /\ keepCluster /\ keepHistory

\* Fault: whose token it is is not asked.
BoundToNobody(p) == Nil

Bound(p) == IF secret[order[p].secret] = Nil THEN Nil ELSE secret[order[p].secret].cred

\* A Secret with another credential's token is left alone.
ReadBound(p) ==
  /\ Step(p, "bound")
  /\ UNCHANGED <<objects, deployment, secret, row, allowed, lost>> /\ crossed' = crossed \ {p}
  /\ \/ Bound(p) \in {Nil, order[p].cred} /\ To(p, "issue") /\ UNCHANGED <<order, read>> /\ keepHistory
     \/ Bound(p) \notin {Nil, order[p].cred} /\ Refused(p)

InUse == {row[c] : c \in Creds} \cup {read[p].token : p \in People}
         \cup {secret[s].token : s \in {s \in Secrets : secret[s] # Nil}}

Issue(p) ==
  /\ Step(p, "issue")
  /\ UNCHANGED <<order, objects, deployment, secret, allowed, crossings>> /\ keepHistory
  /\ \/ row[order[p].cred] # Nil /\ To(p, "reconcile") /\ UNCHANGED <<read, row>>
     \/ /\ row[order[p].cred] = Nil /\ Tokens \ InUse # {}
        /\ LET token == CHOOSE t \in Tokens : t \notin InUse
           IN /\ row' = [row EXCEPT ![order[p].cred] = token]
              /\ Learn(p, [read[p] EXCEPT !.token = token])
        /\ To(p, "store")

AfterIssue(p) == IF order[p].kind = "tools" THEN "allow" ELSE "switch"

\* The token of a credential that exists cannot be had again.
Keeps(p) == Bound(p) = order[p].cred

ReconcileExisting(p) ==
  /\ Step(p, "reconcile")
  /\ keepCluster
  /\ \/ Keeps(p) /\ To(p, AfterIssue(p)) /\ UNCHANGED <<order, read>> /\ keepHistory
     \/ ~Keeps(p) /\ Refused(p)

\* Who has an answer about a Secret, and has yet to act on it.
Asked == {p \in People : at[p] \in {"issue", "reconcile", "store"}}

\* An interactive command that saw no Secret creates it, and fails when there
\* is one by now; the others apply, over whatever is there by now.
Creates(p) == order[p].kind = "interactive" /\ ~read[p].exists

Store(p) ==
  LET s == order[p].secret
  IN /\ Step(p, "store")
     /\ UNCHANGED <<objects, deployment, row, allowed>>
     /\ \/ /\ Creates(p) => secret[s] = Nil
           /\ secret' = [secret EXCEPT ![s] = [cred |-> order[p].cred, token |-> read[p].token]]
           /\ crossed' = crossed \cup {q \in Asked \ {p} : order[q].secret = s}
           /\ lost' = IF p \in crossed /\ secret[s] # Nil THEN lost \cup {secret[s].cred} ELSE lost
           /\ To(p, AfterIssue(p))
           /\ Learn(p, [read[p] EXCEPT !.token = Nil])
           /\ UNCHANGED order /\ keepHistory
        \/ Creates(p) /\ secret[s] # Nil /\ UNCHANGED <<secret, crossings>> /\ Refused(p)

\* The refusal's advice: delete the row and run the command again.
RowDeleted(c) ==
  /\ row[c] # Nil
  /\ \A s \in Secrets : secret[s] # Nil => secret[s].cred # c
  /\ row' = [row EXCEPT ![c] = Nil]
  /\ crossed' = crossed \cup {q \in Asked : order[q].cred = c}
  /\ UNCHANGED <<objects, deployment, secret, allowed, lost, commands>>

-----------------------------------------------------------------------------
(* kmx tools govern: the credential, its allowlist, the seam, then the agent. *)

Allow(p) ==
  /\ Step(p, "allow") /\ To(p, "server")
  /\ allowed' = allowed \cup {order[p].cred}
  /\ UNCHANGED <<order, read, objects, deployment, secret, row, crossings>> /\ keepHistory

\* The committed seam is applied; another is the operator's file.
Server(p) ==
  LET w == order[p].wiring
  IN /\ Step(p, "server")
     /\ UNCHANGED <<agent, conf, deployment, plane>>
     /\ \/ /\ w = "kaimahi-tools" \/ server[w] # "none"
           /\ server' = IF server[w] = "none" THEN [server EXCEPT ![w] = "applied"] ELSE server
           /\ To(p, "accepted") /\ UNCHANGED <<order, read>> /\ keepHistory
        \/ w # "kaimahi-tools" /\ server[w] = "none" /\ UNCHANGED server /\ Refused(p)

\* Fault: the agent is repointed whatever the server's state.
AcceptedOrNot(p) ==
  /\ Step(p, "accepted") /\ To(p, "rewire")
  /\ UNCHANGED <<order, read>> /\ keepCluster /\ keepHistory

Accepted(p) ==
  /\ Step(p, "accepted") /\ server[order[p].wiring] = "accepted" /\ To(p, "rewire")
  /\ UNCHANGED <<order, read>> /\ keepCluster /\ keepHistory

\* patchAgentTools, and kmx up putting a gateway wiring back.
Rewire(p) ==
  /\ Step(p, "rewire") /\ Here
  /\ Wire(p, agent.preset, IF order[p].kind = "up" THEN read[p].wiring ELSE order[p].wiring)
  /\ To(p, IF order[p].kind = "up" THEN "ready" ELSE "gen")
  /\ UNCHANGED <<order, read, conf, server, deployment, plane>>

\* What a command that preserves the agent has to put back.
PutsBack(p) ==
  CASE read[p].preset # Keyless -> "patch"
    [] read[p].preset = Keyless /\ read[p].wiring = "kaimahi-tools" -> "rewire"
    [] OTHER -> "ready"

\* The committed agent is applied.  Only the tools agent's manifest says
\* which tools; kmx tools ungovern wants all of it, its model included.
\* hello-world's carries the ModelConfig Keyless too, and nothing else writes
\* that one: it stays as it is.
Reset(p) ==
  /\ Step(p, "reset")
  /\ Wire(p, Keyless, IF agent.name = "hello-tools" THEN "direct" ELSE agent.wiring)
  /\ To(p, IF order[p].kind = "up" THEN PutsBack(p) ELSE "gen")
  /\ UNCHANGED <<order, read, conf, server, deployment, plane>>

-----------------------------------------------------------------------------
(* usePreset and waitSwitched.  Every wait compares with what was read       *)
(* before the manifests were applied.                                         *)

\* Govern: an agent that is not there yet is not switched.
Switch(p) ==
  /\ Step(p, "switch")
  /\ To(p, IF Here \/ order[p].kind = "interactive" THEN "presetGen" ELSE "apply")
  /\ UNCHANGED <<order, read>> /\ keepCluster /\ keepHistory

ReadPresetGen(p) ==
  /\ Step(p, "presetGen") /\ To(p, "agentGen")
  /\ Learn(p, [read[p] EXCEPT !.presetGen = conf[order[p].preset].gen])
  /\ UNCHANGED order /\ keepCluster /\ keepHistory

Quiet == agent.seen = agent.gen /\ Serving = {Wanted} /\ pods = Serving

ReadAgentGen(p) ==
  /\ Step(p, "agentGen")
  /\ keepCluster
  /\ \/ /\ Here /\ To(p, "revision")
        /\ Learn(p, [read[p] EXCEPT !.agentGen = agent.gen])
        /\ settled' = [settled EXCEPT ![p] = Quiet]
        /\ UNCHANGED <<order, ended>>
     \/ ~Here /\ Refused(p)

ReadRevision(p) ==
  /\ Step(p, "revision") /\ To(p, "apply")
  /\ Learn(p, [read[p] EXCEPT !.revision = Newest])
  /\ UNCHANGED order /\ keepCluster /\ keepHistory

\* The manifests, inside the window that the generations are compared over.
Apply(p) ==
  /\ Step(p, "apply")
  /\ Configure(p, order[p].preset, IF order[p].content # Nil THEN order[p].content ELSE read[p].content)
  /\ IF read[p].agentGen > 0 THEN To(p, "patch") /\ UNCHANGED <<order, read>>
     ELSE To(p, "idle") /\ Learn(p, Blank) /\ order' = [order EXCEPT ![p] = Nil]
  /\ UNCHANGED <<agent, server, deployment, plane>>

\* patchModelConfig, of a switch and of kmx up preserving one.
Patch(p) ==
  /\ Step(p, "patch") /\ Here
  /\ Wire(p, IF order[p].kind = "up" THEN read[p].preset ELSE order[p].preset, agent.wiring)
  /\ To(p, CASE order[p].kind # "up" -> "presetAfter"
             [] order[p].kind = "up" /\ read[p].wiring = "kaimahi-tools" -> "rewire"
             [] OTHER -> "ready")
  /\ UNCHANGED <<order, read, conf, server, deployment, plane>>

ReadPresetAfter(p) ==
  /\ Step(p, "presetAfter") /\ To(p, "agentAfter")
  /\ Learn(p, [read[p] EXCEPT !.presetGen = 0, !.rolls = conf[order[p].preset].gen # read[p].presetGen])
  /\ UNCHANGED order /\ keepCluster /\ keepHistory

\* A preset that changed while the agent was on it moves no generation of the
\* agent's, and yet the pods must roll.
ReadAgentAfter(p) ==
  /\ Step(p, "agentAfter") /\ Here
  /\ To(p, IF agent.gen = read[p].agentGen /\ read[p].rolls THEN "rolled" ELSE "gen")
  /\ Learn(p, [read[p] EXCEPT !.agentGen = 0, !.rolls = FALSE])
  /\ UNCHANGED order /\ keepCluster /\ keepHistory

Rolled(p) ==
  /\ Step(p, "rolled") /\ Newest > read[p].revision /\ To(p, "gen")
  /\ Learn(p, [read[p] EXCEPT !.revision = 0])
  /\ UNCHANGED order /\ keepCluster /\ keepHistory

ReadGen(p) ==
  /\ Step(p, "gen") /\ Here /\ To(p, "observed")
  /\ Learn(p, [Blank EXCEPT !.gen = agent.gen, !.preset = read[p].preset, !.wiring = read[p].wiring])
  /\ UNCHANGED order /\ keepCluster /\ keepHistory

Observed(p) ==
  /\ Step(p, "observed") /\ agent.seen = read[p].gen /\ To(p, "rollout")
  /\ UNCHANGED <<order, read>> /\ keepCluster /\ keepHistory

\* The new pod is up; the old ones may still be going.
RolledOut(p) ==
  /\ Step(p, "rollout") /\ Serving # {} /\ Serving \subseteq pods /\ To(p, "newest")
  /\ UNCHANGED <<order, read>> /\ keepCluster /\ keepHistory

ReadNewest(p) ==
  /\ Step(p, "newest") /\ To(p, "hash")
  /\ Learn(p, [read[p] EXCEPT !.revision = Newest])
  /\ UNCHANGED order /\ keepCluster /\ keepHistory

\* A ReplicaSet carries the last revision its template had.
HasReplicaSet(r) == r \in DOMAIN rolled /\ \A q \in DOMAIN rolled : q > r => rolled[q] # rolled[r]

ReadHash(p) ==
  /\ Step(p, "hash")
  /\ keepCluster
  /\ \/ /\ HasReplicaSet(read[p].revision) /\ To(p, "single")
        /\ Learn(p, [read[p] EXCEPT !.hash = rolled[read[p].revision], !.revision = 0])
        /\ UNCHANGED order /\ keepHistory
     \/ ~HasReplicaSet(read[p].revision) /\ Refused(p)

What(p) == [kind |-> order[p].kind, preset |-> order[p].preset, gen |-> read[p].gen, exact |-> settled[p],
            found |-> [preset |-> read[p].preset, wiring |-> read[p].wiring]]

\* Fault: a rollout is as good as its one pod.
SingleOrNot(p) ==
  /\ Step(p, "single")
  /\ To(p, "ready") /\ UNCHANGED <<order, read>> /\ keepHistory
  /\ keepCluster

\* Exactly one pod, and on the new template.
Single(p) ==
  /\ Step(p, "single") /\ pods = {read[p].hash}
  /\ keepCluster
  /\ IF order[p].kind = "untools" THEN Succeeded(p, What(p))
     ELSE To(p, "ready") /\ UNCHANGED <<order, read>> /\ keepHistory

Ready(p) ==
  /\ Step(p, "ready") /\ pods # {}
  /\ keepCluster
  /\ IF order[p].kind \in Switches THEN To(p, "confirm") /\ UNCHANGED <<order, read>> /\ keepHistory
     ELSE Succeeded(p, What(p))

Confirm(p) ==
  /\ Step(p, "confirm")
  /\ keepCluster
  /\ IF agent.preset = order[p].preset THEN Succeeded(p, What(p)) ELSE Refused(p)

-----------------------------------------------------------------------------
(* kmx up: the committed manifest resets the agent, so what was live is read *)
(* first and put back.                                                        *)

\* hello-world's tools are not in its manifest, and not read.
ReadLive(p) ==
  /\ Step(p, "live") /\ To(p, "reset")
  /\ Learn(p, [Blank EXCEPT !.preset = IF Here THEN agent.preset ELSE Keyless,
                            !.wiring = IF Here /\ agent.name = "hello-tools" THEN agent.wiring ELSE "direct"])
  /\ settled' = [settled EXCEPT ![p] = TRUE]
  /\ UNCHANGED <<order, ended>> /\ keepCluster

-----------------------------------------------------------------------------

\* The agent may be new, or what an earlier command left of it.
AgentsInit ==
  /\ agent \in {[name |-> n, gen |-> g, preset |-> Keyless, wiring |-> "direct", seen |-> g] :
                  n \in {"hello-world", "hello-tools"}, g \in {0, 1}}
  /\ \E c \in Contents : conf = [m \in Presets |-> IF m = Keyless THEN [gen |-> 1, content |-> c]
                                                   ELSE [gen |-> 0, content |-> Nil]]
  /\ rolled = IF Here THEN <<Wanted>> ELSE <<>>
  /\ pods = Serving
  /\ server = [w \in Governed |-> IF w = "kaimahi-tools" THEN "none" ELSE "accepted"]
  /\ secret = [s \in Secrets |-> Nil] /\ row = [c \in Creds |-> Nil] /\ allowed = {}
  /\ crossed = {} /\ lost = {}
  /\ at = [p \in People |-> "idle"] /\ order = [p \in People |-> Nil]
  /\ read = [p \in People |-> Blank]
  /\ settled = [p \in People |-> FALSE] /\ ended = [p \in People |-> Nil]

Controllers ==
  \/ Reconcile \/ PodStarts
  \/ \E t \in pods : PodDrains(t)
  \/ \E w \in Governed : ServerAccepted(w)

Acts(p) ==
  \/ Own(p) \/ SecretExists(p) \/ ReadBound(p) \/ Issue(p) \/ ReconcileExisting(p) \/ Store(p)
  \/ Allow(p) \/ Server(p) \/ Accepted(p) \/ Rewire(p) \/ Reset(p) \/ Switch(p)
  \/ ReadPresetGen(p) \/ ReadAgentGen(p) \/ ReadRevision(p) \/ Apply(p) \/ Patch(p)
  \/ ReadPresetAfter(p) \/ ReadAgentAfter(p) \/ Rolled(p)
  \/ ReadGen(p) \/ Observed(p) \/ RolledOut(p) \/ ReadNewest(p) \/ ReadHash(p) \/ Single(p)
  \/ Ready(p) \/ Confirm(p) \/ ReadLive(p)

AgentsNext ==
  \/ Controllers
  \/ \E p \in People : Acts(p) \/ Interrupted(p) \/ \E d \in Orders : Give(p, d)
  \/ \E c \in Creds : RowDeleted(c)

AgentsSpec == AgentsInit /\ [][AgentsNext]_agentsVars

-----------------------------------------------------------------------------
(* What is checked. *)

\* Types, and what a command has read by the step it is at.
AgentsTypeOK ==
  /\ agent \in [name : {"hello-world", "hello-tools"}, gen : 0..MaxGen, preset : Presets,
                wiring : Wirings, seen : 0..MaxGen]
  /\ conf \in [Presets -> [gen : 0..MaxGen, content : Contents \cup {Nil}]]
  /\ rolled \in Seq(Template) /\ Newest <= MaxRevision /\ pods \subseteq Template
  /\ server \in [Governed -> {"none", "applied", "accepted"}]
  /\ secret \in [Secrets -> [cred : Creds, token : Tokens] \cup {Nil}]
  /\ row \in [Creds -> Tokens \cup {Nil}] /\ allowed \subseteq Creds
  /\ crossed \subseteq People /\ lost \subseteq Creds
  /\ at \in [People -> Stops] /\ order \in [People -> Orders \cup {Nil}]
  /\ \A p \in People :
       /\ (at[p] = "idle") <=> (order[p] = Nil)
       /\ (at[p] = "store") <=> (read[p].token # Nil)
       /\ (at[p] = "single") => read[p].hash \in Template
  /\ settled \in [People -> BOOLEAN]

\* use.go:17-45: when a switch reports success and the agent is still what it
\* waited for, every pod that can answer runs the preset asked for.
SwitchedServes ==
  \A p \in People :
    LET e == ended[p]
    IN e # Nil => (e.kind \in Switches /\ e.gen = agent.gen =>
                     pods # {} /\ \A t \in pods : t.preset = e.preset)

\* use.go:80-109: a switch that began on a deployment at rest, with nobody else
\* writing, leaves the one pod on the preset's new content even when the agent
\* itself did not change.
ContentServed ==
  \A p \in People : ended[p] # Nil => (ended[p].kind \in Switches /\ ended[p].exact => pods = {Wanted})

\* What a switch reports, the pods do, by whichever way it was reported
\* (use.go:80-109 and 195-231).
SwitchReachesPods == SwitchedServes /\ ContentServed

\* up.go:472-479: kmx up that nobody interfered with leaves the agent on the
\* model it found, and behind the committed gateway if it was.
UpKeepsWiring ==
  \A p \in People :
    LET e == ended[p]
    IN e # Nil => (e.kind = "up" /\ e.exact =>
                     /\ agent.preset = e.found.preset
                     /\ e.found.wiring = "kaimahi-tools" => agent.wiring = "kaimahi-tools")

\* The same for every tool wiring behind the gateway (up.go:477).
UpNeverUngoverns ==
  \A p \in People :
    LET e == ended[p]
    IN e # Nil => (e.kind = "up" /\ e.exact /\ e.found.wiring \in Governed => agent.wiring \in Governed)

\* govern.go:281-286: the Secret has the only copy of a credential's token, and
\* a credential whose token one Secret held does not lose it, except to a
\* command that applies its own over an answer which somebody has overtaken:
\* the question of govern.go:184-189 and the apply are two calls.
TokenIsKept ==
  [][\A s \in Secrets : secret[s] # Nil /\ row[secret[s].cred] = secret[s].token =>
       \/ secret'[s] # Nil /\ row'[secret[s].cred] = secret'[s].token /\ secret'[s].cred = secret[s].cred
       \/ \E p \in crossed : /\ Step(p, "store") /\ at'[p] # "store"
                             /\ order[p].secret = s /\ ~Creates(p)]_<<secret, row>>

\* A Secret holds the credential's token, or held it until a crossed command.
Kept(c) == c \in lost \/ \E s \in Secrets : secret[s] # Nil /\ secret[s].cred = c

\* tools.go:115-123: an agent is never pointed at a gateway seam that is not
\* ready for it: the server accepted, and a credential whose allowlist is set
\* and whose token was put in a Secret, and is there if nobody crossed it.
SeamBeforeAgent ==
  agent.wiring \in Governed =>
    server[agent.wiring] = "accepted" /\ \E c \in allowed : Kept(c)

\* Re-applied or governed, an agent keeps its model and its gateway, and is
\* behind one only when that one answers (up.go:472-479, tools.go:115-123).
WiringIsKept == UpKeepsWiring /\ SeamBeforeAgent
=============================================================================

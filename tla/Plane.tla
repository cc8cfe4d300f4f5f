------------------------------- MODULE Plane -------------------------------
(***************************************************************************)
(* The kmx commands that deploy the governance plane and replace its       *)
(* database: kmx plane (kmx/app/plane.go), kmx backup and kmx restore      *)
(* (kmx/app/backup.go), against the proxy's Deployment, the image its tag  *)
(* stands for, the Secrets the plane generates and the database they open. *)
(*                                                                         *)
(* Several people run them.  A command's call may fail, which kmx restore  *)
(* answers by scaling the proxies back, or the command may be killed,      *)
(* which nothing answers.                                                  *)
(*                                                                         *)
(* The image tag is always PlaneImage: what differs is what was built      *)
(* under it.  A database and a dump are told apart by a version.  psql is  *)
(* taken to commit a whole file or nothing.                                *)
(***************************************************************************)
EXTENDS Naturals, FiniteSets

CONSTANTS
  Crew,
  Slots,        \* places for proxy pods
  Replicas,     \* of the committed proxy Deployment
  Builds,       \* the sources a plane image is built from
  Dumps,        \* the files a backup may be in
  Errands,      \* the commands people may give, a set of ErrandRecord
  LastVersion, LastRestart, \* bounds on changes of the database, on restarts
  Unset

\* The Secrets the plane generates for itself.
Generated == {"kaimahi-pg", "kaimahi-admin"}

ErrandRecord == [kind : {"plane", "backup", "restore"}, build : Builds \cup {Unset}, dump : Dumps \cup {Unset}]

ASSUME PlaneAssumption ==
  /\ Replicas \in Nat \ {0} /\ Replicas <= Cardinality(Slots)
  /\ Errands \subseteq ErrandRecord
  /\ \A e \in Errands : IF e.kind = "plane" THEN e.build # Unset ELSE e.dump # Unset
  /\ LastVersion \in Nat /\ LastRestart \in Nat /\ IsFiniteSet(Slots)
  /\ Unset \notin Builds \cup [replicas : Nat, revision : Nat] \cup [revision : Nat, build : Builds, leaving : BOOLEAN]

VARIABLES
  tagged,   \* what PlaneImage is on the machine
  loaded,   \* and on the cluster's nodes
  generated, \* the value of each generated Secret, or Unset
  volume,   \* the password the database was initialised with, or Unset
  proxy,    \* the Deployment: [replicas, revision], or Unset
  proxies,  \* the pod in each slot, [revision, build, leaving], or Unset
  database, \* its version
  dumps,    \* [version, whole] of each file, or Unset
  stage, errand, \* where everybody's command is
  noted,    \* what it has noted: the replicas, the dump, the build
  meddled,  \* somebody else deployed, scaled or built since it began (history)
  mishap,   \* a restore was killed, could not scale back, lost the reply of its
            \* scaling down or found no proxy (history)
  told      \* the errand that ended in success, until another command (history)

images == <<tagged, loaded>>
deployed == <<proxy, proxies>>
data == <<database, dumps>>
errands == <<stage, errand, noted>>
histories == <<meddled, mishap, told>>
planeVars == <<images, generated, volume, deployed, data, errands, histories>>

Stations ==
  {"idle", "build", "load", "ensure", "create", "apply", "postgres", "restart", "status",
   "dump", "keep", "inspect", "count", "quiesce", "drain", "open", "psql", "rows", "back", "undo"}
Memo == [replicas |-> 0, dump |-> Unset, secret |-> Unset]

-----------------------------------------------------------------------------
(* Kubernetes and the calls. *)

Running == {s \in Slots : proxies[s] # Unset}
\* A pod told to leave finishes its calls and takes no new one.
Lively == {s \in Running : ~proxies[s].leaving}
Current == {s \in Lively : proxy # Unset /\ proxies[s].revision = proxy.revision}

\* A new pod runs what the tag stands for on the node.
ProxyStarts(s) ==
  /\ proxy # Unset /\ proxies[s] = Unset /\ loaded # Unset /\ volume # Unset
  /\ Cardinality(Current) < proxy.replicas
  /\ proxies' = [proxies EXCEPT ![s] = [revision |-> proxy.revision, build |-> loaded, leaving |-> FALSE]]
  /\ UNCHANGED <<images, generated, volume, proxy, data, errands, histories>>

\* Rolling: an old pod may leave before its successor is up, for want of a slot.
ProxyStops(s) ==
  /\ s \in Lively
  /\ s \notin Current \/ Cardinality(Current) > proxy.replicas
  /\ proxies' = [proxies EXCEPT ![s].leaving = TRUE]
  /\ UNCHANGED <<images, generated, volume, proxy, data, errands, histories>>

\* It has drained.
ProxyGone(s) ==
  /\ s \in Running \ Lively
  /\ proxies' = [proxies EXCEPT ![s] = Unset]
  /\ UNCHANGED <<images, generated, volume, proxy, data, errands, histories>>

\* Postgres initialises its volume once, with the password of that moment.
Initialised ==
  /\ volume = Unset /\ proxy # Unset /\ generated["kaimahi-pg"] # Unset
  /\ volume' = generated["kaimahi-pg"]
  /\ UNCHANGED <<images, generated, deployed, data, errands, histories>>

\* A call is settled and its row written.
CallServed ==
  /\ Running # {} /\ database < LastVersion
  /\ database' = database + 1
  /\ UNCHANGED <<images, generated, volume, deployed, dumps, errands, histories>>

-----------------------------------------------------------------------------
(* One command of each person. *)

At(c, s) == stage[c] = s
Move(c, s) == stage' = [stage EXCEPT ![c] = s]
Note(c, n) == noted' = [noted EXCEPT ![c] = n]
stays == UNCHANGED <<errand, noted>>
Meddles(c) == meddled' = [d \in Crew |-> meddled[d] \/ d # c]
calm == UNCHANGED histories

Over(c) ==
  /\ Move(c, "idle") /\ Note(c, Memo)
  /\ errand' = [errand EXCEPT ![c] = Unset]

Begin(c, e) ==
  /\ At(c, "idle")
  /\ errand' = [errand EXCEPT ![c] = e]
  /\ Move(c, CASE e.kind = "plane" -> "build" [] e.kind = "backup" -> "dump" [] e.kind = "restore" -> "inspect")
  /\ meddled' = [meddled EXCEPT ![c] = FALSE] /\ told' = [told EXCEPT ![c] = Unset]
  /\ UNCHANGED <<images, generated, volume, deployed, data, noted, mishap>>

\* A restore between its scaling down and its scaling back.
Quiesced == {"drain", "open", "psql", "rows", "back"}

\* A call fails or a wait times out: a quiesced restore scales back first.
Fails(c) ==
  /\ stage[c] \notin {"idle", "undo"}
  /\ IF stage[c] \in Quiesced THEN Move(c, "undo") /\ stays ELSE Over(c)
  /\ UNCHANGED <<images, generated, volume, deployed, data, histories>>

Killed(c) ==
  /\ ~At(c, "idle") /\ Over(c)
  /\ mishap' = (mishap \/ stage[c] \in Quiesced \cup {"undo"})
  /\ UNCHANGED <<images, generated, volume, deployed, data, meddled, told>>

-----------------------------------------------------------------------------
(* kmx plane. *)

\* From a checkout, or from the module proxy: a binary older than this build
\* is refused there.
Build(c) ==
  /\ At(c, "build") /\ Move(c, "load")
  /\ tagged' = errand[c].build /\ Meddles(c)
  /\ UNCHANGED <<errand, noted, loaded, generated, volume, deployed, data, mishap, told>>

Load(c) ==
  /\ At(c, "load") /\ Move(c, "ensure")
  /\ loaded' = tagged /\ Meddles(c)
  /\ UNCHANGED <<errand, noted, tagged, generated, volume, deployed, data, mishap, told>>

\* The Secrets one after the other; what exists is kept.
Ensure(c) ==
  /\ At(c, "ensure")
  /\ UNCHANGED <<errand, images, generated, volume, deployed, data>> /\ calm
  /\ LET missing == {s \in Generated : generated[s] = Unset}
     IN IF missing = {} THEN Move(c, "apply") /\ UNCHANGED noted
        ELSE /\ Move(c, "create")
             /\ Note(c, [noted[c] EXCEPT !.secret = IF "kaimahi-pg" \in missing THEN "kaimahi-pg" ELSE "kaimahi-admin"])

\* Fault: the Secret is applied over whatever is there.
CreateOver(c) ==
  /\ At(c, "create") /\ Move(c, "ensure")
  /\ generated' = [generated EXCEPT ![noted[c].secret] = c]
  /\ Note(c, [noted[c] EXCEPT !.secret = Unset])
  /\ UNCHANGED <<errand, images, volume, deployed, data>> /\ calm

\* A random value, one's own.  create fails when somebody was faster.
Create(c) ==
  /\ At(c, "create")
  /\ \/ /\ generated[noted[c].secret] = Unset
        /\ generated' = [generated EXCEPT ![noted[c].secret] = c]
        /\ Move(c, "ensure") /\ Note(c, [noted[c] EXCEPT !.secret = Unset]) /\ UNCHANGED errand
     \/ generated[noted[c].secret] # Unset /\ UNCHANGED generated /\ Over(c)
  /\ UNCHANGED <<images, volume, deployed, data>> /\ calm

\* The manifests: the replicas are the committed ones again.
ApplyPlane(c) ==
  /\ At(c, "apply") /\ Move(c, "postgres") /\ stays
  /\ proxy' = [replicas |-> Replicas, revision |-> IF proxy = Unset THEN 0 ELSE proxy.revision]
  /\ Meddles(c)
  /\ UNCHANGED <<images, generated, volume, proxies, data, mishap, told>>

PostgresUp(c) ==
  /\ At(c, "postgres") /\ volume # Unset /\ Move(c, "restart") /\ stays
  /\ UNCHANGED <<images, generated, volume, deployed, data>> /\ calm

\* Always: a rebuilt image under the same tag leaves the Deployment as it was.
Restart(c) ==
  /\ At(c, "restart") /\ proxy.revision < LastRestart /\ Move(c, "status") /\ stays
  /\ proxy' = [proxy EXCEPT !.revision = @ + 1]
  /\ UNCHANGED <<images, generated, volume, proxies, data>> /\ calm

\* Rolled out when every replica is of the current revision and no other pod
\* is, the leaving ones not counted: they may be draining still.
RollsOut(c) ==
  /\ At(c, "status") /\ Lively = Current /\ Cardinality(Current) >= proxy.replicas
  /\ Over(c) /\ told' = [told EXCEPT ![c] = errand[c]]
  /\ UNCHANGED <<images, generated, volume, deployed, data, meddled, mishap>>

-----------------------------------------------------------------------------
(* kmx backup and kmx restore. *)

\* pg_dump reads one snapshot; its output may be cut short.
Dump(c) ==
  /\ At(c, "dump") /\ Move(c, "keep")
  /\ \E whole \in BOOLEAN : Note(c, [noted[c] EXCEPT !.dump = [version |-> database, whole |-> whole]])
  /\ UNCHANGED <<errand, images, generated, volume, deployed, data>> /\ calm

\* Only a dump with its trailer gets the file's name.
Keep(c) ==
  /\ At(c, "keep") /\ Over(c)
  /\ dumps' = IF noted[c].dump.whole THEN [dumps EXCEPT ![errand[c].dump] = noted[c].dump] ELSE dumps
  /\ UNCHANGED <<images, generated, volume, deployed, database>> /\ calm

Inspect(c) ==
  LET d == dumps[errand[c].dump]
  IN /\ At(c, "inspect")
     /\ IF d # Unset /\ d.whole THEN Move(c, "count") /\ stays ELSE Over(c)
     /\ UNCHANGED <<images, generated, volume, deployed, data>> /\ calm

\* How many replicas to bring back.
Count(c) ==
  /\ At(c, "count")
  /\ IF proxy = Unset THEN Over(c) /\ UNCHANGED mishap
     ELSE /\ Move(c, "quiesce") /\ Note(c, [noted[c] EXCEPT !.replicas = proxy.replicas]) /\ UNCHANGED errand
          /\ mishap' = (mishap \/ proxy.replicas = 0)
  /\ UNCHANGED <<images, generated, volume, deployed, data, meddled, told>>

Scale(c, n) ==
  /\ proxy' = [proxy EXCEPT !.replicas = n]
  /\ Meddles(c)
  /\ UNCHANGED <<images, generated, volume, proxies, data, told>>

Quiesce(c) == At(c, "quiesce") /\ Move(c, "drain") /\ stays /\ Scale(c, 0) /\ UNCHANGED mishap

\* Fault: the pods are taken to be gone.
DrainNot(c) ==
  /\ At(c, "drain") /\ Move(c, "open") /\ stays
  /\ UNCHANGED <<images, generated, volume, deployed, data>> /\ calm

Drain(c) ==
  /\ At(c, "drain") /\ Running = {} /\ Move(c, "open") /\ stays
  /\ UNCHANGED <<images, generated, volume, deployed, data>> /\ calm

\* The file as it is by now.
Open(c) ==
  /\ At(c, "open") /\ dumps[errand[c].dump] # Unset /\ Move(c, "psql")
  /\ Note(c, [noted[c] EXCEPT !.dump = dumps[errand[c].dump]])
  /\ UNCHANGED <<errand, images, generated, volume, deployed, data>> /\ calm

Psql(c) ==
  /\ At(c, "psql") /\ Move(c, "rows") /\ stays
  /\ database' = noted[c].dump.version
  /\ UNCHANGED <<images, generated, volume, deployed, dumps>> /\ calm

CountsRows(c) ==
  /\ At(c, "rows") /\ Move(c, "back") /\ stays
  /\ UNCHANGED <<images, generated, volume, deployed, data>> /\ calm

ScaleBack(c) ==
  /\ At(c, "back") /\ Move(c, "status") /\ stays
  /\ Scale(c, noted[c].replicas) /\ UNCHANGED mishap

\* A scaling lands and its reply is lost, which is an error: before the scaling
\* back is deferred, or after.  (For any other call this is the failure of the
\* next one.)
ReplyLost(c) ==
  \/ At(c, "quiesce") /\ Over(c) /\ Scale(c, 0) /\ mishap' = TRUE
  \/ At(c, "back") /\ Move(c, "undo") /\ stays /\ Scale(c, noted[c].replicas) /\ UNCHANGED mishap

\* The deferred scaling, whose own error is ignored.
Undo(c) ==
  /\ At(c, "undo") /\ Over(c)
  /\ \/ Scale(c, noted[c].replicas) /\ UNCHANGED mishap
     \/ mishap' = TRUE /\ UNCHANGED <<images, generated, volume, deployed, data, meddled, told>>

-----------------------------------------------------------------------------

PlaneInit ==
  /\ tagged = Unset /\ loaded = Unset
  /\ generated = [s \in Generated |-> Unset] /\ volume = Unset
  /\ proxy = Unset /\ proxies = [s \in Slots |-> Unset]
  /\ database = 0
  /\ dumps \in [Dumps -> {Unset, [version |-> 0, whole |-> FALSE]}]
  /\ stage = [c \in Crew |-> "idle"] /\ errand = [c \in Crew |-> Unset] /\ noted = [c \in Crew |-> Memo]
  /\ meddled = [c \in Crew |-> FALSE] /\ mishap = FALSE /\ told = [c \in Crew |-> Unset]

Kubernetes ==
  \/ Initialised \/ CallServed
  \/ \E s \in Slots : ProxyStarts(s) \/ ProxyStops(s) \/ ProxyGone(s)

Works(c) ==
  \/ Build(c) \/ Load(c) \/ Ensure(c) \/ Create(c) \/ ApplyPlane(c) \/ PostgresUp(c) \/ Restart(c) \/ RollsOut(c)
  \/ Dump(c) \/ Keep(c)
  \/ Inspect(c) \/ Count(c) \/ Quiesce(c) \/ Drain(c) \/ Open(c) \/ Psql(c) \/ CountsRows(c) \/ ScaleBack(c)
  \/ ReplyLost(c) \/ Undo(c)

PlaneNext ==
  \/ Kubernetes
  \/ \E c \in Crew : Works(c) \/ Fails(c) \/ Killed(c) \/ \E e \in Errands : Begin(c, e)

PlaneSpec == PlaneInit /\ [][PlaneNext]_planeVars

-----------------------------------------------------------------------------
(* What is checked. *)

\* Types, and what a command has noted by the step it is at.
PlaneTypeOK ==
  /\ tagged \in Builds \cup {Unset} /\ loaded \in Builds \cup {Unset}
  /\ generated \in [Generated -> Crew \cup {Unset}] /\ volume \in Crew \cup {Unset}
  /\ proxy = Unset \/ proxy \in [replicas : 0..Replicas, revision : 0..LastRestart]
  /\ \A s \in Slots : proxies[s] = Unset \/ proxies[s] \in [revision : 0..LastRestart, build : Builds, leaving : BOOLEAN]
  /\ database \in 0..LastVersion
  /\ \A d \in Dumps : dumps[d] = Unset \/ dumps[d] \in [version : 0..LastVersion, whole : BOOLEAN]
  /\ stage \in [Crew -> Stations] /\ errand \in [Crew -> Errands \cup {Unset}]
  /\ \A c \in Crew :
       /\ At(c, "idle") <=> errand[c] = Unset
       /\ At(c, "create") <=> noted[c].secret # Unset
  /\ mishap \in BOOLEAN /\ meddled \in [Crew -> BOOLEAN]

\* plane.go:362: the password Postgres was initialised with is the one its
\* Secret holds, whoever raced to generate it.
PasswordOpens == volume # Unset => generated["kaimahi-pg"] = volume

\* plane.go:455-459: after a kmx plane that reported success, and had the plane
\* to itself, every proxy that takes new calls runs the code it built.  Old
\* ones may be draining: the success does not wait for them.
RunsWhatWasBuilt ==
  \A c \in Crew :
    told[c] # Unset /\ ~meddled[c] =>
      (told[c].kind = "plane" => \A s \in Lively : proxies[s].build = told[c].build)

\* backup.go:133-136: no proxy runs, not even a draining one, while a restore
\* replaces the tables, unless somebody deployed or scaled the plane meanwhile.
QuietWhileLoading == \A c \in Crew : At(c, "psql") /\ ~meddled[c] => Running = {}

\* backup.go:147-150: what a restore loads is a whole dump.
LoadsWhole == \A c \in Crew : At(c, "psql") => noted[c].dump.whole

\* backup.go:173-175: the proxies come back, wherever a call of the restore
\* fails, with or without its effect.  With no command running, a plane is at
\* zero only where a restore was killed, could not scale back, began when there
\* was none, or was told that its scaling to zero had failed when it had not:
\* backup.go:170-172 returns there before the scaling back is deferred.
ComesBack ==
  (\A c \in Crew : At(c, "idle")) /\ proxy # Unset /\ ~mishap => proxy.replicas = Replicas

\* What a deploy made is what runs: the database opens with the password in
\* its Secret, the proxies are the build (plane.go:362 and 455-459).
PlaneRunsWhatWasMade == PasswordOpens /\ RunsWhatWasBuilt

\* A restore replaces the tables by a whole dump while nothing uses them, and
\* brings the proxies back, that one return excepted (backup.go:133-150 and 173-175).
RestoreIsSafe == QuietWhileLoading /\ LoadsWhole /\ ComesBack
=============================================================================

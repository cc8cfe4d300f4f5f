------------------------------ MODULE Overlay ------------------------------
(***************************************************************************)
(* The overlay ConfigMap, kaimahi-upstreams-extra, and the commands that   *)
(* share it: kmx tools add (kmx/app/toolsadd.go), which emits the whole    *)
(* map into a manifest and applies it, now or some other day, and          *)
(* kmx workflow govern (kmx/app/workflow.go), which patches one key.       *)
(* Neither takes a lock: each reads the map with its resourceVersion, asks *)
(* the running plane whether the map it means to write would load, and     *)
(* relies on the version to notice everybody else.  People edit the map by *)
(* hand, kmx plane restarts the proxy, pods are replaced at any time, and  *)
(* every command may be interrupted between two of its kubectl calls.      *)
(*                                                                         *)
(* A fragment is what others can tell of it: the upstreams it defines, the *)
(* credentials it constrains, the upstreams whose tools it bounds, and a   *)
(* revision for the rest.  The other three documents of a manifest are     *)
(* applied with it and are not state here.                                 *)
(***************************************************************************)
EXTENDS Naturals, FiniteSets

CONSTANTS
  Operators, Proxies, Keys, Upstreams, Credentials,
  Base,       \* the upstreams of the committed table
  Jobs,       \* the commands an operator may give, a set of JobRecord
  HandEdits,  \* [key, frag]: what people set by hand
  InitOverlays, \* the ConfigMap at the start, one of them
  MaxVer, MaxRolls, \* bounds on writes of the map and on restarts
  Nil

Fragment == [ups : SUBSET Upstreams, bounds : SUBSET Credentials, asks : SUBSET Upstreams, rev : Nat]
Maps == [Keys -> Fragment \cup {Nil}]

Absent == 0 \* the version of a map that is not there
EmptyMap == [k \in Keys |-> Nil]
OverlayRecord == [here : BOOLEAN, ver : 0..MaxVer, data : Maps, applied : SUBSET Keys]

\* The manifest of tools add, and what a command wrote.
FileRecord == [key : Keys, data : Maps, ver : 0..MaxVer]
WriteRecord == [key : Keys, frag : Fragment \cup {Nil}]

\* needs: the seams of a blueprint.  frag = Nil: it declares no bounds.
\* later: --no-apply.
JobRecord == [kind : {"add", "govern"}, key : Keys, frag : Fragment \cup {Nil},
              cred : Credentials \cup {Nil}, needs : SUBSET Upstreams, replace : BOOLEAN, later : BOOLEAN]

Stages == {"idle", "reread", "apply", "write", "create", "created", "patch", "remove",
           "restart", "status", "check", "allow"}

Holds(data) == {k \in Keys : data[k] # Nil}

\* config.Merge and config.Parse over the base and the map, as far as one
\* fragment can spoil another: no name and no credential twice, and no bound
\* on tools nobody declares.
Defined(data) == Base \cup UNION {data[k].ups : k \in Holds(data)}
Loads(data) ==
  /\ \A k \in Holds(data) : data[k].ups \cap Base = {}
  /\ \A j, k \in Holds(data) :
       j # k => data[j].ups \cap data[k].ups = {} /\ data[j].bounds \cap data[k].bounds = {}
  /\ \A k \in Holds(data) : data[k].asks \subseteq Defined(data)

\* Under a blueprint's key there are bounds, and nobody puts a server there.
GovernKeys == {j.key : j \in {i \in Jobs : i.kind = "govern"}}
Bare(data) == \A k \in GovernKeys : data[k] # Nil => data[k].ups = {}

ASSUME OverlayAssumption ==
  /\ Jobs \subseteq JobRecord /\ \A e \in HandEdits : e.key \in Keys
  /\ \A j \in Jobs : j.kind = "add" => j.frag # Nil /\ j.frag.bounds = {} /\ j.key \notin GovernKeys
  /\ \A j \in Jobs : j.kind = "govern" =>
       j.cred # Nil /\ (j.frag # Nil => j.frag.ups = {} /\ j.frag.bounds = {j.cred})
  /\ \A e \in HandEdits :
       e.frag \in Fragment \cup {Nil} /\ (e.key \in GovernKeys /\ e.frag # Nil => e.frag.ups = {})
  /\ MaxVer \in Nat /\ MaxRolls \in Nat
  /\ \A m \in InitOverlays :
       /\ m \in OverlayRecord /\ Loads(m.data) /\ Bare(m.data)
       /\ IF m.here THEN m.ver # Absent ELSE m.ver = Absent /\ m.data = EmptyMap
  /\ Nil \notin Fragment \cup Credentials \cup JobRecord \cup FileRecord \cup WriteRecord

VARIABLES
  overlay,  \* [here, ver, data, applied]: applied is kubectl's last-applied annotation
  restarts, \* the deployment's generation
  gen,      \* the generation of each pod
  table,    \* the map each pod serves
  allow,    \* whose allowlist each credential has
  stop, job, \* where each operator's command is
  readAt,    \* the version it read
  file,     \* the manifest it wrote: [key, ver, data] or Nil
  made,     \* [key, frag] of a command that wrote, until it fails or somebody undoes it (history)
  loose     \* somebody wrote without having read: a manifest from before there was a map was
            \* applied to one, or one was created and had a fragment when its version was read (history)

rollout == <<restarts, gen, table>>
overlayVars == <<overlay, rollout, allow, stop, job, readAt, file, made, loose>>

Version == IF overlay.here THEN overlay.ver ELSE Absent

-----------------------------------------------------------------------------
(* The API server. *)

\* A write of the map: earlier writes of what it changed are void.
Set(data, applied) ==
  /\ overlay' = [here |-> TRUE, ver |-> overlay.ver + 1, data |-> data, applied |-> applied]
  /\ overlay.ver < MaxVer
Voids(data) ==
  [o \in Operators |-> IF made[o] # Nil /\ data[made[o].key] # made[o].frag THEN Nil ELSE made[o]]

\* kubectl apply: the keys it applied last time and not this time go.
Merged(f) ==
  [k \in Keys |-> IF f.data[k] # Nil THEN f.data[k]
                  ELSE IF k \in overlay.applied THEN Nil ELSE overlay.data[k]]

\* Fault: a manifest is applied whatever its version.
ApplyUnconditional(f) == TRUE

\* A stale resourceVersion is a Conflict; without one there is no condition.
ApplyAccepted(f) == f.ver = Absent \/ (overlay.here /\ overlay.ver = f.ver)

\* A patch that changes nothing leaves the version.
Patched(k, frag) == [overlay.data EXCEPT ![k] = frag]

-----------------------------------------------------------------------------
(* One command per operator. *)

Goes(o, to) == stop' = [stop EXCEPT ![o] = to]
keep == UNCHANGED <<rollout, allow>>
versioned == UNCHANGED loose

Finishes(o) ==
  /\ Goes(o, "idle")
  /\ job' = [job EXCEPT ![o] = Nil] /\ readAt' = [readAt EXCEPT ![o] = Absent]

\* It ends, in failure or because someone killed it; a manifest stays.
Breaks(o) ==
  /\ stop[o] # "idle" /\ Finishes(o)
  /\ made' = [made EXCEPT ![o] = Nil]
  /\ UNCHANGED <<overlay, file>> /\ keep /\ versioned

\* tools add: read the map, refuse a key that is there, ask the plane, write
\* the manifest; never over a file that exists.
Add(o, j) ==
  /\ stop[o] = "idle" /\ j.kind = "add" /\ file[o] = Nil
  /\ overlay.data[j.key] = Nil
  /\ LET candidate == [overlay.data EXCEPT ![j.key] = j.frag] IN
       /\ Loads(candidate)
       /\ file' = [file EXCEPT ![o] =
                     [key |-> j.key, data |-> candidate, ver |-> Version]]
  /\ made' = [made EXCEPT ![o] = Nil]
  /\ IF j.later THEN UNCHANGED <<stop, job>> ELSE job' = [job EXCEPT ![o] = j] /\ Goes(o, "reread")
  /\ UNCHANGED <<overlay, readAt>> /\ keep /\ versioned

\* The last look before the apply; a map that moved fails it.
Reread(o) ==
  /\ stop[o] = "reread" /\ Version = file[o].ver
  /\ Goes(o, "apply")
  /\ UNCHANGED <<overlay, job, readAt, file, made>> /\ keep /\ versioned

\* kubectl apply -f, by the command or by hand from the file.
ApplyFile(o) ==
  /\ file[o] # Nil /\ ApplyAccepted(file[o])
  /\ Set(Merged(file[o]), Holds(file[o].data))
  /\ loose' = (loose \/ (file[o].ver = Absent /\ overlay.here))
  /\ file' = [file EXCEPT ![o] = Nil]
  /\ UNCHANGED <<readAt, job>> /\ keep

Written(o) == [key |-> job[o].key, frag |-> job[o].frag]

AddApply(o) ==
  /\ stop[o] = "apply" /\ ApplyFile(o) /\ Goes(o, "restart")
  /\ made' = [Voids(Merged(file[o])) EXCEPT ![o] = Written(o)]
LaterApply(o) ==
  /\ stop[o] = "idle" /\ ApplyFile(o) /\ UNCHANGED stop
  /\ made' = Voids(Merged(file[o]))

\* The file was only for reading, or its Conflict said to scaffold again.
Discard(o) ==
  /\ stop[o] = "idle" /\ file[o] # Nil
  /\ file' = [file EXCEPT ![o] = Nil]
  /\ UNCHANGED <<overlay, stop, job, readAt, made>> /\ keep /\ versioned

\* workflow govern: nobody else may constrain the credential, the candidate
\* must load and every seam be in the table it makes.
MayGovern(j) ==
  /\ \A k \in Holds(overlay.data) \ {j.key} : j.cred \notin overlay.data[k].bounds
  /\ LET candidate == IF j.frag = Nil THEN overlay.data ELSE [overlay.data EXCEPT ![j.key] = j.frag] IN
       Loads(candidate) /\ j.needs \subseteq Defined(candidate)

\* Applied, never reconciled: what is there and differs takes --replace.
Decision(j) ==
  LET existing == overlay.data[j.key] IN
  IF existing = Nil THEN IF j.frag = Nil THEN "allow" ELSE "write"
  ELSE IF j.frag = Nil THEN IF j.replace THEN "remove" ELSE "idle"
  ELSE IF j.replace THEN "write"
  ELSE IF existing = j.frag THEN "check" ELSE "idle"

Govern(o, j) ==
  /\ stop[o] = "idle" /\ j.kind = "govern" /\ file[o] = Nil
  /\ MayGovern(j) /\ Decision(j) # "idle"
  /\ job' = [job EXCEPT ![o] = j]
  /\ readAt' = [readAt EXCEPT ![o] = Version]
  /\ made' = [made EXCEPT ![o] = Nil]
  /\ Goes(o, Decision(j))
  /\ UNCHANGED <<overlay, file>> /\ keep /\ versioned

\* The map is not there yet: create it empty, and take its version for read.
GetAbsent(o) ==
  /\ stop[o] = "write" /\ ~overlay.here
  /\ Goes(o, "create")
  /\ UNCHANGED <<overlay, job, readAt, file, made>> /\ keep /\ versioned
CreateMap(o) ==
  /\ stop[o] = "create" /\ ~overlay.here
  /\ Set(overlay.data, {}) /\ Goes(o, "created")
  /\ UNCHANGED <<job, readAt, file, made>> /\ keep /\ versioned
MapCreated(o) ==
  /\ stop[o] = "created"
  /\ readAt' = [readAt EXCEPT ![o] = overlay.ver]
  /\ Goes(o, "patch")
  /\ loose' = (loose \/ overlay.data # EmptyMap)
  /\ UNCHANGED <<overlay, job, file, made>> /\ keep

\* It is there: unchanged since the command read it, or the command fails.
StillAsRead(o) ==
  /\ stop[o] \in {"write", "remove"} /\ overlay.here /\ overlay.ver = readAt[o]
  /\ Goes(o, "patch")
  /\ UNCHANGED <<overlay, job, readAt, file, made>> /\ keep /\ versioned

\* The patch names the version it was prepared on.
PatchAccepted(o) == overlay.ver = readAt[o]

\* One key, set or deleted.
PatchKey(o) ==
  /\ stop[o] = "patch" /\ PatchAccepted(o)
  /\ LET data == Patched(job[o].key, job[o].frag) IN
       /\ IF data = overlay.data THEN UNCHANGED overlay ELSE Set(data, overlay.applied)
       /\ made' = [Voids(data) EXCEPT ![o] = Written(o)]
  /\ Goes(o, "restart")
  /\ readAt' = [readAt EXCEPT ![o] = Absent]
  /\ UNCHANGED <<job, file>> /\ keep /\ versioned

\* Fault: one new pod is enough.
RolledOne == \E p \in Proxies : gen[p] = restarts

AllRolled == \A p \in Proxies : gen[p] = restarts

\* rollProxy: restart, then wait for every pod to be the new one.
Roll(o) ==
  /\ stop[o] = "restart" /\ restarts < MaxRolls
  /\ restarts' = restarts + 1
  /\ Goes(o, "status")
  /\ UNCHANGED <<overlay, gen, table, allow, job, readAt, file, made>> /\ versioned

Status(o) ==
  /\ stop[o] = "status" /\ AllRolled
  /\ IF job[o].kind = "add" THEN Finishes(o) ELSE Goes(o, "allow") /\ UNCHANGED <<job, readAt>>
  /\ UNCHANGED <<overlay, file, made>> /\ keep /\ versioned

\* Nothing to write: an incomplete rollout is a warning and no more.
Check(o) ==
  /\ stop[o] = "check"
  /\ Goes(o, "allow")
  /\ UNCHANGED <<overlay, job, readAt, file, made>> /\ keep /\ versioned

SetAllowlist(o) ==
  /\ stop[o] = "allow"
  /\ allow' = [allow EXCEPT ![job[o].cred] = job[o].key]
  /\ Finishes(o)
  /\ UNCHANGED <<overlay, rollout, file, made>> /\ versioned

Command(o) ==
  \/ \E j \in Jobs : Add(o, j) \/ Govern(o, j)
  \/ Reread(o) \/ AddApply(o) \/ LaterApply(o) \/ Discard(o)
  \/ GetAbsent(o) \/ CreateMap(o) \/ MapCreated(o) \/ StillAsRead(o) \/ PatchKey(o)
  \/ Roll(o) \/ Status(o) \/ Check(o) \/ SetAllowlist(o) \/ Breaks(o)

-----------------------------------------------------------------------------
(* Everyone else. *)

\* A hand edit that loads; the plane was asked, or the editor was careful.
HandEdit(e) ==
  /\ overlay.here /\ overlay.data[e.key] # e.frag
  /\ LET data == [overlay.data EXCEPT ![e.key] = e.frag] IN
       Loads(data) /\ Set(data, overlay.applied) /\ made' = Voids(data)
  /\ UNCHANGED <<stop, job, readAt, file>> /\ keep /\ versioned

\* kmx plane applies the base again and restarts; the overlay is not its.
PlaneAgain ==
  /\ restarts < MaxRolls
  /\ restarts' = restarts + 1
  /\ UNCHANGED <<overlay, gen, table, allow, stop, job, readAt, file, made>> /\ versioned

\* Fault: a volume that is not there is an error, not an empty overlay.
BootableMounted == overlay.here /\ Loads(overlay.data)

Bootable == Loads(overlay.data)

\* A pod boots, in a rollout or in place of one that died, on the map as it
\* is.  One that cannot load it never gets ready and the old one serves on.
Boot(p) ==
  /\ Bootable
  /\ gen[p] # restarts \/ table[p] # overlay.data
  /\ gen' = [gen EXCEPT ![p] = restarts]
  /\ table' = [table EXCEPT ![p] = overlay.data]
  /\ UNCHANGED <<overlay, restarts, allow, stop, job, readAt, file, made>> /\ versioned

OverlayInit ==
  /\ overlay \in InitOverlays
  /\ restarts = 0 /\ gen = [p \in Proxies |-> 0]
  /\ table = [p \in Proxies |-> overlay.data]
  /\ allow = [c \in Credentials |-> Nil]
  /\ stop = [o \in Operators |-> "idle"]
  /\ job = [o \in Operators |-> Nil]
  /\ readAt = [o \in Operators |-> Absent]
  /\ file = [o \in Operators |-> Nil]
  /\ made = [o \in Operators |-> Nil] /\ loose = FALSE

OverlayNext ==
  \/ \E o \in Operators : Command(o)
  \/ \E e \in HandEdits : HandEdit(e)
  \/ PlaneAgain
  \/ \E p \in Proxies : Boot(p)

\* Kubernetes starts the pods a deployment asks for.
Fairness == \A p \in Proxies : WF_overlayVars(Boot(p))
OverlaySpec == OverlayInit /\ [][OverlayNext]_overlayVars

-----------------------------------------------------------------------------
OverlayTypeOK ==
  /\ overlay \in OverlayRecord
  /\ restarts \in 0..MaxRolls /\ gen \in [Proxies -> 0..MaxRolls] /\ table \in [Proxies -> Maps]
  /\ stop \in [Operators -> Stages] /\ job \in [Operators -> Jobs \cup {Nil}]
  /\ readAt \in [Operators -> 0..MaxVer] /\ file \in [Operators -> FileRecord \cup {Nil}]
  /\ made \in [Operators -> WriteRecord \cup {Nil}] /\ allow \in [Credentials -> Keys \cup {Nil}]
  /\ loose \in BOOLEAN

\* A command changes its own key and nobody else's: a manifest carries every
\* fragment it read, and its version refuses it once there are others
\* (overlayDocument, GovernWorkflow's patch).  One from before there was a map
\* has no version, and takes away what the manifest before it brought.
ByHand == UNCHANGED <<stop, file>>
Prunes(f, k) == f.ver = Absent /\ overlay.here /\ k \in overlay.applied /\ overlay'.data[k] = Nil
ForeignFragmentsKept ==
  [][\A k \in Keys :
       overlay'.data[k] # overlay.data[k] /\ ~ByHand =>
         \E o \in Operators :
           \/ file[o] # Nil /\ file'[o] = Nil /\ (file[o].key = k \/ Prunes(file[o], k))
           \/ stop[o] = "patch" /\ stop'[o] = "restart" /\ job[o].key = k]_overlayVars

\* A command that wrote its key, waited for the rollout and succeeded left
\* every pod serving what it wrote, as long as nobody has changed the key
\* (rollProxy): no pod of an overtaken rollout serves on.
WrittenIsServed ==
  \A o \in Operators :
    made[o] # Nil /\ stop[o] \notin {"restart", "status"} =>
      \A p \in Proxies : table[p][made[o].key] = made[o].frag

\* Whatever happened between the plane's answer and the write, the map that
\* results is one a proxy boots on: no upstream defined twice, no credential
\* constrained twice, no bound without its server (validateOverlay,
\* validateWorkflowOverlay, overlayPatch).  Only a write that had no version to
\* be refused by can leave another.
MapLoads == loose \/ Loads(overlay.data)

\* A rollout completes: no sequence of commands leaves a map that keeps new
\* pods from serving, but for a write without a version
\* (config.LoadWithOverlay, rollProxy).
RolloutsComplete ==
  (\E p \in Proxies : gen[p] # restarts)
    ~> ((\A p \in Proxies : gen[p] = restarts) \/ (loose /\ ~Loads(overlay.data)))
=============================================================================

---------------------------- MODULE Proxy_proofs ----------------------------
(***************************************************************************)
(* Proxy keeps its types and accounts for every call, for any number of    *)
(* requests and replicas, any home and any budgets.                        *)
(*                                                                         *)
(* CallsAccounted says nothing of a request on its way.  AccountInv does:  *)
(* no row is written before the request records, a reservation that the    *)
(* handler does not carry is one the store was not heard to make, and once *)
(* the write is over the account is settled.                               *)
(*                                                                         *)
(* The overlay's part is about the table a proxy boots on, for any number  *)
(* of people, commands and pods: nobody's fragment is lost, the map always *)
(* loads, and what a command says is served is served by every pod.        *)
(*                                                                         *)
(* The policy's part is about what that table then admits, for any table,  *)
(* overlay, blueprint and parameters: an overlay that was validated is the *)
(* one served, a blueprint bounds what it says it bounds, an approval      *)
(* admits what its human read, and egress and hooks stay in their limits.  *)
(***************************************************************************)
EXTENDS Proxy, Overlay, Policy, TLAPS

Early == {"idle", "authenticated", "gated"}

AccountInv ==
  \A r \in Requests :
    /\ pc[r] \notin {"flagging", "answered", "gone"} => rows[r] = 0
    /\ pc[r] \in Early \cup {"reserved", "calling"} => ~sent[r] /\ ~unheard[r]
    /\ pc[r] \in Early => ~hold[r]
    /\ hold[r] => carried[r] \/ unheard[r]
    /\ pc[r] \in {"flagging", "answered"} /\ ~unheard[r] =>
         ~hold[r] /\ (sent[r] => rows[r] = 1)

IInv == TypeOK /\ AccountInv

USE DEF MoveTo

-----------------------------------------------------------------------------
LEMMA InitInv == Init => IInv
BY ProxyAssumption DEF Init, IInv, TypeOK, AccountInv, Early, Phases, Kinds

LEMMA AuthenticateInv ==
  ASSUME IInv, NEW r \in Requests, Authenticate(r) PROVE IInv'
<1>1. TypeOK'
  BY DEF Authenticate, IInv, TypeOK, Phases, Kinds, tables
<1>2. AccountInv'
  BY DEF Authenticate, IInv, TypeOK, AccountInv, Early, tables
<1> QED BY <1>1, <1>2 DEF IInv

LEMMA GateInv ==
  ASSUME IInv, NEW r \in Requests, Gate(r) PROVE IInv'
<1>1. TypeOK'
  BY DEF Gate, IInv, TypeOK, Phases, Kinds, request, tables
<1>2. AccountInv'
  BY DEF Gate, IInv, TypeOK, AccountInv, Early, request, tables
<1> QED BY <1>1, <1>2 DEF IInv

LEMMA ReserveAdmitInv ==
  ASSUME IInv, NEW r \in Requests, ReserveAdmit(r) PROVE IInv'
<1>1. TypeOK'
  BY DEF ReserveAdmit, IInv, TypeOK, Phases, Kinds
<1>2. AccountInv'
  BY DEF ReserveAdmit, IInv, TypeOK, AccountInv, Early
<1> QED BY <1>1, <1>2 DEF IInv

\* A hold that a denial leaves behind is one the handler never heard of.
LEMMA ReserveDenyInv ==
  ASSUME IInv, NEW r \in Requests, ReserveDeny(r) PROVE IInv'
<1>0. hold' \in [Requests -> BOOLEAN] /\ \A q \in Requests \ {r} : hold'[q] = hold[q]
  BY DEF ReserveDeny, IInv, TypeOK
<1>1. hold' # hold <=> hold'[r]
  <2>1. ~hold[r] /\ hold \in [Requests -> BOOLEAN]
    BY DEF ReserveDeny, IInv, TypeOK, AccountInv, Early
  <2>2. ~hold'[r] => \A q \in Requests : hold'[q] = hold[q]
    BY <1>0, <2>1
  <2>3. ~hold'[r] => hold' = hold
    BY <1>0, <2>1, <2>2
  <2> QED BY <2>1, <2>3
<1>2. unheard'[r] <=> hold'[r]
  BY <1>1 DEF ReserveDeny, IInv, TypeOK
<1>3. TypeOK'
  BY <1>0 DEF ReserveDeny, IInv, TypeOK, Phases, Kinds
<1>4. AccountInv'
  BY <1>0, <1>2 DEF ReserveDeny, IInv, TypeOK, AccountInv, Early
<1> QED BY <1>3, <1>4 DEF IInv

LEMMA PrepareInv ==
  ASSUME IInv, NEW r \in Requests, Prepare(r) PROVE IInv'
<1>1. TypeOK'
  BY DEF Prepare, IInv, TypeOK, Phases, Kinds, request, tables
<1>2. AccountInv'
  BY DEF Prepare, IInv, TypeOK, AccountInv, Early, request, tables
<1> QED BY <1>1, <1>2 DEF IInv

LEMMA CallInv ==
  ASSUME IInv, NEW r \in Requests, Call(r) PROVE IInv'
<1>1. TypeOK'
  BY DEF Call, IInv, TypeOK, Phases, Kinds, tables
<1>2. AccountInv'
  BY DEF Call, IInv, TypeOK, AccountInv, Early, tables
<1> QED BY <1>1, <1>2 DEF IInv

\* A write that succeeds lands the request's first row and takes the hold
\* the handler carries; one that fails leaves it unheard.
LEMMA WriteInv ==
  ASSUME IInv, NEW r \in Requests, Write(r) PROVE IInv'
<1>1. CASE /\ up
           /\ Land(r)
           /\ wrote' = [wrote EXCEPT ![r] = "ok"]
           /\ UNCHANGED unheard
  <2>1. TypeOK'
    <3>1. rows[r] = 0
      BY DEF Write, IInv, AccountInv
    <3>2. rows' \in [Requests -> {0, 1}] /\ hold' \in [Requests -> BOOLEAN]
      BY <1>1, <3>1 DEF Land, IInv, TypeOK
    <3> QED BY <1>1, <3>2 DEF Write, IInv, TypeOK, Phases, Kinds
  <2>2. AccountInv'
    BY <1>1 DEF Write, Land, IInv, TypeOK, AccountInv, Early
  <2> QED BY <2>1, <2>2 DEF IInv
<1>2. CASE /\ ~up
           /\ Land(r) \/ UNCHANGED <<rows, hold>>
           /\ wrote' = [wrote EXCEPT ![r] = "failed"]
           /\ unheard' = [unheard EXCEPT ![r] = TRUE]
  <2>1. TypeOK'
    <3>1. rows[r] = 0
      BY DEF Write, IInv, AccountInv
    <3>2. rows' \in [Requests -> {0, 1}] /\ hold' \in [Requests -> BOOLEAN]
      BY <1>2, <3>1 DEF Land, IInv, TypeOK
    <3> QED BY <1>2, <3>2 DEF Write, IInv, TypeOK, Phases, Kinds
  <2>2. AccountInv'
    BY <1>2 DEF Write, Land, IInv, TypeOK, AccountInv, Early
  <2> QED BY <2>1, <2>2 DEF IInv
<1> QED BY <1>1, <1>2 DEF Write

LEMMA FlagInv ==
  ASSUME IInv, NEW r \in Requests, Flag(r) PROVE IInv'
<1>1. TypeOK'
  BY DEF Flag, IInv, TypeOK, Phases, Kinds, request, tables
<1>2. AccountInv'
  BY DEF Flag, IInv, TypeOK, AccountInv, Early, request, tables
<1> QED BY <1>1, <1>2 DEF IInv

LEMMA AgainInv ==
  ASSUME IInv, NEW r \in Requests, Again(r) PROVE IInv'
<1>1. TypeOK'
  BY DEF Again, IInv, TypeOK, Phases, Kinds
<1>2. AccountInv'
  BY DEF Again, IInv, TypeOK, AccountInv, Early
<1> QED BY <1>1, <1>2 DEF IInv

LEMMA CrashInv ==
  ASSUME IInv, NEW p \in Replicas, Crash(p) PROVE IInv'
<1>1. TypeOK'
  BY DEF Crash, IInv, TypeOK, Phases, Kinds, request, tables
<1>2. AccountInv'
  BY DEF Crash, IInv, TypeOK, AccountInv, Early, request, tables
<1> QED BY <1>1, <1>2 DEF IInv

LEMMA AroundInv ==
  ASSUME IInv, SetBudget \/ Outage PROVE IInv'
<1>1. CASE SetBudget
  BY <1>1, ProxyAssumption
  DEF SetBudget, IInv, TypeOK, AccountInv, Early, Phases, Kinds, request
<1>2. CASE Outage
  BY <1>2 DEF Outage, IInv, TypeOK, AccountInv, Early, Phases, Kinds, request, tables
<1> QED BY <1>1, <1>2

LEMMA NextInv == IInv /\ [Next]_vars => IInv'
<1> SUFFICES ASSUME IInv, [Next]_vars PROVE IInv'
  OBVIOUS
<1>1. ASSUME NEW r \in Requests, Handle(r) PROVE IInv'
  BY <1>1, AuthenticateInv, GateInv, ReserveAdmitInv, ReserveDenyInv, PrepareInv,
     CallInv, WriteInv, FlagInv DEF Handle
<1>2. CASE UNCHANGED vars
  BY <1>2 DEF vars, request, tables, IInv, TypeOK, AccountInv, Early, Phases, Kinds
<1> QED
  BY <1>1, <1>2, AgainInv, CrashInv, AroundInv DEF Next

\* Proxy keeps its types: in particular no call has two ledger rows, since
\* record tries its write once (handler.record).
THEOREM TypeCorrect == Spec => []TypeOK
<1>1. IInv => TypeOK BY DEF IInv
<1> QED BY <1>1, InitInv, NextInv, PTL DEF Spec

\* Unless the store failed it or its replica died, a request that was answered
\* left no reservation and, if it was forwarded, one row: the exits of
\* handler.forward all go through record with what they carry.
THEOREM Accounted == Spec => []CallsAccounted
<1>1. IInv => CallsAccounted
  BY DEF IInv, AccountInv, CallsAccounted
<1> QED BY <1>1, InitInv, NextInv, PTL DEF Spec

-----------------------------------------------------------------------------
(* The overlay. *)

\* What a command has in hand wherever it stands.
AtWork(o) ==
  /\ stop[o] # "idle" => job[o] # Nil
  /\ stop[o] \in {"reread", "apply"} =>
       /\ job[o].kind = "add"
       /\ file[o] # Nil /\ file[o].key = job[o].key /\ file[o].data[job[o].key] = job[o].frag
  /\ stop[o] \in {"write", "create", "created", "patch", "remove", "check", "allow"} => job[o].kind = "govern"
OverlayTyped == OverlayTypeOK /\ \A o \in Operators : AtWork(o)

\* A map with one key set is a map.
LEMMA MapWith == ASSUME NEW m \in Maps, NEW k, NEW f \in Fragment \cup {Nil}
                 PROVE  [m EXCEPT ![k] = f] \in Maps
BY DEF Maps

\* A job is one of the commands, and no record stands for Nil.
LEMMA JobTypes ==
  ASSUME NEW j \in Jobs
  PROVE  /\ j # Nil /\ j.key \in Keys /\ j.frag \in Fragment \cup {Nil} /\ j.kind \in {"add", "govern"}
         /\ j.kind = "add" => j.frag # Nil /\ j.frag \in Fragment
<1>1. j \in JobRecord BY OverlayAssumption
<1>2. Nil \notin JobRecord BY OverlayAssumption
<1>3. \A i \in Jobs : i.kind = "add" => i.frag # Nil BY OverlayAssumption
<1> QED BY <1>1, <1>2, <1>3 DEF JobRecord

\* Nil is no manifest, no fragment and no write.
LEMMA NilIsNone == Nil \notin Fragment /\ Nil \notin FileRecord /\ Nil \notin WriteRecord
BY OverlayAssumption

\* The map is never made of anything but fragments.
LEMMA MergedIsMap ==
  ASSUME OverlayTypeOK, NEW f \in FileRecord
  PROVE  Merged(f) \in Maps
<1>1. overlay.data \in Maps /\ f.data \in Maps BY DEF OverlayTypeOK, OverlayRecord, FileRecord
<1> QED BY <1>1 DEF Merged, Maps

\* What a write leaves of the earlier ones.
LEMMA VoidsTypes ==
  ASSUME OverlayTypeOK, NEW content
  PROVE  /\ Voids(content) \in [Operators -> WriteRecord \cup {Nil}]
         /\ \A o \in Operators : Voids(content)[o] # Nil =>
              Voids(content)[o] = made[o] /\ content[made[o].key] = made[o].frag
BY DEF OverlayTypeOK, Voids

\* Only a write makes a map, and it moves the version.
LEMMA SetMoves ==
  ASSUME OverlayTypeOK, NEW content \in Maps, NEW applied \in SUBSET Keys, Set(content, applied)
  PROVE  /\ overlay' \in OverlayRecord
         /\ overlay'.here /\ overlay'.ver = overlay.ver + 1 /\ overlay'.data = content
<1>1. overlay.ver \in 0..MaxVer /\ overlay.ver < MaxVer BY DEF OverlayTypeOK, OverlayRecord, Set
<1>2. MaxVer \in Nat BY OverlayAssumption
<1>3. overlay.ver + 1 \in 0..MaxVer BY <1>1, <1>2
<1>4. overlay' = [here |-> TRUE, ver |-> overlay.ver + 1, data |-> content, applied |-> applied] BY DEF Set
<1> QED BY <1>3, <1>4 DEF OverlayRecord

\* The step of a command, but for the map it writes.
Moved(o) ==
  /\ \A q \in Operators : q # o =>
       stop'[q] = stop[q] /\ job'[q] = job[q] /\ readAt'[q] = readAt[q] /\ file'[q] = file[q]
  /\ gen' = gen /\ table' = table

\* A command moves nobody but itself.
LEMMA CommandMoves ==
  ASSUME OverlayTypeOK, NEW o \in Operators, Command(o)
  PROVE  Moved(o)
<1> USE DEF OverlayTypeOK, Moved, Goes, keep, rollout, Finishes
<1>1. ASSUME NEW j \in Jobs, Add(o, j) PROVE Moved(o) BY <1>1 DEF Add
<1>2. ASSUME NEW j \in Jobs, Govern(o, j) PROVE Moved(o)
  <2> HIDE DEF OverlayTypeOK
  <2> QED BY <1>2 DEF Govern, OverlayTypeOK
<1>3. CASE Reread(o) BY <1>3 DEF Reread
<1>4. CASE AddApply(o) BY <1>4 DEF AddApply, ApplyFile
<1>5. CASE LaterApply(o) BY <1>5 DEF LaterApply, ApplyFile
<1>6. CASE Discard(o) BY <1>6 DEF Discard
<1>7. CASE GetAbsent(o) \/ CreateMap(o) \/ MapCreated(o) \/ StillAsRead(o)
  BY <1>7 DEF GetAbsent, CreateMap, MapCreated, StillAsRead
<1>8. CASE PatchKey(o) BY <1>8 DEF PatchKey
<1>9. CASE Roll(o) \/ Check(o) BY <1>9 DEF Roll, Check
<1>10. CASE Status(o) BY <1>10 DEF Status
<1>11. CASE SetAllowlist(o) BY <1>11 DEF SetAllowlist
<1>12. CASE Breaks(o) BY <1>12 DEF Breaks
<1> HIDE DEF OverlayTypeOK, Moved, Goes, keep, rollout, Finishes
<1> QED BY <1>1, <1>2, <1>3, <1>4, <1>5, <1>6, <1>7, <1>8, <1>9, <1>10, <1>11, <1>12 DEF Command

\* The record of writes nobody could refuse only grows.
LooseGrows == loose' \in BOOLEAN /\ (loose => loose')
LEMMA CommandLoose ==
  ASSUME OverlayTypeOK, NEW o \in Operators, Command(o)
  PROVE  LooseGrows
<1>0. loose \in BOOLEAN BY DEF OverlayTypeOK
<1>1. ASSUME NEW j \in Jobs, Add(o, j) \/ Govern(o, j) PROVE loose' = loose BY <1>1 DEF Add, Govern, versioned
<1>2. CASE Reread(o) \/ Discard(o) \/ GetAbsent(o) \/ CreateMap(o) \/ StillAsRead(o) \/ PatchKey(o)
           \/ Roll(o) \/ Status(o) \/ Check(o) \/ SetAllowlist(o) \/ Breaks(o)
  <2>1. loose' = loose
    BY <1>2 DEF Reread, Discard, GetAbsent, CreateMap, StillAsRead, PatchKey, Roll, Status, Check,
                SetAllowlist, Breaks, versioned
  <2> QED BY <1>0, <2>1 DEF LooseGrows
<1>3. CASE AddApply(o) \/ LaterApply(o) BY <1>0, <1>3 DEF AddApply, LaterApply, ApplyFile, LooseGrows
<1>4. CASE MapCreated(o) BY <1>0, <1>4 DEF MapCreated, LooseGrows
<1> QED BY <1>0, <1>1, <1>2, <1>3, <1>4 DEF Command, LooseGrows

\* What an operator's own step does to what they have in hand.
LEMMA CommandTyped ==
  ASSUME OverlayTyped, NEW o \in Operators, Command(o)
  PROVE  OverlayTypeOK' /\ AtWork(o)'
<1> USE DEF OverlayTyped
<1>t. /\ overlay \in OverlayRecord /\ restarts \in 0..MaxRolls /\ stop \in [Operators -> Stages]
      /\ job \in [Operators -> Jobs \cup {Nil}] /\ readAt \in [Operators -> 0..MaxVer]
      /\ file \in [Operators -> FileRecord \cup {Nil}] /\ made \in [Operators -> WriteRecord \cup {Nil}]
      /\ allow \in [Credentials -> Keys \cup {Nil}]
      /\ gen \in [Proxies -> 0..MaxRolls] /\ table \in [Proxies -> Maps] /\ MaxRolls \in Nat /\ MaxVer \in Nat
  BY OverlayAssumption DEF OverlayTypeOK
<1>l. loose' \in BOOLEAN BY CommandLoose DEF LooseGrows
<1>v. overlay.ver \in 0..MaxVer /\ overlay.data \in Maps /\ Version \in 0..MaxVer
      /\ Absent \in 0..MaxVer
  BY <1>t DEF OverlayRecord, Version, Absent
<1>a. AtWork(o) OBVIOUS
<1>j. job[o] # Nil => job[o] \in Jobs BY <1>t
<1>w. job[o] # Nil => Written(o) \in WriteRecord BY <1>j, JobTypes DEF Written, WriteRecord
<1>0. stop[o] # "idle" => job[o] \in Jobs BY <1>a, <1>j DEF AtWork
<1>1. ASSUME NEW j \in Jobs, Add(o, j) PROVE OverlayTypeOK' /\ AtWork(o)'
  <2> DEFINE candidate == [overlay.data EXCEPT ![j.key] = j.frag]
             manifest == [key |-> j.key, data |-> candidate, ver |-> Version]
  <2>1. j.key \in Keys /\ j.frag \in Fragment /\ j.frag # Nil /\ j # Nil BY <1>1, JobTypes DEF Add
  <2>2. candidate \in Maps BY <1>v, <2>1, MapWith
  <2>3. candidate[j.key] = j.frag BY <1>v, <2>1 DEF Maps
  <2> HIDE DEF candidate
  <2>4. manifest \in FileRecord BY <1>v, <2>1, <2>2 DEF FileRecord
  <2>5. manifest.key = j.key /\ manifest.data = candidate /\ j.kind = "add" BY <1>1 DEF Add
  <2>6. file' = [file EXCEPT ![o] = manifest] BY <1>1 DEF Add, candidate
  <2> HIDE DEF manifest
  <2>7. file' \in [Operators -> FileRecord \cup {Nil}] /\ file'[o] = manifest BY <1>t, <2>4, <2>6
  <2>8. made' \in [Operators -> WriteRecord \cup {Nil}] BY <1>1, <1>t DEF Add
  <2>9. /\ stop' \in [Operators -> Stages] /\ job' \in [Operators -> Jobs \cup {Nil}]
        /\ stop'[o] = "idle" \/ (stop'[o] = "reread" /\ job'[o] = j)
    <3>1. stop[o] = "idle" BY <1>1 DEF Add
    <3>2. CASE j.later
      <4>1. stop' = stop /\ job' = job BY <1>1, <3>2 DEF Add
      <4> QED BY <4>1, <3>1, <1>t
    <3>3. CASE ~j.later
      <4>1. job' = [job EXCEPT ![o] = j] /\ stop' = [stop EXCEPT ![o] = "reread"] BY <1>1, <3>3 DEF Add, Goes
      <4> QED BY <4>1, <1>t DEF Stages
    <3> QED BY <3>2, <3>3
  <2>10. UNCHANGED <<overlay, restarts, gen, table, allow, readAt>> BY <1>1 DEF Add, keep, rollout
  <2>11. manifest # Nil BY <2>4, NilIsNone
  <2>12. OverlayTypeOK' BY <1>t, <1>l, <2>7, <2>8, <2>9, <2>10 DEF OverlayTypeOK
  <2>13. AtWork(o)' BY <2>1, <2>3, <2>5, <2>7, <2>9, <2>11 DEF AtWork
  <2> QED BY <2>12, <2>13
<1>2. ASSUME NEW j \in Jobs, Govern(o, j) PROVE OverlayTypeOK' /\ AtWork(o)'
  <2>1. Decision(j) \in {"allow", "write", "remove", "check", "idle"} BY DEF Decision
  <2>2. Decision(j) \in Stages /\ j # Nil BY <2>1, JobTypes DEF Stages
  <2>3. stop' = [stop EXCEPT ![o] = Decision(j)] /\ job' = [job EXCEPT ![o] = j] /\ readAt' = [readAt EXCEPT ![o] = Version]
        /\ made' = [made EXCEPT ![o] = Nil] /\ j.kind = "govern"
    BY <1>2 DEF Govern, Goes
  <2>4. UNCHANGED <<overlay, file, restarts, gen, table, allow>> BY <1>2 DEF Govern, keep, rollout
  <2>5. /\ stop' \in [Operators -> Stages] /\ job' \in [Operators -> Jobs \cup {Nil}]
        /\ readAt' \in [Operators -> 0..MaxVer] /\ made' \in [Operators -> WriteRecord \cup {Nil}]
    BY <1>t, <1>v, <2>2, <2>3
  <2>6. stop'[o] = Decision(j) /\ job'[o] = j BY <1>t, <2>3
  <2>7. OverlayTypeOK' BY <1>t, <1>l, <2>4, <2>5 DEF OverlayTypeOK
  <2>8. AtWork(o)' BY <2>1, <2>2, <2>3, <2>6 DEF AtWork
  <2> QED BY <2>7, <2>8
<1>3. CASE Reread(o) \/ GetAbsent(o) \/ Check(o) \/ StillAsRead(o)
  <2>1. stop' \in [Operators -> Stages] BY <1>3, <1>t DEF Reread, GetAbsent, Check, StillAsRead, Goes, Stages
  <2>2. UNCHANGED <<overlay, restarts, gen, table, allow, job, readAt, file, made>>
    BY <1>3 DEF Reread, GetAbsent, Check, StillAsRead, keep, rollout
  <2>3. OverlayTypeOK' BY <1>t, <1>l, <2>1, <2>2 DEF OverlayTypeOK
  <2>4. AtWork(o)' BY <1>a, <1>t, <1>3, <2>2 DEF AtWork, Reread, GetAbsent, Check, StillAsRead, Goes
  <2> QED BY <2>3, <2>4
<1>4. ASSUME AddApply(o) \/ LaterApply(o) PROVE OverlayTypeOK' /\ AtWork(o)'
  <2>1. file[o] # Nil /\ Set(Merged(file[o]), Holds(file[o].data)) /\ file' = [file EXCEPT ![o] = Nil]
        /\ UNCHANGED <<readAt, job, restarts, gen, table, allow>>
    BY <1>4 DEF AddApply, LaterApply, ApplyFile, keep, rollout
  <2>2. file[o] \in FileRecord BY <2>1, <1>t
  <2>3. Merged(file[o]) \in Maps BY <2>2, MergedIsMap
  <2>4. Holds(file[o].data) \in SUBSET Keys BY DEF Holds
  <2>5. overlay' \in OverlayRecord BY <2>1, <2>3, <2>4, SetMoves
  <2>6. Voids(Merged(file[o])) \in [Operators -> WriteRecord \cup {Nil}] BY <2>3, VoidsTypes
  <2>7. made' \in [Operators -> WriteRecord \cup {Nil}]
    <3>1. CASE AddApply(o)
      <4>1. Written(o) \in WriteRecord BY <3>1, <1>a, <1>w DEF AtWork, AddApply
      <4>2. made' = [Voids(Merged(file[o])) EXCEPT ![o] = Written(o)] BY <3>1 DEF AddApply
      <4> QED BY <2>6, <4>1, <4>2
    <3>2. CASE LaterApply(o) BY <3>2, <2>6 DEF LaterApply
    <3> QED BY <1>4, <3>1, <3>2
  <2>8. stop' \in [Operators -> Stages] /\ ((stop'[o] = "restart" /\ stop[o] = "apply") \/ stop'[o] = "idle")
    BY <1>4, <1>t DEF AddApply, LaterApply, Goes, Stages
  <2>9. file' \in [Operators -> FileRecord \cup {Nil}] BY <2>1, <1>t
  <2>10. OverlayTypeOK' BY <1>t, <1>l, <2>1, <2>5, <2>7, <2>8, <2>9 DEF OverlayTypeOK
  <2>11. AtWork(o)' BY <1>a, <2>1, <2>8 DEF AtWork
  <2> QED BY <2>10, <2>11
<1>5. CASE Discard(o)
  <2>1. file' \in [Operators -> FileRecord \cup {Nil}] BY <1>5, <1>t DEF Discard
  <2>2. UNCHANGED <<overlay, stop, job, readAt, made, restarts, gen, table, allow>> /\ stop[o] = "idle"
    BY <1>5 DEF Discard, keep, rollout
  <2>3. OverlayTypeOK' BY <1>t, <1>l, <2>1, <2>2 DEF OverlayTypeOK
  <2> QED BY <2>2, <2>3 DEF AtWork
<1>6. CASE CreateMap(o)
  <2>1. Set(overlay.data, {}) /\ stop[o] = "create" /\ stop' = [stop EXCEPT ![o] = "created"]
        /\ UNCHANGED <<job, readAt, file, made, restarts, gen, table, allow>>
    BY <1>6 DEF CreateMap, Goes, keep, rollout
  <2>2. overlay' \in OverlayRecord BY <2>1, <1>v, SetMoves
  <2>3. stop' \in [Operators -> Stages] /\ stop'[o] = "created" BY <2>1, <1>t DEF Stages
  <2>4. OverlayTypeOK' BY <1>t, <1>l, <2>1, <2>2, <2>3 DEF OverlayTypeOK
  <2> QED BY <1>a, <2>1, <2>3, <2>4 DEF AtWork
<1>7. CASE MapCreated(o)
  <2>1. readAt' \in [Operators -> 0..MaxVer] BY <1>7, <1>t, <1>v DEF MapCreated
  <2>2. stop' \in [Operators -> Stages] /\ stop'[o] = "patch" /\ stop[o] = "created"
    BY <1>7, <1>t DEF MapCreated, Goes, Stages
  <2>3. UNCHANGED <<overlay, job, file, made, restarts, gen, table, allow>> BY <1>7 DEF MapCreated, keep, rollout
  <2>4. OverlayTypeOK' BY <1>t, <1>l, <2>1, <2>2, <2>3 DEF OverlayTypeOK
  <2> QED BY <1>a, <2>2, <2>3, <2>4 DEF AtWork
<1>8. CASE PatchKey(o)
  <2> DEFINE content == Patched(job[o].key, job[o].frag)
  <2>1. stop[o] = "patch" /\ stop' = [stop EXCEPT ![o] = "restart"] /\ readAt' = [readAt EXCEPT ![o] = Absent]
        /\ UNCHANGED <<job, file, restarts, gen, table, allow>>
        /\ made' = [Voids(content) EXCEPT ![o] = Written(o)]
        /\ (overlay' = overlay \/ Set(content, overlay.applied))
    BY <1>8 DEF PatchKey, Goes, keep, rollout
  <2>2. job[o] \in Jobs BY <2>1, <1>0
  <2>3. job[o].key \in Keys /\ job[o].frag \in Fragment \cup {Nil} BY <2>2, JobTypes
  <2>4. content \in Maps BY <2>3, <1>v, MapWith DEF Patched
  <2> HIDE DEF content
  <2>5. overlay.applied \in SUBSET Keys BY <1>t DEF OverlayRecord
  <2>6. overlay' \in OverlayRecord BY <1>t, <2>1, <2>4, <2>5, SetMoves
  <2>7. Written(o) \in WriteRecord BY <2>2, <1>w, JobTypes
  <2>8. Voids(content) \in [Operators -> WriteRecord \cup {Nil}] BY <2>4, VoidsTypes
  <2>9. made' \in [Operators -> WriteRecord \cup {Nil}] BY <2>1, <2>7, <2>8
  <2>10. stop' \in [Operators -> Stages] /\ stop'[o] = "restart" /\ readAt' \in [Operators -> 0..MaxVer]
    BY <1>t, <1>v, <2>1 DEF Stages
  <2>11. OverlayTypeOK' BY <1>t, <1>l, <2>1, <2>6, <2>9, <2>10 DEF OverlayTypeOK
  <2> QED BY <1>a, <2>1, <2>10, <2>11 DEF AtWork
<1>9. CASE Roll(o)
  <2>1. stop[o] = "restart" /\ stop' = [stop EXCEPT ![o] = "status"] /\ restarts < MaxRolls /\ restarts' = restarts + 1
        /\ UNCHANGED <<overlay, gen, table, allow, job, readAt, file, made>>
    BY <1>9 DEF Roll, Goes
  <2>2. restarts' \in 0..MaxRolls BY <1>t, <2>1
  <2>3. stop' \in [Operators -> Stages] /\ stop'[o] = "status" BY <1>t, <2>1 DEF Stages
  <2>4. OverlayTypeOK' BY <1>t, <1>l, <2>1, <2>2, <2>3 DEF OverlayTypeOK
  <2> QED BY <1>a, <2>1, <2>3, <2>4 DEF AtWork
<1>10. CASE Status(o)
  <2>0. job[o] \in Jobs BY <1>10, <1>0 DEF Status
  <2>1. UNCHANGED <<overlay, file, made, restarts, gen, table, allow>> BY <1>10 DEF Status, keep, rollout
  <2>2. CASE job[o].kind = "add"
    <3>1. stop' = [stop EXCEPT ![o] = "idle"] /\ job' = [job EXCEPT ![o] = Nil] /\ readAt' = [readAt EXCEPT ![o] = Absent]
      BY <1>10, <2>2 DEF Status, Finishes, Goes
    <3>2. /\ stop' \in [Operators -> Stages] /\ job' \in [Operators -> Jobs \cup {Nil}]
          /\ readAt' \in [Operators -> 0..MaxVer] /\ stop'[o] = "idle"
      BY <3>1, <1>t, <1>v DEF Stages
    <3>3. OverlayTypeOK' BY <1>t, <1>l, <2>1, <3>2 DEF OverlayTypeOK
    <3> QED BY <3>2, <3>3 DEF AtWork
  <2>3. CASE job[o].kind # "add"
    <3>1. stop' = [stop EXCEPT ![o] = "allow"] /\ UNCHANGED <<job, readAt>> BY <1>10, <2>3 DEF Status, Goes
    <3>2. stop' \in [Operators -> Stages] /\ stop'[o] = "allow" BY <3>1, <1>t DEF Stages
    <3>3. OverlayTypeOK' BY <1>t, <1>l, <2>1, <3>1, <3>2 DEF OverlayTypeOK
    <3>4. job[o].kind = "govern" /\ job[o] # Nil BY <2>0, <2>3, JobTypes
    <3> QED BY <3>1, <3>2, <3>3, <3>4 DEF AtWork
  <2> QED BY <2>2, <2>3
<1>11. CASE SetAllowlist(o) \/ Breaks(o)
  <2>1. stop' = [stop EXCEPT ![o] = "idle"] /\ job' = [job EXCEPT ![o] = Nil] /\ readAt' = [readAt EXCEPT ![o] = Absent]
        /\ stop[o] # "idle" /\ UNCHANGED <<overlay, file, restarts, gen, table>>
    BY <1>11 DEF SetAllowlist, Breaks, Finishes, Goes, keep, rollout
  <2>2. /\ stop' \in [Operators -> Stages] /\ job' \in [Operators -> Jobs \cup {Nil}]
        /\ readAt' \in [Operators -> 0..MaxVer] /\ stop'[o] = "idle"
    BY <2>1, <1>t, <1>v DEF Stages
  <2>3. job[o].key \in Keys BY <2>1, <1>0, JobTypes
  <2>4. allow' \in [Credentials -> Keys \cup {Nil}] BY <1>11, <1>t, <2>3 DEF SetAllowlist, Breaks, keep
  <2>5. made' \in [Operators -> WriteRecord \cup {Nil}] BY <1>11, <1>t DEF SetAllowlist, Breaks
  <2>6. OverlayTypeOK' BY <1>t, <1>l, <2>1, <2>2, <2>4, <2>5 DEF OverlayTypeOK
  <2> QED BY <2>2, <2>6 DEF AtWork
<1> QED BY <1>1, <1>2, <1>3, <1>4, <1>5, <1>6, <1>7, <1>8, <1>9, <1>10, <1>11 DEF Command

\* What the others do: a person's edit, kmx plane, a pod.
LEMMA OthersTyped ==
  ASSUME OverlayTypeOK,
         (\E e \in HandEdits : HandEdit(e)) \/ PlaneAgain \/ (\E p \in Proxies : Boot(p))
  PROVE  OverlayTypeOK' /\ UNCHANGED <<stop, job, readAt, file>>
<1> USE DEF versioned
<1>t. /\ overlay \in OverlayRecord /\ restarts \in 0..MaxRolls
      /\ made \in [Operators -> WriteRecord \cup {Nil}]
      /\ gen \in [Proxies -> 0..MaxRolls] /\ table \in [Proxies -> Maps] /\ MaxRolls \in Nat
  BY OverlayAssumption DEF OverlayTypeOK
<1>v. overlay.data \in Maps /\ overlay.applied \in SUBSET Keys BY <1>t DEF OverlayRecord
<1>1. ASSUME NEW e \in HandEdits, HandEdit(e) PROVE OverlayTypeOK' /\ UNCHANGED <<stop, job, readAt, file>>
  <2> DEFINE content == [overlay.data EXCEPT ![e.key] = e.frag]
  <2>1. e.frag \in Fragment \cup {Nil} BY OverlayAssumption
  <2>2. content \in Maps BY <2>1, <1>v, MapWith
  <2>3. Set(content, overlay.applied) /\ made' = Voids(content)
        /\ UNCHANGED <<stop, job, readAt, file, restarts, gen, table, allow, loose>>
    BY <1>1 DEF HandEdit, keep, rollout
  <2> HIDE DEF content
  <2>4. overlay' \in OverlayRecord BY <1>v, <2>2, <2>3, SetMoves
  <2>5. made' \in [Operators -> WriteRecord \cup {Nil}] BY <2>2, <2>3, VoidsTypes
  <2> QED BY <2>3, <2>4, <2>5 DEF OverlayTypeOK
<1>2. CASE PlaneAgain
  <2>1. restarts' \in 0..MaxRolls BY <1>2, <1>t DEF PlaneAgain
  <2> QED BY <1>2, <2>1 DEF PlaneAgain, OverlayTypeOK
<1>3. ASSUME NEW p \in Proxies, Boot(p) PROVE OverlayTypeOK' /\ UNCHANGED <<stop, job, readAt, file>>
  <2>1. gen' \in [Proxies -> 0..MaxRolls] /\ table' \in [Proxies -> Maps] BY <1>3, <1>t, <1>v DEF Boot
  <2> QED BY <1>3, <2>1 DEF Boot, OverlayTypeOK
<1> QED BY <1>1, <1>2, <1>3

LEMMA OverlayTypedStep == OverlayTyped /\ [OverlayNext]_overlayVars => OverlayTyped'
<1> SUFFICES ASSUME OverlayTyped, [OverlayNext]_overlayVars PROVE OverlayTyped' OBVIOUS
<1>1. ASSUME NEW o \in Operators, Command(o) PROVE OverlayTyped'
  <2>1. OverlayTypeOK' /\ AtWork(o)' BY <1>1, CommandTyped
  <2>2. Moved(o) BY <1>1, CommandMoves DEF OverlayTyped
  <2>3. ASSUME NEW q \in Operators, q # o PROVE AtWork(q)'
    BY <2>2, <2>3 DEF Moved, AtWork, OverlayTyped
  <2> QED BY <2>1, <2>3 DEF OverlayTyped
<1>2. CASE (\E e \in HandEdits : HandEdit(e)) \/ PlaneAgain \/ (\E p \in Proxies : Boot(p))
  BY <1>2, OthersTyped DEF OverlayTyped, AtWork
<1>3. CASE UNCHANGED overlayVars BY <1>3 DEF OverlayTyped, OverlayTypeOK, AtWork, overlayVars, rollout
<1> QED BY <1>1, <1>2, <1>3 DEF OverlayNext

LEMMA OverlayTypedInit == OverlayInit => OverlayTyped
<1> SUFFICES ASSUME OverlayInit PROVE OverlayTyped OBVIOUS
<1>1. overlay \in OverlayRecord BY OverlayAssumption DEF OverlayInit
<1>2. overlay.data \in Maps BY <1>1 DEF OverlayRecord
<1>3. MaxRolls \in Nat /\ MaxVer \in Nat BY OverlayAssumption
<1>4. loose \in BOOLEAN BY DEF OverlayInit
<1>6. OverlayTypeOK BY <1>1, <1>2, <1>3, <1>4 DEF OverlayInit, OverlayTypeOK, Stages, Absent
<1>5. \A o \in Operators : AtWork(o) BY DEF OverlayInit, AtWork
<1> QED BY <1>5, <1>6 DEF OverlayTyped

\* The overlay and the commands on it keep their types, and a command has in
\* hand what its stop is about (toolsadd.go, workflow.go).
THEOREM OverlayTypes == OverlaySpec => []OverlayTypeOK
<1>1. OverlaySpec => []OverlayTyped BY OverlayTypedInit, OverlayTypedStep, PTL DEF OverlaySpec
<1>2. OverlayTyped => OverlayTypeOK BY DEF OverlayTyped
<1> QED BY <1>1, <1>2, PTL

\* What a command wrote is in the map, and in every pod that booted since it
\* asked for the restart; once the rollout is done that is every pod.
Served(o) ==
  made[o] # Nil =>
    /\ overlay.data[made[o].key] = made[o].frag
    /\ stop[o] = "status" => \A p \in Proxies : gen[p] = restarts => table[p][made[o].key] = made[o].frag
    /\ stop[o] \notin {"restart", "status"} => \A p \in Proxies : table[p][made[o].key] = made[o].frag
ServeInv == (\A p \in Proxies : gen[p] <= restarts) /\ \A o \in Operators : Served(o)

\* A write that stands is one that was made before, and nobody undid it.
StillServes(q) ==
  made'[q] # Nil => made'[q] = made[q] /\ overlay'.data[made[q].key] = made[q].frag

LEMMA CommandWrites ==
  ASSUME OverlayTyped, ServeInv, NEW o \in Operators, Command(o)
  PROVE  \A q \in Operators : q # o => StillServes(q)
<1>t. overlay.ver \in 0..MaxVer /\ overlay.data \in Maps /\ OverlayTypeOK /\ overlay \in OverlayRecord
  BY DEF OverlayTyped, OverlayTypeOK, OverlayRecord
<1>w. made \in [Operators -> WriteRecord \cup {Nil}] BY <1>t DEF OverlayTypeOK
<1> SUFFICES ASSUME NEW q \in Operators, q # o PROVE StillServes(q) OBVIOUS
<1>s. made[q] # Nil => overlay.data[made[q].key] = made[q].frag BY DEF ServeInv, Served
<1>1. ASSUME NEW content, NEW w, made' = [Voids(content) EXCEPT ![o] = w] \/ made' = Voids(content),
             overlay'.data = content
      PROVE  StillServes(q)
  <2>1. Voids(content) \in [Operators -> WriteRecord \cup {Nil}] BY <1>t, VoidsTypes
  <2>2. made'[q] = Voids(content)[q] BY <1>1, <2>1
  <2>3. Voids(content)[q] # Nil => Voids(content)[q] = made[q] /\ content[made[q].key] = made[q].frag
    BY <1>t, VoidsTypes
  <2> QED BY <1>1, <2>2, <2>3 DEF StillServes
<1>2. ASSUME overlay'.data = overlay.data, made' = made \/ made' = [made EXCEPT ![o] = Nil] PROVE StillServes(q)
  <2>1. made'[q] = made[q] BY <1>2, <1>w
  <2> QED BY <1>2, <1>s, <2>1 DEF StillServes
<1>3. ASSUME NEW j \in Jobs, Add(o, j) \/ Govern(o, j) PROVE StillServes(q) BY <1>2, <1>3 DEF Add, Govern
<1>4. CASE Reread(o) \/ Discard(o) \/ GetAbsent(o) \/ MapCreated(o) \/ StillAsRead(o) \/ Roll(o) \/ Status(o)
           \/ Check(o) \/ SetAllowlist(o) \/ Breaks(o)
  BY <1>2, <1>4 DEF Reread, Discard, GetAbsent, MapCreated, StillAsRead, Roll, Status, Check, SetAllowlist, Breaks
<1>5. CASE CreateMap(o) BY <1>2, <1>5 DEF CreateMap, Set
<1>6. CASE AddApply(o)
  <2>1. overlay'.data = Merged(file[o]) BY <1>6 DEF AddApply, ApplyFile, Set
  <2>2. made' = [Voids(Merged(file[o])) EXCEPT ![o] = Written(o)] BY <1>6 DEF AddApply
  <2> QED BY <1>1, <2>1, <2>2
<1>7. CASE LaterApply(o)
  <2>1. overlay'.data = Merged(file[o]) BY <1>7 DEF LaterApply, ApplyFile, Set
  <2>2. made' = Voids(Merged(file[o])) BY <1>7 DEF LaterApply
  <2> QED BY <1>1, <2>1, <2>2
<1>8. CASE PatchKey(o)
  <2>1. overlay'.data = Patched(job[o].key, job[o].frag) BY <1>8 DEF PatchKey, Set
  <2>2. made' = [Voids(Patched(job[o].key, job[o].frag)) EXCEPT ![o] = Written(o)] BY <1>8 DEF PatchKey
  <2> QED BY <1>1, <2>1, <2>2
<1> QED BY <1>3, <1>4, <1>5, <1>6, <1>7, <1>8 DEF Command

\* A command's own write.
ServesOn(o) == Served(o)' /\ restarts' \in {restarts, restarts + 1}

LEMMA CommandServes ==
  ASSUME OverlayTyped, ServeInv, NEW o \in Operators, Command(o)
  PROVE  Served(o)' /\ restarts' \in {restarts, restarts + 1}
<1> SUFFICES ServesOn(o) BY DEF ServesOn
<1>t. overlay.ver \in 0..MaxVer /\ overlay.data \in Maps /\ OverlayTypeOK /\ overlay \in OverlayRecord
  BY DEF OverlayTyped, OverlayTypeOK, OverlayRecord
<1>w. /\ made \in [Operators -> WriteRecord \cup {Nil}] /\ restarts \in Nat
      /\ stop \in [Operators -> Stages] /\ file \in [Operators -> FileRecord \cup {Nil}]
      /\ gen \in [Proxies -> 0..MaxRolls] /\ MaxRolls \in Nat
  BY <1>t, OverlayAssumption DEF OverlayTypeOK
<1>a. AtWork(o) /\ Served(o) BY DEF OverlayTyped, ServeInv
<1>m. gen' = gen /\ table' = table BY <1>t, CommandMoves DEF Moved
<1>1. ASSUME made' = [made EXCEPT ![o] = Nil], restarts' = restarts PROVE ServesOn(o)
  BY <1>1, <1>w DEF Served, ServesOn
<1>2. ASSUME made' = made, overlay'.data = overlay.data, restarts' = restarts,
             stop[o] \notin {"restart", "status"}, stop'[o] \notin {"restart", "status"}
      PROVE  ServesOn(o)
  BY <1>2, <1>a, <1>m DEF Served, ServesOn
<1>3. ASSUME NEW j \in Jobs, Add(o, j) \/ Govern(o, j) PROVE ServesOn(o)
  BY <1>1, <1>3 DEF Add, Govern, keep, rollout
<1>4. CASE Breaks(o) BY <1>1, <1>4 DEF Breaks, keep, rollout
<1>5. CASE Reread(o) \/ Discard(o) \/ GetAbsent(o) \/ CreateMap(o)
  <2>1. made' = made /\ overlay'.data = overlay.data /\ restarts' = restarts
    BY <1>5 DEF Reread, Discard, GetAbsent, CreateMap, Set, keep, rollout
  <2>2. stop[o] \notin {"restart", "status"} BY <1>5 DEF Reread, Discard, GetAbsent, CreateMap
  <2>3. stop'[o] \notin {"restart", "status"} BY <1>5, <1>w DEF Reread, Discard, GetAbsent, CreateMap, Goes
  <2> QED BY <1>2, <2>1, <2>2, <2>3
<1>6. CASE MapCreated(o) \/ StillAsRead(o) \/ Check(o) \/ SetAllowlist(o)
  <2>1. made' = made /\ overlay'.data = overlay.data /\ restarts' = restarts
    BY <1>6 DEF MapCreated, StillAsRead, Check, SetAllowlist, keep, rollout
  <2>2. stop[o] \notin {"restart", "status"} BY <1>6 DEF MapCreated, StillAsRead, Check, SetAllowlist
  <2>3. stop'[o] \notin {"restart", "status"}
    BY <1>6, <1>w DEF MapCreated, StillAsRead, Check, SetAllowlist, Finishes, Goes
  <2> QED BY <1>2, <2>1, <2>2, <2>3
<1>7. ASSUME NEW content \in Maps, content[job[o].key] = job[o].frag, overlay'.data = content,
             made' = [Voids(content) EXCEPT ![o] = Written(o)], stop'[o] = "restart", restarts' = restarts
      PROVE  ServesOn(o)
  <2>1. Voids(content) \in [Operators -> WriteRecord \cup {Nil}] BY <1>t, VoidsTypes
  <2>2. made'[o] = Written(o) BY <1>7, <2>1
  <2>3. made'[o].key = job[o].key /\ made'[o].frag = job[o].frag BY <2>2 DEF Written
  <2>4. overlay'.data[made'[o].key] = made'[o].frag BY <1>7, <2>3
  <2> QED BY <1>7, <2>4 DEF Served, ServesOn
<1>8. CASE AddApply(o)
  <2> DEFINE content == Merged(file[o])
  <2>1. overlay'.data = content /\ made' = [Voids(content) EXCEPT ![o] = Written(o)] /\ restarts' = restarts
    BY <1>8 DEF AddApply, ApplyFile, Set, keep, rollout
  <2>2. stop[o] = "apply" /\ stop'[o] = "restart" BY <1>8, <1>w DEF AddApply, Goes
  <2>3. file[o] # Nil /\ file[o].data[job[o].key] = job[o].frag /\ job[o] # Nil BY <2>2, <1>a DEF AtWork
  <2>4. file[o] \in FileRecord BY <2>3, <1>w
  <2>5. content \in Maps BY <1>t, <2>4, MergedIsMap
  <2>6. job[o] \in Jobs BY <2>3, <1>t DEF OverlayTypeOK
  <2>7. job[o].kind = "add" BY <2>2, <1>a DEF AtWork
  <2>8. job[o].key \in Keys /\ job[o].frag # Nil BY <2>6, <2>7, JobTypes
  <2>9. content[job[o].key] = job[o].frag BY <2>3, <2>8 DEF Merged
  <2> HIDE DEF content
  <2> QED BY <1>7, <2>1, <2>2, <2>5, <2>9
<1>9. CASE LaterApply(o)
  <2> DEFINE content == Merged(file[o])
  <2>1. overlay'.data = content /\ made' = Voids(content) /\ restarts' = restarts /\ stop[o] = "idle" /\ stop' = stop
    BY <1>9 DEF LaterApply, ApplyFile, Set, keep, rollout
  <2>2. made'[o] # Nil => made'[o] = made[o] /\ content[made[o].key] = made[o].frag BY <1>t, <2>1, VoidsTypes
  <2> HIDE DEF content
  <2> QED BY <1>a, <1>m, <2>1, <2>2 DEF Served, ServesOn
<1>10. CASE PatchKey(o)
  <2> DEFINE content == Patched(job[o].key, job[o].frag)
  <2>1. overlay'.data = content /\ made' = [Voids(content) EXCEPT ![o] = Written(o)] /\ restarts' = restarts
    BY <1>10 DEF PatchKey, Set, keep, rollout
  <2>2. stop[o] = "patch" /\ stop'[o] = "restart" BY <1>10, <1>w DEF PatchKey, Goes
  <2>3. job[o] \in Jobs BY <2>2, <1>a, <1>t DEF AtWork, OverlayTypeOK
  <2>4. job[o].key \in Keys /\ job[o].frag \in Fragment \cup {Nil} BY <2>3, JobTypes
  <2>5. content \in Maps BY <1>t, <2>4, MapWith DEF Patched
  <2>6. content[job[o].key] = job[o].frag BY <1>t, <2>4 DEF Patched, Maps
  <2> HIDE DEF content
  <2> QED BY <1>7, <2>1, <2>2, <2>5, <2>6
<1>11. CASE Roll(o)
  <2>1. restarts' = restarts + 1 /\ made' = made /\ overlay' = overlay /\ stop[o] = "restart" /\ stop'[o] = "status"
    BY <1>11, <1>w DEF Roll, Goes
  <2>2. \A p \in Proxies : gen[p] # restarts + 1
    <3>1. \A p \in Proxies : gen[p] <= restarts /\ gen[p] \in 0..MaxRolls BY <1>w DEF ServeInv
    <3> QED BY <3>1, <1>w
  <2> QED BY <1>a, <1>m, <2>1, <2>2 DEF Served, ServesOn
<1>12. CASE Status(o)
  <2>1. stop[o] = "status" /\ made' = made /\ overlay' = overlay /\ restarts' = restarts
        /\ \A p \in Proxies : gen[p] = restarts
    BY <1>12 DEF Status, AllRolled, keep, rollout
  <2>2. stop'[o] \notin {"restart", "status"} BY <1>12, <1>w DEF Status, Finishes, Goes
  <2> QED BY <1>a, <1>m, <2>1, <2>2 DEF Served, ServesOn
<1>13. ServesOn(o) BY <1>3, <1>4, <1>5, <1>6, <1>8, <1>9, <1>10, <1>11, <1>12 DEF Command
<1> QED BY <1>13 DEF ServesOn

LEMMA ServeStep == OverlayTyped /\ ServeInv /\ [OverlayNext]_overlayVars => ServeInv'
<1> SUFFICES ASSUME OverlayTyped, ServeInv, [OverlayNext]_overlayVars PROVE ServeInv' OBVIOUS
<1>t. /\ OverlayTypeOK /\ gen \in [Proxies -> 0..MaxRolls] /\ restarts \in 0..MaxRolls /\ MaxRolls \in Nat
      /\ table \in [Proxies -> Maps] /\ overlay \in OverlayRecord
  BY OverlayAssumption DEF OverlayTyped, OverlayTypeOK
<1>g. \A p \in Proxies : gen[p] \in Nat /\ gen[p] <= restarts /\ restarts \in Nat BY <1>t DEF ServeInv
<1>1. ASSUME NEW o \in Operators, Command(o) PROVE ServeInv'
  <2>1. Served(o)' /\ restarts' \in {restarts, restarts + 1} BY <1>1, CommandServes DEF ServesOn
  <2>2. Moved(o) BY <1>1, <1>t, CommandMoves
  <2>3. \A p \in Proxies : gen'[p] = gen[p] /\ gen[p] <= restarts' /\ (gen[p] = restarts' => gen[p] = restarts)
    BY <1>g, <2>1, <2>2 DEF Moved
  <2>4. ASSUME NEW q \in Operators, q # o PROVE Served(q)'
    <3>1. StillServes(q) BY <1>1, <2>4, CommandWrites
    <3>2. stop'[q] = stop[q] /\ table' = table BY <2>2, <2>4 DEF Moved
    <3>3. Served(q) BY DEF ServeInv
    <3> QED BY <2>3, <3>1, <3>2, <3>3 DEF Served, StillServes
  <2> QED BY <2>1, <2>3, <2>4 DEF ServeInv
<1>2. ASSUME NEW e \in HandEdits, HandEdit(e) PROVE ServeInv'
  <2> DEFINE content == [overlay.data EXCEPT ![e.key] = e.frag]
  <2>1. overlay'.data = content /\ made' = Voids(content) /\ UNCHANGED <<stop, gen, table, restarts>>
    BY <1>2 DEF HandEdit, Set, keep, rollout
  <2> HIDE DEF content
  <2>2. \A o \in Operators : made'[o] # Nil => made'[o] = made[o] /\ content[made[o].key] = made[o].frag
    BY <1>t, <2>1, VoidsTypes
  <2>3. ASSUME NEW o \in Operators PROVE Served(o)'
    <3>1. Served(o) BY DEF ServeInv
    <3> QED BY <2>1, <2>2, <3>1 DEF Served
  <2> QED BY <2>1, <2>3 DEF ServeInv
<1>3. CASE PlaneAgain
  <2>1. restarts' = restarts + 1 /\ UNCHANGED <<overlay, gen, table, stop, made>> BY <1>3 DEF PlaneAgain
  <2>2. \A p \in Proxies : gen[p] <= restarts' /\ gen[p] # restarts' BY <1>g, <2>1
  <2>3. ASSUME NEW o \in Operators PROVE Served(o)'
    <3>1. Served(o) BY DEF ServeInv
    <3> QED BY <2>1, <2>2, <3>1 DEF Served
  <2> QED BY <2>1, <2>2, <2>3 DEF ServeInv
<1>4. ASSUME NEW p \in Proxies, Boot(p) PROVE ServeInv'
  <2>1. /\ UNCHANGED <<overlay, restarts, stop, made>>
        /\ gen' = [gen EXCEPT ![p] = restarts] /\ table' = [table EXCEPT ![p] = overlay.data]
    BY <1>4 DEF Boot
  <2>2. \A q \in Proxies : IF q = p THEN gen'[q] = restarts /\ table'[q] = overlay.data
                           ELSE gen'[q] = gen[q] /\ table'[q] = table[q]
    BY <1>t, <2>1
  <2>3. ASSUME NEW o \in Operators PROVE Served(o)'
    <3>1. Served(o) BY DEF ServeInv
    <3> QED BY <2>1, <2>2, <3>1 DEF Served
  <2>4. \A q \in Proxies : gen'[q] <= restarts' BY <1>g, <2>1, <2>2
  <2> QED BY <2>3, <2>4 DEF ServeInv
<1>5. CASE UNCHANGED overlayVars BY <1>5 DEF ServeInv, Served, overlayVars, rollout
<1> QED BY <1>1, <1>2, <1>3, <1>4, <1>5 DEF OverlayNext

\* A command that wrote its key, waited for the rollout and succeeded left
\* every pod serving what it wrote, until somebody changes the key: pods of a
\* rollout that another one overtook are gone by then (rollProxy).
THEOREM WrittenServes == OverlaySpec => []WrittenIsServed
<1>1. OverlayInit => ServeInv
  <2>1. \A p \in Proxies : OverlayInit => gen[p] = 0 /\ restarts = 0 BY DEF OverlayInit
  <2>2. OverlayInit => \A o \in Operators : Served(o) BY DEF OverlayInit, Served
  <2> QED BY <2>1, <2>2 DEF ServeInv
<1>2. OverlaySpec => [](OverlayTyped /\ ServeInv)
  BY OverlayTypedInit, OverlayTypedStep, ServeStep, <1>1, PTL DEF OverlaySpec
<1>3. ServeInv => WrittenIsServed BY DEF ServeInv, Served, WrittenIsServed
<1> QED BY <1>2, <1>3, PTL

-----------------------------------------------------------------------------
(* Nobody's fragment is lost, and the map always loads. *)

\* A map loads without a fragment that defines nothing.
LEMMA LoadsWithout ==
  ASSUME NEW m \in Maps, NEW k \in Keys, Loads(m), m[k] # Nil => m[k].ups = {}
  PROVE  Loads([m EXCEPT ![k] = Nil])
<1> DEFINE d == [m EXCEPT ![k] = Nil]
<1>1. \A i \in Keys : d[i] = IF i = k THEN Nil ELSE m[i] BY DEF Maps
<1> HIDE DEF d
<1>2. Holds(d) = Holds(m) \ {k} BY <1>1 DEF Holds
<1>3. \A i \in Holds(d) : d[i] = m[i] BY <1>1, <1>2 DEF Holds
<1>4. Defined(m) \subseteq Defined(d)
  <2> SUFFICES ASSUME NEW u \in Defined(m) PROVE u \in Defined(d) OBVIOUS
  <2>1. CASE u \in Base BY <2>1 DEF Defined
  <2>2. CASE u \notin Base
    <3>1. PICK i \in Holds(m) : u \in m[i].ups BY <2>2 DEF Defined
    <3>2. i # k BY <3>1 DEF Holds
    <3>3. i \in Holds(d) /\ u \in d[i].ups BY <3>1, <3>2, <1>2, <1>3
    <3> QED BY <3>3 DEF Defined
  <2> QED BY <2>1, <2>2
<1>5. \A i \in Holds(d) : d[i].ups \cap Base = {} BY <1>2, <1>3 DEF Loads
<1>6. \A i, j \in Holds(d) :
        i # j => d[i].ups \cap d[j].ups = {} /\ d[i].bounds \cap d[j].bounds = {}
  BY <1>2, <1>3 DEF Loads
<1>7. \A i \in Holds(d) : d[i].asks \subseteq Defined(d)
  <2>1. \A i \in Holds(m) : m[i].asks \subseteq Defined(m) BY DEF Loads
  <2> QED BY <1>2, <1>3, <1>4, <2>1
<1>8. Loads(d) BY <1>5, <1>6, <1>7 DEF Loads
<1> QED BY <1>8 DEF d

\* What is written under a blueprint's key is bounds.
LEMMA BareWrites ==
  /\ \A j \in Jobs : j.key \in GovernKeys /\ j.kind = "add" => FALSE
  /\ \A j \in Jobs : j.kind = "govern" => j.key \in GovernKeys /\ (j.frag # Nil => j.frag.ups = {})
  /\ \A e \in HandEdits : e.key \in GovernKeys /\ e.frag # Nil => e.frag.ups = {}
  /\ GovernKeys \subseteq Keys
<1>1. \A j \in Jobs : j.kind = "add" => j.key \notin GovernKeys BY OverlayAssumption
<1>2. \A j \in Jobs : j.kind = "govern" => (j.frag # Nil => j.frag.ups = {}) BY OverlayAssumption
<1>3. \A j \in Jobs : j.kind = "govern" => j.key \in GovernKeys BY DEF GovernKeys
<1>4. \A e \in HandEdits : e.key \in GovernKeys /\ e.frag # Nil => e.frag.ups = {} BY OverlayAssumption
<1>5. GovernKeys \subseteq Keys BY JobTypes DEF GovernKeys
<1> QED BY <1>1, <1>2, <1>3, <1>4, <1>5

LEMMA BareWith ==
  ASSUME NEW m \in Maps, NEW k \in Keys, NEW f, Bare(m), k \in GovernKeys /\ f # Nil => f.ups = {}
  PROVE  Bare([m EXCEPT ![k] = f])
<1> DEFINE d == [m EXCEPT ![k] = f]
<1>1. \A i \in Keys : d[i] = IF i = k THEN f ELSE m[i] BY DEF Maps
<1> HIDE DEF d
<1>2. Bare(d) BY <1>1, BareWrites DEF Bare
<1> QED BY <1>2 DEF d

LEMMA BareMerged ==
  ASSUME NEW f, Bare(f.data), Bare(overlay.data)
  PROVE  Bare(Merged(f))
BY BareWrites DEF Bare, Merged

\* A manifest is what was read and one fragment more, as long as the version
\* has not moved; what a command was told would load still does.
AsRead(o) ==
  file[o] # Nil =>
    /\ Loads(file[o].data) /\ Bare(file[o].data) /\ file[o].data[file[o].key] # Nil
    /\ file[o].ver <= overlay.ver
    /\ overlay.ver = file[o].ver => \A k \in Keys \ {file[o].key} : overlay.data[k] = file[o].data[k]
    /\ file[o].ver = Absent => \A k \in Keys \ {file[o].key} : file[o].data[k] = Nil
Known(o) ==
  /\ readAt[o] <= overlay.ver
  /\ stop[o] = "created" => loose \/ Loads([EmptyMap EXCEPT ![job[o].key] = job[o].frag])
  /\ stop[o] \in {"write", "remove", "create", "patch"} /\ overlay.ver = readAt[o] =>
       loose \/ Loads(Patched(job[o].key, job[o].frag))
HereInv == IF overlay.here THEN overlay.ver # Absent ELSE overlay.ver = Absent /\ overlay.data = EmptyMap
MapInv == HereInv /\ MapLoads /\ Bare(overlay.data) /\ \A o \in Operators : AsRead(o) /\ Known(o)

\* An accepted manifest puts back all that is there, and adds its key, but
\* for one from before there was a map.
LEMMA AppliesAsRead ==
  ASSUME OverlayTyped, MapInv, NEW o \in Operators, ApplyFile(o), file[o].ver # Absent \/ ~overlay.here
  PROVE  /\ Merged(file[o]) = file[o].data /\ Loads(file[o].data)
         /\ \A k \in Keys \ {file[o].key} : file[o].data[k] = overlay.data[k]
<1>1. file[o] # Nil /\ ApplyAccepted(file[o]) BY DEF ApplyFile
<1>2. AsRead(o) /\ HereInv BY DEF MapInv
<1>3. overlay.ver = file[o].ver BY <1>1, <1>2 DEF AsRead, HereInv, ApplyAccepted, Absent
<1>4. \A k \in Keys \ {file[o].key} : overlay.data[k] = file[o].data[k] BY <1>1, <1>2, <1>3 DEF AsRead
<1>5. file[o].data[file[o].key] # Nil /\ Loads(file[o].data) BY <1>1, <1>2 DEF AsRead
<1>6. file[o].data \in Maps BY <1>1 DEF OverlayTyped, OverlayTypeOK, FileRecord
<1>7. \A k \in Keys : file[o].data[k] = Nil => k # file[o].key /\ overlay.data[k] = Nil BY <1>4, <1>5
<1>8. Merged(file[o]) = [k \in Keys |-> file[o].data[k]] BY <1>7 DEF Merged
<1>9. file[o].data = [k \in Keys |-> file[o].data[k]] BY <1>6 DEF Maps
<1> QED BY <1>4, <1>5, <1>8, <1>9

\* And that one takes away no more than the manifest before it brought.
LEMMA AppliesBlind ==
  ASSUME OverlayTyped, MapInv, NEW o \in Operators, ApplyFile(o), file[o].ver = Absent
  PROVE  \A k \in Keys \ {file[o].key} :
           Merged(file[o])[k] = overlay.data[k] \/ (k \in overlay.applied /\ Merged(file[o])[k] = Nil)
<1>1. file[o] # Nil BY DEF ApplyFile
<1>2. \A k \in Keys \ {file[o].key} : file[o].data[k] = Nil BY <1>1 DEF MapInv, AsRead
<1> QED BY <1>2 DEF Merged

\* The map as it was, or a version on.
MapMoves == (overlay' = overlay \/ (overlay'.here /\ overlay'.ver = overlay.ver + 1)) /\ (loose => loose')

\* Whoever does nothing loses nothing by another's write.
LEMMA OthersKeep ==
  ASSUME OverlayTyped, MapInv, MapMoves, NEW q \in Operators,
         stop'[q] = stop[q], job'[q] = job[q], readAt'[q] = readAt[q], file'[q] = file[q]
  PROVE  AsRead(q)' /\ Known(q)'
<1>t. /\ overlay.ver \in Nat /\ readAt[q] \in Nat
      /\ file[q] # Nil => file[q].ver \in Nat
  <2>1. overlay \in OverlayRecord /\ readAt \in [Operators -> 0..MaxVer] /\ file \in [Operators -> FileRecord \cup {Nil}]
        /\ MaxVer \in Nat
    BY OverlayAssumption DEF OverlayTyped, OverlayTypeOK
  <2> QED BY <2>1 DEF OverlayRecord, FileRecord
<1>a. AsRead(q) /\ Known(q) /\ (loose => loose') BY DEF MapInv, MapMoves
<1>1. CASE overlay' = overlay
  <2>1. AsRead(q)' BY <1>a, <1>1 DEF AsRead
  <2>2. Known(q)' BY <1>a, <1>1 DEF Known, Patched
  <2> QED BY <2>1, <2>2
<1>2. CASE overlay'.here /\ overlay'.ver = overlay.ver + 1
  <2>1. AsRead(q)' BY <1>a, <1>t, <1>2 DEF AsRead
  <2>2. readAt[q] <= overlay'.ver /\ overlay'.ver # readAt[q] BY <1>a, <1>t, <1>2 DEF Known
  <2>3. Known(q)' BY <1>a, <2>2 DEF Known
  <2> QED BY <2>1, <2>3
<1> QED BY <1>1, <1>2 DEF MapMoves

\* A command's own part of it, and what it makes of the map.
KeepsMap(o) == AsRead(o)' /\ Known(o)' /\ HereInv' /\ MapLoads' /\ Bare(overlay.data)' /\ MapMoves

LEMMA CommandKeepsMap ==
  ASSUME OverlayTyped, MapInv, NEW o \in Operators, Command(o)
  PROVE  KeepsMap(o)
<1>t. /\ OverlayTypeOK /\ overlay \in OverlayRecord /\ overlay.data \in Maps /\ overlay.ver \in Nat
      /\ stop \in [Operators -> Stages] /\ job \in [Operators -> Jobs \cup {Nil}]
      /\ readAt \in [Operators -> 0..MaxVer] /\ file \in [Operators -> FileRecord \cup {Nil}]
      /\ MaxVer \in Nat
  BY OverlayAssumption DEF OverlayTyped, OverlayTypeOK, OverlayRecord
<1>s. readAt[o] \in Nat /\ (file[o] # Nil => file[o].ver \in Nat /\ file[o] \in FileRecord) BY <1>t DEF FileRecord
<1>a. AtWork(o) /\ AsRead(o) /\ Known(o) /\ HereInv /\ MapLoads /\ Bare(overlay.data) BY DEF OverlayTyped, MapInv
<1>l. loose => loose' BY <1>t, CommandLoose DEF LooseGrows
<1>j. stop[o] # "idle" => job[o] \in Jobs /\ job[o].key \in Keys /\ job[o].frag \in Fragment \cup {Nil}
  BY <1>a, <1>t, JobTypes DEF AtWork
<1>v. Version = overlay.ver BY <1>a DEF Version, HereInv
\* Nothing is written.
<1>n. ASSUME overlay' = overlay PROVE HereInv' /\ MapLoads' /\ Bare(overlay.data)' /\ MapMoves
  BY <1>a, <1>l, <1>n DEF HereInv, MapLoads, MapMoves
<1>f. ASSUME overlay' = overlay, file' = file PROVE AsRead(o)' BY <1>a, <1>f DEF AsRead
\* Something is.
<1>w. ASSUME NEW content \in Maps, NEW applied \in SUBSET Keys, Set(content, applied),
             loose' \/ Loads(content), Bare(content), file'[o] = file[o] \/ file'[o] = Nil
      PROVE  HereInv' /\ MapLoads' /\ Bare(overlay.data)' /\ MapMoves /\ AsRead(o)' /\ overlay'.data = content
             /\ overlay'.here /\ overlay'.ver = overlay.ver + 1
  <2>1. overlay'.here /\ overlay'.ver = overlay.ver + 1 /\ overlay'.data = content BY <1>w, <1>t, SetMoves
  <2>2. overlay'.ver # Absent BY <1>t, <2>1 DEF Absent
  <2>3. HereInv' /\ MapLoads' /\ MapMoves BY <1>l, <1>w, <2>1, <2>2 DEF HereInv, MapLoads, MapMoves
  <2>4. Bare(overlay.data)' BY <1>w, <2>1
  <2>5. AsRead(o)'
    <3>1. CASE file'[o] = Nil BY <3>1 DEF AsRead
    <3>2. CASE file'[o] = file[o] /\ file[o] # Nil
      <4>1. file[o].ver <= overlay.ver BY <1>a, <3>2 DEF AsRead
      <4>2. file[o].ver <= overlay'.ver /\ overlay'.ver # file[o].ver BY <1>s, <1>t, <2>1, <3>2, <4>1
      <4> QED BY <1>a, <3>2, <4>2 DEF AsRead
    <3> QED BY <1>w, <3>1, <3>2
  <2> QED BY <2>1, <2>3, <2>4, <2>5
<1>1. ASSUME NEW j \in Jobs, Add(o, j) PROVE KeepsMap(o)
  <2> DEFINE candidate == [overlay.data EXCEPT ![j.key] = j.frag]
             manifest == [key |-> j.key, data |-> candidate, ver |-> Version]
  <2>1. j.key \in Keys /\ j.frag \in Fragment /\ j.frag # Nil BY <1>1, JobTypes DEF Add
  <2>2. \A k \in Keys : candidate[k] = IF k = j.key THEN j.frag ELSE overlay.data[k] BY <1>t, <2>1 DEF Maps
  <2>3. Loads(candidate) /\ file' = [file EXCEPT ![o] = manifest] /\ overlay' = overlay /\ readAt' = readAt
    BY <1>1 DEF Add
  <2> HIDE DEF candidate
  <2>4. manifest.key = j.key /\ manifest.data = candidate /\ manifest.ver = Version OBVIOUS
  <2> HIDE DEF manifest
  <2>5. file'[o] = manifest BY <1>t, <2>3
  <2>6. Version = Absent => \A k \in Keys : overlay.data[k] = Nil BY <1>a, <1>v DEF HereInv, EmptyMap
  <2>b. Bare(candidate)
    <3>1. j.key \notin GovernKeys BY <1>1, BareWrites DEF Add
    <3>2. \A k \in GovernKeys : candidate[k] = overlay.data[k] BY <2>2, <3>1, BareWrites
    <3> QED BY <1>a, <3>2 DEF Bare
  <2>7. AsRead(o)' BY <1>t, <1>v, <2>1, <2>2, <2>3, <2>4, <2>5, <2>6, <2>b DEF AsRead
  <2>8. stop'[o] \in {"idle", "reread"}
    <3>1. CASE j.later
      <4>1. stop' = stop /\ stop[o] = "idle" BY <1>1, <3>1 DEF Add
      <4> QED BY <4>1
    <3>2. CASE ~j.later BY <1>1, <1>t, <3>2 DEF Add, Goes
    <3> QED BY <3>1, <3>2
  <2>9. Known(o)' BY <1>a, <2>3, <2>8 DEF Known
  <2> QED BY <1>n, <2>3, <2>7, <2>9 DEF KeepsMap
<1>2. ASSUME NEW j \in Jobs, Govern(o, j) PROVE KeepsMap(o)
  <2>1. stop' = [stop EXCEPT ![o] = Decision(j)] /\ job' = [job EXCEPT ![o] = j] /\ readAt' = [readAt EXCEPT ![o] = Version]
        /\ overlay' = overlay /\ file' = file /\ MayGovern(j)
    BY <1>2 DEF Govern, Goes
  <2>2. stop'[o] = Decision(j) /\ job'[o] = j /\ readAt'[o] = overlay.ver BY <1>t, <1>v, <2>1
  <2>3. Decision(j) \in {"allow", "write", "remove", "check", "idle"} BY DEF Decision
  <2>4. Decision(j) = "write" => j.frag # Nil BY DEF Decision
  <2>5. Decision(j) = "remove" => j.frag = Nil BY DEF Decision
  <2>6. Decision(j) = "write" => Loads(Patched(j.key, j.frag)) BY <2>1, <2>4 DEF MayGovern, Patched
  <2>7. j.key \in Keys BY JobTypes
  <2>8. Decision(j) = "remove" => loose \/ Loads(Patched(j.key, j.frag))
    <3>1. j.key \in GovernKeys BY <1>2, BareWrites DEF Govern
    <3>2. overlay.data[j.key] # Nil => overlay.data[j.key].ups = {} BY <1>a, <3>1 DEF Bare
    <3>3. loose \/ Loads([overlay.data EXCEPT ![j.key] = Nil]) BY <1>a, <1>t, <2>7, <3>2, LoadsWithout DEF MapLoads
    <3> QED BY <2>5, <3>3 DEF Patched
  <2>9. Patched(j.key, j.frag)' = Patched(j.key, j.frag) BY <2>1 DEF Patched
  <2>10. Known(o)'
    <3>1. Loads(Patched(job[o].key, job[o].frag))' = Loads(Patched(j.key, j.frag)) BY <2>1, <2>2 DEF Patched
    <3> QED BY <1>l, <1>t, <2>1, <2>2, <2>3, <2>6, <2>8, <3>1 DEF Known
  <2> QED BY <1>n, <1>f, <2>1, <2>10 DEF KeepsMap
<1>3. CASE Reread(o) \/ GetAbsent(o) \/ Check(o) \/ Roll(o)
  <2>1. overlay' = overlay /\ UNCHANGED <<job, readAt, file>> BY <1>3 DEF Reread, GetAbsent, Check, Roll
  <2>2. stop'[o] \in {"apply", "create", "allow", "status"} BY <1>3, <1>t DEF Reread, GetAbsent, Check, Roll, Goes
  <2>3. stop'[o] = "create" => stop[o] = "write" BY <1>3, <1>t DEF Reread, GetAbsent, Check, Roll, Goes
  <2>4. Known(o)' BY <1>a, <1>l, <2>1, <2>2, <2>3 DEF Known, Patched
  <2> QED BY <1>n, <1>f, <2>1, <2>4 DEF KeepsMap
<1>4. CASE AddApply(o) \/ LaterApply(o)
  <2>1. ApplyFile(o) BY <1>4 DEF AddApply, LaterApply
  <2>2. file[o] # Nil /\ Set(Merged(file[o]), Holds(file[o].data)) /\ file' = [file EXCEPT ![o] = Nil] /\ readAt' = readAt
    BY <2>1 DEF ApplyFile
  <2>3. Merged(file[o]) \in Maps BY <1>s, <1>t, <2>2, MergedIsMap
  <2>4. loose' \/ Loads(Merged(file[o]))
    <3>1. CASE file[o].ver # Absent \/ ~overlay.here BY <2>1, <3>1, AppliesAsRead
    <3>2. CASE file[o].ver = Absent /\ overlay.here BY <2>1, <3>2 DEF ApplyFile
    <3> QED BY <3>1, <3>2
  <2>b. Bare(Merged(file[o])) BY <1>a, <2>2, BareMerged DEF AsRead
  <2>5. Holds(file[o].data) \in SUBSET Keys BY DEF Holds
  <2>6. file'[o] = Nil BY <1>t, <2>2
  <2>7. HereInv' /\ MapLoads' /\ Bare(overlay.data)' /\ MapMoves /\ AsRead(o)' /\ overlay'.ver = overlay.ver + 1
    BY <1>w, <2>2, <2>3, <2>4, <2>5, <2>6, <2>b
  <2>8. stop'[o] \in {"restart", "idle"} BY <1>4, <1>t DEF AddApply, LaterApply, Goes
  <2>9. Known(o)' BY <1>a, <1>s, <1>t, <2>2, <2>7, <2>8 DEF Known
  <2> QED BY <2>7, <2>9 DEF KeepsMap
<1>5. CASE Discard(o)
  <2>1. overlay' = overlay /\ UNCHANGED <<stop, job, readAt>> /\ file' = [file EXCEPT ![o] = Nil] BY <1>5 DEF Discard
  <2>2. AsRead(o)' BY <1>t, <2>1 DEF AsRead
  <2>3. Known(o)' BY <1>a, <1>l, <2>1 DEF Known, Patched
  <2> QED BY <1>n, <2>1, <2>2, <2>3 DEF KeepsMap
<1>6. CASE CreateMap(o)
  <2>1. Set(overlay.data, {}) /\ stop' = [stop EXCEPT ![o] = "created"] /\ file' = file /\ readAt' = readAt /\ ~overlay.here
        /\ stop[o] = "create" /\ job' = job
    BY <1>6 DEF CreateMap, Goes
  <2>2. HereInv' /\ MapLoads' /\ Bare(overlay.data)' /\ MapMoves /\ AsRead(o)' /\ overlay'.ver = overlay.ver + 1
    BY <1>a, <1>l, <1>t, <1>w, <2>1 DEF MapLoads
  <2>3. overlay.data = EmptyMap /\ overlay.ver = readAt[o] BY <1>a, <1>s, <1>t, <2>1 DEF HereInv, Known, Absent
  <2>4. stop'[o] = "created" BY <1>t, <2>1
  <2>5. loose \/ Loads([EmptyMap EXCEPT ![job[o].key] = job[o].frag]) BY <1>a, <2>1, <2>3 DEF Known, Patched
  <2>6. readAt'[o] <= overlay'.ver BY <1>s, <1>t, <2>1, <2>2, <2>3
  <2>7. Known(o)' BY <1>l, <2>1, <2>4, <2>5, <2>6 DEF Known
  <2> QED BY <2>2, <2>7 DEF KeepsMap
<1>7. CASE MapCreated(o)
  <2>1. stop[o] = "created" /\ stop' = [stop EXCEPT ![o] = "patch"] /\ readAt' = [readAt EXCEPT ![o] = overlay.ver]
        /\ overlay' = overlay /\ job' = job /\ file' = file
    BY <1>7 DEF MapCreated, Goes
  <2>2. loose' \/ overlay.data = EmptyMap BY <1>7 DEF MapCreated
  <2>3. loose' \/ Loads([EmptyMap EXCEPT ![job[o].key] = job[o].frag]) BY <1>a, <1>l, <2>1 DEF Known
  <2>7. loose' \/ Loads(Patched(job[o].key, job[o].frag)) BY <2>2, <2>3 DEF Patched
  <2>8. loose' \/ Loads(Patched(job[o].key, job[o].frag))' BY <2>1, <2>7 DEF Patched
  <2>9. stop'[o] = "patch" /\ readAt'[o] = overlay.ver BY <1>t, <2>1
  <2>10. Known(o)' BY <1>t, <2>1, <2>8, <2>9 DEF Known
  <2> QED BY <1>n, <1>f, <2>1, <2>10 DEF KeepsMap
<1>8. CASE StillAsRead(o)
  <2>1. stop[o] \in {"write", "remove"} /\ overlay.here /\ overlay.ver = readAt[o] /\ stop' = [stop EXCEPT ![o] = "patch"]
        /\ overlay' = overlay /\ job' = job /\ readAt' = readAt /\ file' = file
    BY <1>8 DEF StillAsRead, Goes
  <2>2. loose \/ Loads(Patched(job[o].key, job[o].frag)) BY <1>a, <2>1 DEF Known
  <2>3. loose' \/ Loads(Patched(job[o].key, job[o].frag))' BY <1>l, <2>1, <2>2 DEF Patched
  <2>4. stop'[o] = "patch" BY <1>t, <2>1
  <2>5. Known(o)' BY <1>a, <2>1, <2>3, <2>4 DEF Known
  <2> QED BY <1>n, <1>f, <2>1, <2>5 DEF KeepsMap
<1>9. CASE PatchKey(o)
  <2> DEFINE content == Patched(job[o].key, job[o].frag)
  <2>1. stop[o] = "patch" /\ overlay.ver = readAt[o] /\ stop' = [stop EXCEPT ![o] = "restart"]
        /\ readAt' = [readAt EXCEPT ![o] = Absent] /\ file' = file /\ job' = job
        /\ (overlay' = overlay \/ Set(content, overlay.applied))
    BY <1>9 DEF PatchKey, PatchAccepted, Goes
  <2>2. loose' \/ Loads(content) BY <1>a, <1>l, <2>1 DEF Known
  <2>3. content \in Maps BY <1>j, <1>t, <2>1, MapWith DEF Patched
  <2>b. Bare(content)
    <3>1. job[o].kind = "govern" BY <1>a, <2>1 DEF AtWork
    <3>2. job[o].frag # Nil => job[o].frag.ups = {} BY <1>j, <2>1, <3>1, BareWrites
    <3> QED BY <1>a, <1>j, <1>t, <2>1, <3>2, BareWith DEF Patched
  <2> HIDE DEF content
  <2>4. overlay.applied \in SUBSET Keys BY <1>t DEF OverlayRecord
  <2>5. HereInv' /\ MapLoads' /\ Bare(overlay.data)' /\ MapMoves /\ AsRead(o)'
    BY <1>n, <1>f, <1>w, <2>1, <2>2, <2>3, <2>4, <2>b
  <2>6. stop'[o] = "restart" /\ readAt'[o] = 0 BY <1>t, <2>1 DEF Absent
  <2>7. overlay'.ver \in Nat
    <3>1. overlay'.ver = overlay.ver \/ overlay'.ver = overlay.ver + 1 BY <2>5 DEF MapMoves
    <3> QED BY <3>1, <1>t
  <2>8. Known(o)' BY <2>6, <2>7 DEF Known
  <2> QED BY <2>5, <2>8 DEF KeepsMap
<1>10. CASE Status(o) \/ SetAllowlist(o) \/ Breaks(o)
  <2>1. overlay' = overlay /\ file' = file BY <1>10 DEF Status, SetAllowlist, Breaks
  <2>2. stop'[o] \in {"idle", "allow"} BY <1>10, <1>t DEF Status, SetAllowlist, Breaks, Finishes, Goes
  <2>3. readAt'[o] = readAt[o] \/ readAt'[o] = 0 BY <1>10, <1>t DEF Status, SetAllowlist, Breaks, Finishes, Absent
  <2>4. Known(o)' BY <1>a, <1>t, <2>1, <2>2, <2>3 DEF Known
  <2> QED BY <1>n, <1>f, <2>1, <2>4 DEF KeepsMap
<1> QED BY <1>1, <1>2, <1>3, <1>4, <1>5, <1>6, <1>7, <1>8, <1>9, <1>10 DEF Command

LEMMA MapStep == OverlayTyped /\ MapInv /\ [OverlayNext]_overlayVars => MapInv'
<1> SUFFICES ASSUME OverlayTyped, MapInv, [OverlayNext]_overlayVars PROVE MapInv' OBVIOUS
<1>t. OverlayTypeOK /\ overlay.data \in Maps /\ overlay.applied \in SUBSET Keys /\ overlay.ver \in Nat
  BY OverlayAssumption DEF OverlayTyped, OverlayTypeOK, OverlayRecord
<1>1. ASSUME NEW o \in Operators, Command(o) PROVE MapInv'
  <2>1. KeepsMap(o) BY <1>1, CommandKeepsMap
  <2>2. Moved(o) BY <1>1, <1>t, CommandMoves
  <2>3. ASSUME NEW q \in Operators, q # o PROVE AsRead(q)' /\ Known(q)'
    BY <2>1, <2>2, <2>3, OthersKeep DEF Moved, KeepsMap
  <2> QED BY <2>1, <2>3 DEF MapInv, KeepsMap
<1>2. ASSUME overlay' = overlay, UNCHANGED <<stop, job, readAt, file, loose>> PROVE MapInv'
  <2>1. MapMoves BY <1>2 DEF MapMoves
  <2>2. \A q \in Operators : AsRead(q)' /\ Known(q)' BY <1>2, <2>1, OthersKeep
  <2> QED BY <1>2, <2>2 DEF MapInv, HereInv, MapLoads
<1>3. ASSUME NEW e \in HandEdits, HandEdit(e) PROVE MapInv'
  <2> DEFINE content == [overlay.data EXCEPT ![e.key] = e.frag]
  <2>1. Set(content, overlay.applied) /\ Loads(content) /\ UNCHANGED <<stop, job, readAt, file, loose>>
    BY <1>3 DEF HandEdit, versioned
  <2>2. e.frag \in Fragment \cup {Nil} /\ e.key \in Keys BY OverlayAssumption
  <2>3. content \in Maps BY <1>t, <2>2, MapWith
  <2>b. Bare(content) BY <1>t, <2>2, BareWith, BareWrites DEF MapInv
  <2> HIDE DEF content
  <2>4. overlay'.here /\ overlay'.ver = overlay.ver + 1 /\ overlay'.data = content BY <1>t, <2>1, <2>3, SetMoves
  <2>5. MapMoves BY <2>1, <2>4 DEF MapMoves
  <2>6. \A q \in Operators : AsRead(q)' /\ Known(q)' BY <2>1, <2>5, OthersKeep
  <2>7. overlay'.ver # Absent BY <1>t, <2>4 DEF Absent
  <2>8. Bare(overlay.data)' BY <2>4, <2>b
  <2> QED BY <2>1, <2>4, <2>6, <2>7, <2>8 DEF MapInv, HereInv, MapLoads
<1>4. ASSUME NEW p \in Proxies, Boot(p) PROVE MapInv' BY <1>2, <1>4 DEF Boot, versioned
<1>5. CASE PlaneAgain BY <1>2, <1>5 DEF PlaneAgain, versioned
<1>6. CASE UNCHANGED overlayVars BY <1>2, <1>6 DEF overlayVars
<1> QED BY <1>1, <1>3, <1>4, <1>5, <1>6 DEF OverlayNext

LEMMA MapInit == OverlayInit => MapInv
<1> SUFFICES ASSUME OverlayInit PROVE MapInv OBVIOUS
<1>1. overlay \in OverlayRecord /\ Loads(overlay.data) /\ Bare(overlay.data)
      /\ IF overlay.here THEN overlay.ver # Absent ELSE overlay.ver = Absent /\ overlay.data = EmptyMap
  BY OverlayAssumption DEF OverlayInit
<1>2. overlay.ver \in Nat BY <1>1, OverlayAssumption DEF OverlayRecord
<1>3. ASSUME NEW o \in Operators PROVE AsRead(o) /\ Known(o)
  <2>1. stop[o] = "idle" /\ readAt[o] = 0 /\ file[o] = Nil BY DEF OverlayInit, Absent
  <2> QED BY <1>2, <2>1 DEF AsRead, Known
<1> QED BY <1>1, <1>3 DEF MapInv, HereInv, MapLoads

LEMMA MapHolds == OverlaySpec => [](OverlayTyped /\ MapInv)
BY MapStep, OverlayTypedInit, OverlayTypedStep, MapInit, PTL DEF OverlaySpec

\* Whatever happens between the plane's answer and the write, the map that
\* results is one a proxy boots on, until somebody writes without a version
\* to be refused by: nobody is asked to wait for a rollout that cannot come
\* (validateOverlay, validateWorkflowOverlay, overlayPatch).
THEOREM MapAlwaysLoads == OverlaySpec => []MapLoads
<1>1. MapInv => MapLoads BY DEF MapInv
<1> QED BY <1>1, MapHolds, PTL

\* A command changes its own key of the overlay and nobody else's, whoever
\* else is writing, and a manifest from before there was a map takes no more
\* than its predecessor brought (overlayDocument, writeOverlayFragment).
THEOREM FragmentsAreKept == OverlaySpec => ForeignFragmentsKept
<1> DEFINE Foreign == \A k \in Keys :
       overlay'.data[k] # overlay.data[k] /\ ~ByHand =>
         \E o \in Operators :
           \/ file[o] # Nil /\ file'[o] = Nil /\ (file[o].key = k \/ Prunes(file[o], k))
           \/ stop[o] = "patch" /\ stop'[o] = "restart" /\ job[o].key = k
<1>1. ASSUME OverlayTyped, MapInv, [OverlayNext]_overlayVars PROVE [Foreign]_overlayVars
  <2>t. OverlayTypeOK /\ overlay.data \in Maps /\ stop \in [Operators -> Stages]
        /\ file \in [Operators -> FileRecord \cup {Nil}]
    BY <1>1 DEF OverlayTyped, OverlayTypeOK, OverlayRecord
  <2>1. ASSUME overlay'.data = overlay.data PROVE Foreign BY <2>1
  <2>2. ASSUME NEW o \in Operators, Command(o) PROVE Foreign
    <3>1. ASSUME NEW j \in Jobs, Add(o, j) \/ Govern(o, j) PROVE Foreign BY <2>1, <3>1 DEF Add, Govern
    <3>2. CASE Reread(o) \/ Discard(o) \/ GetAbsent(o) \/ MapCreated(o) \/ StillAsRead(o) \/ Roll(o) \/ Status(o)
               \/ Check(o) \/ SetAllowlist(o) \/ Breaks(o)
      BY <2>1, <3>2 DEF Reread, Discard, GetAbsent, MapCreated, StillAsRead, Roll, Status, Check, SetAllowlist, Breaks
    <3>3. CASE CreateMap(o) BY <2>1, <3>3 DEF CreateMap, Set
    <3>4. CASE AddApply(o) \/ LaterApply(o)
      <4>1. ApplyFile(o) BY <3>4 DEF AddApply, LaterApply
      <4>2. overlay'.data = Merged(file[o]) /\ file[o] # Nil /\ file' = [file EXCEPT ![o] = Nil]
        BY <4>1 DEF ApplyFile, Set
      <4>3. file'[o] = Nil BY <2>t, <4>2
      <4>4. ASSUME NEW k \in Keys, k # file[o].key, overlay'.data[k] # overlay.data[k]
            PROVE  Prunes(file[o], k)
        <5>1. file[o].ver = Absent /\ overlay.here
          <6>1. CASE file[o].ver # Absent \/ ~overlay.here
            <7>1. Merged(file[o])[k] = overlay.data[k] BY <1>1, <4>1, <4>4, <6>1, AppliesAsRead
            <7> QED BY <4>2, <4>4, <7>1
          <6> QED BY <6>1
        <5>2. Merged(file[o])[k] = overlay.data[k] \/ (k \in overlay.applied /\ Merged(file[o])[k] = Nil)
          BY <1>1, <4>1, <4>4, <5>1, AppliesBlind
        <5> QED BY <4>2, <4>4, <5>1, <5>2 DEF Prunes
      <4> QED BY <4>2, <4>3, <4>4
    <3>5. CASE PatchKey(o)
      <4>1. overlay'.data = Patched(job[o].key, job[o].frag) /\ stop[o] = "patch" /\ stop' = [stop EXCEPT ![o] = "restart"]
        BY <3>5 DEF PatchKey, Set, Goes
      <4>2. stop'[o] = "restart" BY <2>t, <4>1
      <4>3. \A k \in Keys : k # job[o].key => overlay'.data[k] = overlay.data[k] BY <2>t, <4>1 DEF Patched, Maps
      <4> QED BY <4>1, <4>2, <4>3
    <3> HIDE DEF Foreign
    <3> QED BY <2>2, <3>1, <3>2, <3>3, <3>4, <3>5 DEF Command
  <2>3. ASSUME NEW e \in HandEdits, HandEdit(e) PROVE Foreign BY <2>3 DEF HandEdit, ByHand
  <2>4. ASSUME NEW p \in Proxies, Boot(p) PROVE Foreign BY <2>1, <2>4 DEF Boot
  <2>5. CASE PlaneAgain BY <2>1, <2>5 DEF PlaneAgain
  <2> HIDE DEF Foreign
  <2> QED BY <1>1, <2>2, <2>3, <2>4, <2>5 DEF OverlayNext
<1> QED BY <1>1, MapHolds, PTL DEF OverlaySpec, ForeignFragmentsKept

-----------------------------------------------------------------------------
(* Egress. *)

\* One call's vetting and its count of bytes, from the lookup to the end.
EgressInv ==
  /\ phase \in {"idle", "dial", "header", "body", "closed"}
  /\ \A a \in answers : ~Refused(a)
  /\ dialed # None => ~Refused(dialed)
  /\ server \in Nat /\ length \in Nat /\ got \in Nat /\ left \in Nat
  /\ phase = "idle" => got = 0
  /\ phase # "idle" => got + left = MaxResponseBytes
  /\ phase \in {"idle", "dial", "header"} => result = "unread" /\ got = 0 /\ server = 0 /\ length = 0 /\ ~peek
  /\ result # "toolarge" => got + server = length
  /\ peek => left = 0
  /\ result = "eof" => server = 0 \/ (blank /\ left = 0)

LEMMA EgressInits ==
  ASSUME EgressInit PROVE EgressInv
BY EgressAssumption DEF EgressInit, EgressInv

\* What a lookup found is all public, or the call goes nowhere (Begin).
LEMMA BeginKeeps ==
  ASSUME EgressInv, NEW url, NEW hosts, Begin(url, hosts) PROVE EgressInv'
BY EgressAssumption DEF Begin, EgressInv, Vetted

\* Every step of a call in flight keeps what was vetted and what was counted.
LEMMA TransferKeeps ==
  ASSUME EgressInv, EgressStep PROVE EgressInv'
<1>0. MaxResponseBytes \in Nat /\ Lengths \subseteq Nat /\ Chunks \subseteq Nat
  BY EgressAssumption
<1>1. CASE Connect
  BY <1>1, <1>0 DEF Connect, EgressInv
<1>2. CASE Header
  <2>1. /\ phase = "header" /\ answers' = answers /\ dialed' = dialed /\ got' = got /\ left' = left
        /\ result' = result /\ peek' = peek /\ blank' = blank
        /\ \/ phase' = "body" /\ length' \in Nat /\ server' = length'
           \/ phase' = "closed" /\ length' = length /\ server' = server
    BY <1>2, <1>0 DEF Header
  <2> QED
    BY <2>1, <1>0 DEF EgressInv
<1>3. CASE Expire
  BY <1>3, <1>0 DEF Expire, EgressInv
<1>4. CASE Read
  <2>1. PICK n \in Chunks \cup {0}, said \in {"more", "eof", "error"} :
          /\ n <= Least(Least(server, left), BufferSize) /\ said \in Says(n)
          /\ got' = got + n /\ server' = server - n /\ left' = left - n
          /\ IF said = "more" /\ left' = 0
             THEN peek' = TRUE /\ UNCHANGED result
             ELSE result' = Outcome(said) /\ UNCHANGED peek
    BY <1>4 DEF Read
  <2>2. /\ phase = "body" /\ result \in {"unread", "more"}
        /\ phase' = phase /\ answers' = answers /\ dialed' = dialed /\ length' = length
        /\ ~peek /\ blank' = blank
    BY <1>4 DEF Read, Reading
  <2>3. n \in Nat /\ n <= server /\ n <= left
    BY <2>1, <1>0, EgressAssumption DEF Least, EgressInv
  <2>4. result' = "eof" => server = n
    BY <2>1, <2>2 DEF Outcome, Says
  <2>5. result' # "toolarge"
    BY <2>1, <2>2 DEF Outcome
  <2> QED
    BY <2>1, <2>2, <2>3, <2>4, <2>5, <1>0 DEF EgressInv
<1>5. CASE Peek
  <2>1. /\ phase = "body" /\ result \in {"unread", "more"}
        /\ phase' = phase /\ answers' = answers /\ dialed' = dialed /\ length' = length
        /\ got' = got /\ left' = left /\ peek /\ ~peek'
    BY <1>5 DEF Peek, Reading
  <2>2. \/ server > 0 /\ server' = server - 1 /\ result' = "toolarge"
        \/ /\ server' = server /\ result' # "toolarge"
           /\ result' = "eof" => server = 0 \/ blank'
    BY <1>5 DEF Peek, Outcome, Says
  <2> QED
    BY <2>1, <2>2, <1>0 DEF EgressInv
<1>6. CASE Close
  BY <1>6, <1>0 DEF Close, EgressInv
<1> QED
  BY <1>1, <1>2, <1>3, <1>4, <1>5, <1>6 DEF EgressStep

LEMMA EgressInvHolds ==
  ASSUME EgressInv PROVE NeverDialsRefused /\ CutIsNeverClean
BY EgressAssumption DEF EgressInv, NeverDialsRefused, CutIsNeverClean

-----------------------------------------------------------------------------
(* The bucket. *)

\* What the bucket holds, with what it gave, is never more than a full one
\* and the refills since; nothing was given before the first event.
BucketInv(hook) ==
  LET h == Bounded(hook)
      n == Len(admitted) IN
  /\ clock \in Nat /\ admitted \in Seq(Nat)
  /\ bucket = <<>> => admitted = <<>>
  /\ bucket # <<>> =>
       /\ bucket[1].parts \in Nat /\ bucket[1].last \in Nat /\ bucket[1].last <= clock
       /\ \A i \in 1..n :
            /\ admitted[i] <= bucket[1].last
            /\ (n - i + 1) * PerMinute + bucket[1].parts
                 <= h.burst * PerMinute + h.rate * (bucket[1].last - admitted[i])

\* An idle or refused door leaves the clock and the bucket as they are known.
LEMMA Sums ==
  ASSUME NEW r \in Nat, NEW a \in Nat, NEW b \in Nat, NEW c \in Nat, a <= b, b <= c
  PROVE  /\ r * (c - a) = r * (c - b) + r * (b - a)
         /\ (c - b) * r = r * (c - b) /\ r * (c - b) \in Nat /\ r * (b - a) \in Nat
OBVIOUS

LEMMA OneMore ==
  ASSUME NEW n \in Nat, NEW i \in Nat, i <= n
  PROVE  (n + 1 - i + 1) * PerMinute = (n - i + 1) * PerMinute + PerMinute
BY HookAssumption

\* An event takes a token that is there, or none: the sum is kept, and with
\* it the limit, for the event just admitted and each one before (allow).
LEMMA EventKeeps ==
  ASSUME NEW hook, hook.rate \in Nat, hook.burst \in Nat,
         BucketInv(hook), RateHolds(hook), Event(hook)
  PROVE  BucketInv(hook)' /\ RateHolds(hook)'
<1> DEFINE R == Bounded(hook).rate
           B == Bounded(hook).burst * PerMinute
           P == Refilled(Bounded(hook))
           n == Len(admitted)
<1>0. R \in Nat /\ Bounded(hook).burst \in Nat /\ PerMinute \in Nat /\ B \in Nat
  BY TableAssumption, HookAssumption DEF Bounded
<1>1. /\ clock \in Nat /\ admitted \in Seq(Nat) /\ n \in Nat
      /\ \A i \in 1..n : admitted[i] \in Nat
  BY DEF BucketInv
<1>2. /\ P \in Nat /\ P <= B
      /\ \A i \in 1..n : /\ admitted[i] <= clock
                         /\ (n - i + 1) * PerMinute + P <= B + R * (clock - admitted[i])
  <2>1. CASE bucket = <<>>
    <3>1. P = B
      BY <2>1 DEF Refilled
    <3>2. n = 0
      BY <2>1 DEF BucketInv
    <3> QED
      BY <3>1, <3>2, <1>0
  <2>2. CASE bucket # <<>>
    <3> DEFINE p == bucket[1].parts
               l == bucket[1].last
    <3>1. /\ p \in Nat /\ l \in Nat /\ l <= clock
          /\ \A i \in 1..n : /\ admitted[i] <= l
                             /\ (n - i + 1) * PerMinute + p <= B + R * (l - admitted[i])
      BY <2>2 DEF BucketInv
    <3>2. P = Capped(p + (clock - l) * R, Bounded(hook).burst)
      BY <2>2 DEF Refilled
    <3> HIDE DEF p, l, R
    <3>3. (clock - l) * R \in Nat
      BY <3>1, <1>0, <1>1
    <3>4. P \in Nat /\ P <= B /\ P <= p + (clock - l) * R
      BY <3>1, <3>2, <3>3, <1>0 DEF Capped
    <3> HIDE DEF P, B
    <3>5. ASSUME NEW i \in 1..n
          PROVE  /\ admitted[i] <= clock
                 /\ (n - i + 1) * PerMinute + P <= B + R * (clock - admitted[i])
      <4>1. admitted[i] \in Nat /\ admitted[i] <= l
        BY <3>1, <1>1
      <4>2. R * (clock - admitted[i]) = (clock - l) * R + R * (l - admitted[i]) /\ R * (l - admitted[i]) \in Nat
        <5> DEFINE a == admitted[i]
        <5>1. a \in Nat /\ a <= l /\ l \in Nat /\ l <= clock /\ clock \in Nat /\ R \in Nat
          BY <4>1, <3>1, <1>0, <1>1 DEF R
        <5> HIDE DEF a
        <5>2. R * (clock - a) = (clock - l) * R + R * (l - a) /\ R * (l - a) \in Nat
          BY <5>1, Sums
        <5> QED
          BY <5>2 DEF a
      <4>3. (n - i + 1) * PerMinute \in Nat
        BY <1>0, <1>1
      <4>4. (n - i + 1) * PerMinute + p <= B + R * (l - admitted[i])
        BY <3>1
      <4> QED
        <5> DEFINE k == (n - i + 1) * PerMinute
                   d == R * (clock - admitted[i])
                   e == R * (l - admitted[i])
                   f == (clock - l) * R
        <5>1. /\ k \in Nat /\ e \in Nat /\ f \in Nat /\ d = f + e /\ k + p <= B + e
              /\ P <= p + f /\ P \in Nat /\ p \in Nat /\ B \in Nat
          BY <4>2, <4>3, <4>4, <3>1, <3>3, <3>4, <1>0 DEF B
        <5> HIDE DEF k, d, e, f
        <5>2. k + P <= B + d
          BY <5>1
        <5>3. admitted[i] <= clock
          BY <4>1, <3>1, <1>1
        <5> QED
          BY <5>2, <5>3 DEF k, d
    <3> QED
      BY <3>4, <3>5
  <2> QED
    BY <2>1, <2>2
<1>3. clock' = clock
  BY DEF Event
<1>4. CASE P < PerMinute
  <2>1. bucket' = <<[parts |-> P, last |-> clock]>> /\ admitted' = admitted
    BY <1>4 DEF Event
  <2> HIDE DEF P
  <2>2. bucket' # <<>> /\ bucket'[1].parts = P /\ bucket'[1].last = clock
    BY <2>1
  <2>3. RateHolds(hook)'
    BY <2>1 DEF RateHolds
  <2>4. BucketInv(hook)'
    BY <2>1, <2>2, <1>0, <1>1, <1>2, <1>3 DEF BucketInv
  <2> QED
    BY <2>3, <2>4
<1>5. CASE ~(P < PerMinute)
  <2>1. bucket' = <<[parts |-> P - PerMinute, last |-> clock]>> /\ admitted' = Append(admitted, clock)
    BY <1>5 DEF Event
  <2> HIDE DEF P
  <2>2. bucket' # <<>> /\ bucket'[1].parts = P - PerMinute /\ bucket'[1].last = clock /\ P - PerMinute \in Nat
    BY <2>1, <1>5, <1>2, <1>0
  <2>3. /\ admitted' \in Seq(Nat) /\ Len(admitted') = n + 1 /\ admitted'[n + 1] = clock
        /\ \A i \in 1..n : admitted'[i] = admitted[i]
    BY <2>1, <1>1
  <2>4. ASSUME NEW i \in 1..(n + 1)
        PROVE  /\ admitted'[i] <= clock
               /\ (n + 1 - i + 1) * PerMinute + (P - PerMinute) <= B + R * (clock - admitted'[i])
    <3>1. CASE i \in 1..n
      <4>1. /\ admitted[i] <= clock
            /\ (n - i + 1) * PerMinute + P <= B + R * (clock - admitted[i])
        BY <3>1, <1>2
      <4>2. (n + 1 - i + 1) * PerMinute = (n - i + 1) * PerMinute + PerMinute
        <5> HIDE DEF n
        <5>1. n \in Nat /\ i \in Nat /\ i <= n
          BY <3>1, <1>1
        <5> QED
          BY <5>1, OneMore
      <4>3. (n - i + 1) * PerMinute \in Nat /\ R * (clock - admitted[i]) \in Nat
        <5>1. clock - admitted[i] \in Nat /\ n - i + 1 \in Nat
          BY <3>1, <4>1, <1>1
        <5> QED
          BY <5>1, <1>0
      <4> HIDE DEF R, B
      <4> QED
        BY <4>1, <4>2, <4>3, <3>1, <2>3, <1>0, <1>2
    <3>2. CASE i = n + 1
      <4>1. (n + 1 - i + 1) * PerMinute = PerMinute /\ R * (clock - admitted'[i]) = 0
        BY <3>2, <2>3, <1>0, <1>1
      <4> HIDE DEF R, B
      <4> QED
        BY <4>1, <3>2, <2>3, <1>0, <1>1, <1>2
    <3> QED
      BY <3>1, <3>2, <1>1
  <2>5. BucketInv(hook)'
    BY <2>2, <2>3, <2>4, <1>1, <1>3 DEF BucketInv
  <2>6. RateHolds(hook)'
    <3> SUFFICES ASSUME NEW i \in DOMAIN admitted', NEW j \in DOMAIN admitted', i <= j
                 PROVE  (j - i + 1) * PerMinute <= B + R * (admitted'[j] - admitted'[i])
      BY DEF RateHolds
    <3>1. i \in 1..(n + 1) /\ j \in 1..(n + 1)
      BY <2>3
    <3>2. CASE j = n + 1
      <4>1. (n + 1 - i + 1) * PerMinute \in Nat /\ R * (clock - admitted'[i]) \in Nat
        <5>1. admitted'[i] \in Nat /\ admitted'[i] <= clock
          BY <3>1, <2>3, <2>4
        <5>2. clock - admitted'[i] \in Nat /\ n + 1 - i + 1 \in Nat
          BY <5>1, <3>1, <1>1
        <5> QED
          BY <5>2, <1>0
      <4>2. (n + 1 - i + 1) * PerMinute + (P - PerMinute) <= B + R * (clock - admitted'[i])
        BY <3>1, <2>4
      <4> HIDE DEF R, B
      <4> QED
        BY <4>1, <4>2, <3>2, <2>2, <2>3, <1>0
    <3>3. CASE j # n + 1
      <4>1. i \in 1..n /\ j \in 1..n
        <5> HIDE DEF n
        <5> QED
          BY <3>1, <3>3, <1>1
      <4>2. admitted'[i] = admitted[i] /\ admitted'[j] = admitted[j]
        BY <4>1, <2>3
      <4>3. i \in DOMAIN admitted /\ j \in DOMAIN admitted
        BY <4>1, <1>1
      <4> QED
        BY <4>2, <4>3 DEF RateHolds
    <3> QED
      BY <3>2, <3>3
  <2> QED
    BY <2>5, <2>6
<1> QED
  BY <1>4, <1>5

LEMMA TickKeeps ==
  ASSUME NEW hook, BucketInv(hook), RateHolds(hook), Tick
  PROVE  BucketInv(hook)' /\ RateHolds(hook)'
BY DEF Tick, BucketInv, RateHolds

-----------------------------------------------------------------------------
(* What crosses the edges. *)

\* Nothing is fetched and nothing knocks before a pod serves; the hooks it
\* serves are the base's, whatever the overlay holds (MergedOf).
EdgesInv ==
  /\ EgressInv
  /\ base \in Bases
  /\ stage # "serving" => clock = 0 /\ bucket = <<>> /\ admitted = <<>>
  /\ stage = "serving" => cfg.hooks = base.hooks /\ \A h \in cfg.hooks : BucketInv(h) /\ RateHolds(h)

LEMMA HooksAreTheBases ==
  ASSUME NEW b \in Bases, NEW fragments
  PROVE  MergedOf(b, fragments).hooks = b.hooks
<1>1. b = [models |-> b.models, ups |-> b.ups, hooks |-> b.hooks, notifier |-> b.notifier, cons |-> b.cons]
  BY PolicyAssumption
<1> QED
  BY <1>1 DEF MergedOf

LEMMA EdgesStart ==
  ASSUME PolicyInit PROVE EdgesInv
BY EgressInits DEF PolicyInit, HookInit, EdgesInv

LEMMA EdgesStep ==
  ASSUME EdgesInv, [PolicyNext]_policyVars PROVE EdgesInv'
<1> USE DEF EdgesInv
<1>0. \A h \in base.hooks : h.rate \in Nat /\ h.burst \in Nat /\ \A g \in base.hooks : g = h
  BY PolicyAssumption
<1>1. ASSUME UNCHANGED <<base, cfg, stage, hvars>>, EgressInv' PROVE EdgesInv'
  BY <1>1 DEF hvars, BucketInv, RateHolds
<1>2. ASSUME UNCHANGED evars PROVE EgressInv'
  BY <1>2 DEF evars, EgressInv
<1>3. ASSUME NEW b \in Blueprints, NEW g \in Givens, GovernWorkflow(b, g) PROVE EdgesInv'
  <2>1. stage = "before" /\ stage' = "stored" /\ UNCHANGED <<base, hvars, evars>>
    BY <1>3 DEF GovernWorkflow, Stored
  <2> QED
    BY <2>1, <1>2 DEF hvars
<1>4. ASSUME NEW o \in Offers, AddUpstream(o.name, o.url, o.tools) PROVE EdgesInv'
  <2>1. stage = "before" /\ stage' = "stored" /\ UNCHANGED <<base, hvars, evars>>
    BY <1>4 DEF AddUpstream, Stored
  <2> QED
    BY <2>1, <1>2 DEF hvars
<1>5. CASE PodBoots
  <2>1. /\ stage # "serving" /\ UNCHANGED <<base, hvars, evars>>
        /\ \/ stage' = "serving" /\ cfg' = MergedOf(base, Readable(frags))
           \/ stage' = "down"
    BY <1>5 DEF PodBoots
  <2>2. EgressInv'
    BY <2>1, <1>2
  <2>3. CASE stage' = "down"
    BY <2>1, <2>2, <2>3 DEF hvars
  <2>4. CASE stage' = "serving"
    <3>1. cfg'.hooks = base.hooks /\ base' = base
      BY <2>1, <2>4, HooksAreTheBases
    <3>2. clock' = 0 /\ bucket' = <<>> /\ admitted' = <<>>
      BY <2>1 DEF hvars
    <3>3. ASSUME NEW h \in cfg'.hooks PROVE BucketInv(h)' /\ RateHolds(h)'
      BY <3>2 DEF BucketInv, RateHolds
    <3> QED
      BY <2>2, <2>4, <3>1, <3>3
  <2> QED
    BY <2>1, <2>3, <2>4
<1>6. ASSUME NEW c \in Calls, AgentCalls(c.tool, c.args) PROVE EdgesInv'
  <2>1. UNCHANGED <<base, stage, cfg, evars, hvars>>
    BY <1>6 DEF AgentCalls
  <2> QED
    BY <2>1, <1>1, <1>2
<1>7. ASSUME NEW i \in DOMAIN bp.steps, RunStep(bp.steps[i].name) PROVE EdgesInv'
  <2>1. UNCHANGED <<base, stage, cfg, evars, hvars>>
    BY <1>7 DEF RunStep, Approve
  <2> QED
    BY <2>1, <1>1, <1>2
<1>8. CASE Fetch
  <2>1. UNCHANGED <<base, stage, cfg, hvars>> /\ \E url, hosts : Begin(url, hosts)
    BY <1>8 DEF Fetch, pvars
  <2> QED
    BY <2>1, <1>1, BeginKeeps
<1>9. CASE Transfer
  <2>1. UNCHANGED <<base, stage, cfg, hvars>> /\ EgressStep
    BY <1>9 DEF Transfer, pvars
  <2> QED
    BY <2>1, <1>1, TransferKeeps
<1>10. CASE Knock
  <2>1. PICK h \in cfg.hooks : Event(h)
    BY <1>10 DEF Knock
  <2>2. stage = "serving" /\ UNCHANGED <<base, stage, cfg, evars>>
    BY <1>10 DEF Knock, pvars
  <2>3. h \in base.hooks /\ \A g \in cfg.hooks : g = h
    BY <2>1, <2>2, <1>0
  <2>4. BucketInv(h)' /\ RateHolds(h)'
    BY <2>1, <2>2, <2>3, <1>0, EventKeeps
  <2>5. ASSUME NEW g \in cfg'.hooks PROVE BucketInv(g)' /\ RateHolds(g)'
    BY <2>2, <2>3, <2>4
  <2> QED
    BY <2>2, <2>5, <1>2
<1>11. CASE Pass
  <2>1. stage = "serving" /\ Tick /\ UNCHANGED <<base, stage, cfg, evars>>
    BY <1>11 DEF Pass, pvars
  <2>2. ASSUME NEW h \in cfg'.hooks PROVE BucketInv(h)' /\ RateHolds(h)'
    BY <2>1, TickKeeps
  <2> QED
    BY <2>1, <2>2, <1>2
<1>12. CASE UNCHANGED policyVars
  BY <1>12, <1>1, <1>2 DEF policyVars, pvars
<1> QED
  BY <1>3, <1>4, <1>5, <1>6, <1>7, <1>8, <1>9, <1>10, <1>11, <1>12 DEF PolicyNext

\* EdgesHold, of every resolver, every body and every rate: a connection is
\* dialed to public addresses only, a cut answer passes for a whole one only where
\* nothing answered the one read past the cap,
\* and a hook admits no more than its burst and its rate (egress, allow).
THEOREM EdgesAreHeld == PolicySpec => []EdgesHold
<1>1. EdgesInv => EdgesHold
  BY EgressInvHolds DEF EdgesInv, EdgesHold
<1> QED
  BY EdgesStart, EdgesStep, <1>1, PTL DEF PolicySpec

-----------------------------------------------------------------------------
(* What a human approved. *)

\* A step that was put to a human reads as this call does.
ReadsAsShown(tool, args) ==
  \E i \in DOMAIN bp.steps : bp.steps[i].kind = "consequential" /\
    \E item \in Items(Values(bp, given), bp.steps[i]) :
      LET shown == StepLine(bp.steps[i].call.tool, Arguments(bp.steps[i], Values(bp, given), item)) IN
        /\ StepRenders(bp.steps[i], Values(bp, given), item)
        /\ shown.parts # {} /\ Summary(tool, args) = shown

\* A filed request binds and shows the call it was filed for; a grant binds one
\* whose line was shown.
Files(r) == r.bind = Bind(cfg, r.call.tool, r.call.args) /\ r.line = Summary(r.call.tool, r.call.args)
Grants(g) == g.bind = Bind(cfg, g.asked.tool, g.asked.args) /\ ReadsAsShown(g.asked.tool, g.asked.args)
Admits(l) ==
  /\ Bind(cfg, l.call.tool, l.call.args) = Bind(cfg, l.asked.tool, l.asked.args)
  /\ ReadsAsShown(l.call.tool, l.call.args)

ShownInv ==
  /\ stage # "serving" => filed = {} /\ grants = {} /\ last = <<>>
  /\ \A r \in filed : Files(r)
  /\ \A g \in grants : Grants(g)
  /\ last # <<>> => Admits(last[1])

\* Two calls one approval binds state the same (Bind).
LEMMA BoundAlikeStateAlike ==
  ASSUME NEW t, NEW a, NEW u, NEW b, Bind(cfg, t, a) = Bind(cfg, u, b)
  PROVE  t = u /\ Stated(t, a) = Stated(u, b)
<1>1. t = u
  BY DEF Bind
<1>2. CASE t \notin DeclaredTools(cfg)
  BY <1>1, <1>2 DEF Stated
<1>3. CASE t \in DeclaredTools(cfg)
  <2>1. [f \in FieldSet(Declared(cfg, t)) \cap DOMAIN a |-> a[f]]
          = [f \in FieldSet(Declared(cfg, t)) \cap DOMAIN b |-> b[f]]
    BY <1>1, <1>3 DEF Bind
  <2> QED
    BY <1>1, <1>3, <2>1 DEF Stated
<1> QED
  BY <1>1, <1>2, <1>3

\* What is stated alike is shown alike (summarize).
LEMMA BoundAlikeReadAlike ==
  ASSUME NEW t, NEW a, NEW u, NEW b, Bind(cfg, t, a) = Bind(cfg, u, b)
  PROVE  Summary(t, a) = Summary(u, b)
BY BoundAlikeStateAlike DEF Summary

\* A line of texts that read as themselves is those texts.
LEMMA PlainLine ==
  ASSUME NEW tool, NEW z,
         \A f \in DOMAIN z : Splits[z[f]].t = z[f] /\ Splits[z[f]].more = {}
  PROVE  Line(tool, z).parts = {[field |-> f, t |-> z[f]] : f \in DOMAIN z}
<1> DEFINE part(f) == {[field |-> f, t |-> Splits[z[f]].t]} \cup Splits[z[f]].more
<1>1. ASSUME NEW f \in DOMAIN z PROVE part(f) = {[field |-> f, t |-> z[f]]}
  <2>1. Splits[z[f]].t = z[f]
    OBVIOUS
  <2>2. Splits[z[f]].more = {}
    OBVIOUS
  <2>3. part(f) = {[field |-> f, t |-> Splits[z[f]].t]}
    BY <2>2
  <2> QED
    BY <2>1, <2>3
<1> HIDE DEF part
<1>2. UNION {part(f) : f \in DOMAIN z} = {[field |-> f, t |-> z[f]] : f \in DOMAIN z}
  BY <1>1
<1> QED
  BY <1>2 DEF Line, part

\* Lines whose texts read as themselves are alike only of texts that are.
LEMMA PlainLines ==
  ASSUME NEW tool, NEW x, NEW y,
         \A f \in DOMAIN x : Splits[x[f]].t = x[f] /\ Splits[x[f]].more = {},
         \A f \in DOMAIN y : Splits[y[f]].t = y[f] /\ Splits[y[f]].more = {},
         Line(tool, x) = Line(tool, y)
  PROVE  DOMAIN x = DOMAIN y /\ \A f \in DOMAIN x : x[f] = y[f]
<1> DEFINE parts(z) == {[field |-> f, t |-> z[f]] : f \in DOMAIN z}
<1>1. Line(tool, x).parts = parts(x) /\ Line(tool, y).parts = parts(y)
  BY PlainLine
<1> HIDE DEF parts
<1>2. parts(x) = parts(y)
  BY <1>1
<1> USE DEF parts
<1>3. ASSUME NEW f \in DOMAIN x PROVE f \in DOMAIN y /\ x[f] = y[f]
  <2>1. [field |-> f, t |-> x[f]] \in parts(y)
    BY <1>2, <1>3
  <2>2. PICK g \in DOMAIN y : [field |-> f, t |-> x[f]] = [field |-> g, t |-> y[g]]
    BY <2>1
  <2> QED
    BY <2>2
<1>4. ASSUME NEW f \in DOMAIN y PROVE f \in DOMAIN x
  <2>1. [field |-> f, t |-> y[f]] \in parts(x)
    BY <1>2, <1>4
  <2>2. PICK g \in DOMAIN x : [field |-> f, t |-> y[f]] = [field |-> g, t |-> x[g]]
    BY <2>1
  <2> QED
    BY <2>2
<1> QED
  BY <1>3, <1>4

\* A call and a step that read alike, both plain, say the same.
LEMMA PlainSaysTheSame ==
  ASSUME NEW t, NEW a, NEW u, NEW b,
         Summary(t, a) = StepLine(u, b),
         \A f \in DOMAIN Stated(t, a) : Plain(Stated(t, a)[f]),
         \A f \in DOMAIN Stated(u, b) : Plain(Stated(u, b)[f])
  PROVE  t = u /\ [f \in DOMAIN Stated(t, a) |-> Stated(t, a)[f].t]
                    = [f \in DOMAIN Stated(u, b) |-> Stated(u, b)[f].t]
<1> DEFINE p == Stated(t, a)
           q == Stated(u, b)
           x == [f \in DOMAIN p |-> p[f].t]
           y == [f \in DOMAIN q |-> q[f].t]
<1> HIDE DEF p, q
<1>1. \A f \in DOMAIN p : p[f].k # "obj" /\ Shown[p[f].t] = p[f].t /\ Splits[p[f].t].t = p[f].t /\ Splits[p[f].t].more = {}
  BY DEF Plain, p
<1>2. \A f \in DOMAIN q : Splits[q[f].t].t = q[f].t /\ Splits[q[f].t].more = {}
  BY DEF Plain, q
<1>3. [f \in DOMAIN p |-> IF p[f].k = "obj" THEN Named ELSE Shown[p[f].t]] = x
  BY <1>1
<1>4. Summary(t, a) = Line(t, x)
  BY <1>3 DEF Summary, p
<1>5. StepLine(u, b) = Line(u, y)
  BY DEF StepLine, q
<1>6. t = u
  <2> HIDE DEF x, y
  <2>1. Line(t, x).tool = t /\ Line(u, y).tool = u
    BY DEF Line
  <2> QED
    BY <1>4, <1>5, <2>1
<1>7. DOMAIN x = DOMAIN y /\ \A f \in DOMAIN x : x[f] = y[f]
  <2>1. \A f \in DOMAIN x : Splits[x[f]].t = x[f] /\ Splits[x[f]].more = {}
    BY <1>1
  <2>2. \A f \in DOMAIN y : Splits[y[f]].t = y[f] /\ Splits[y[f]].more = {}
    BY <1>2
  <2>3. Line(t, x) = Line(t, y)
    BY <1>4, <1>5, <1>6
  <2> HIDE DEF x, y
  <2> QED
    BY <2>1, <2>2, <2>3, PlainLines
<1>8. DOMAIN x = DOMAIN p /\ DOMAIN y = DOMAIN q
  OBVIOUS
<1>9. x = y
  BY <1>7, <1>8
<1> QED
  BY <1>6, <1>9 DEF p, q

LEMMA ShownStart ==
  ASSUME PolicyInit PROVE ShownInv
BY DEF PolicyInit, ShownInv

\* What is shown is a matter of the blueprint, its parameters and the table.
LEMMA ShownIsFixed ==
  ASSUME ShownInv, UNCHANGED <<stage, bp, given, cfg>>,
         \A r \in filed' : r \in filed \/ Files(r),
         \A g \in grants' : g \in grants \/ Grants(g),
         last' = last \/ Admits(last'[1]),
         stage # "serving" => filed' = filed /\ grants' = grants /\ last' = last
  PROVE  ShownInv'
<1>1. ASSUME NEW t, NEW a PROVE Summary(t, a)' = Summary(t, a) /\ StepLine(t, a)' = StepLine(t, a)
  BY DEF Summary, StepLine, Stated
<1>2. ASSUME NEW t, NEW a PROVE ReadsAsShown(t, a)' <=> ReadsAsShown(t, a)
  BY DEF ReadsAsShown, Summary, StepLine, Stated
<1>3. ASSUME NEW t, NEW a PROVE Bind(cfg, t, a)' = Bind(cfg, t, a)
  OBVIOUS
<1>4. ASSUME NEW r PROVE (Files(r)' <=> Files(r)) /\ (Grants(r)' <=> Grants(r)) /\ (Admits(r)' <=> Admits(r))
  BY <1>1, <1>2, <1>3 DEF Files, Grants, Admits
<1>5. \A r \in filed' : Files(r)'
  BY <1>4 DEF ShownInv
<1>6. \A g \in grants' : Grants(g)'
  BY <1>4 DEF ShownInv
<1>7. last' # <<>> => Admits(last[1])'
  BY <1>1, <1>2, <1>3 DEF ShownInv, Admits
<1> QED
  BY <1>5, <1>6, <1>7 DEF ShownInv

LEMMA ShownStep ==
  ASSUME ShownInv, [PolicyNext]_policyVars PROVE ShownInv'
<1>1. ASSUME UNCHANGED <<stage, bp, given, cfg, filed, grants, last>> PROVE ShownInv'
  BY <1>1, ShownIsFixed
<1>2. ASSUME stage # "serving", UNCHANGED <<filed, grants, last>> PROVE ShownInv'
  BY <1>2 DEF ShownInv
<1>3. ASSUME NEW b \in Blueprints, NEW g \in Givens, GovernWorkflow(b, g) PROVE ShownInv'
  BY <1>2, <1>3 DEF GovernWorkflow
<1>4. ASSUME NEW o \in Offers, AddUpstream(o.name, o.url, o.tools) PROVE ShownInv'
  BY <1>2, <1>4 DEF AddUpstream
<1>5. CASE PodBoots
  BY <1>2, <1>5 DEF PodBoots
<1>6. ASSUME NEW c \in Calls, AgentCalls(c.tool, c.args) PROVE ShownInv'
  <2> DEFINE bind == Bind(cfg, c.tool, c.args)
             call == [tool |-> c.tool, args |-> c.args]
             asked == [bind |-> bind, line |-> Summary(c.tool, c.args), call |-> call]
  <2>1. stage = "serving" /\ UNCHANGED <<stage, bp, given, cfg>>
    BY <1>6 DEF AgentCalls
  <2>2. \/ \E g \in grants : /\ g.bind = bind /\ grants' = grants \ {g} /\ filed' = filed
                               /\ last' = <<[call |-> call, asked |-> g.asked]>>
        \/ filed' = filed \cup {asked} /\ grants' = grants /\ last' = last
    BY <1>6 DEF AgentCalls
  <2>3. ASSUME NEW g \in grants, g.bind = bind, grants' = grants \ {g}, filed' = filed,
               last' = <<[call |-> call, asked |-> g.asked]>>
        PROVE  ShownInv'
    <3>1. bind = Bind(cfg, g.asked.tool, g.asked.args) /\ ReadsAsShown(g.asked.tool, g.asked.args)
      BY <2>3 DEF ShownInv, Grants
    <3>2. Summary(c.tool, c.args) = Summary(g.asked.tool, g.asked.args)
      BY <3>1, BoundAlikeReadAlike
    <3>3. ReadsAsShown(c.tool, c.args)
      BY <3>1, <3>2 DEF ReadsAsShown
    <3>4. last'[1].call.tool = c.tool /\ last'[1].call.args = c.args /\ last'[1].asked = g.asked
      BY <2>3
    <3>5. Admits(last'[1])
      BY <3>1, <3>3, <3>4 DEF Admits
    <3> QED
      BY <2>1, <2>3, <3>5, ShownIsFixed
  <2>4. CASE filed' = filed \cup {asked} /\ grants' = grants /\ last' = last
    <3>1. Files(asked)
      BY DEF Files
    <3> QED
      BY <2>1, <2>4, <3>1, ShownIsFixed
  <2> QED
    BY <2>2, <2>3, <2>4
<1>7. ASSUME NEW i \in DOMAIN bp.steps, RunStep(bp.steps[i].name) PROVE ShownInv'
  <2>1. PICK s \in Runs({bp.steps[i].name}) : \E item \in Items(Values(bp, given), s) : Approve(s, item)
    BY <1>7 DEF RunStep
  <2>2. PICK item \in Items(Values(bp, given), s) : Approve(s, item)
    BY <2>1
  <2> DEFINE shown == StepLine(s.call.tool, Arguments(s, Values(bp, given), item))
  <2>3. /\ s.kind = "consequential" /\ StepRenders(s, Values(bp, given), item)
        /\ UNCHANGED <<stage, bp, given, cfg, last>>
    BY <2>2 DEF Approve
  <2>4. PICK r \in filed : /\ shown.parts # {} /\ r.line = shown /\ filed' = filed \ {r}
                           /\ grants' = grants \cup {[bind |-> r.bind, asked |-> r.call]}
    BY <2>2 DEF Approve
  <2>5. Files(r)
    BY <2>4 DEF ShownInv
  <2>6. PICK j \in DOMAIN bp.steps : s = bp.steps[j]
    BY <2>1 DEF Runs
  <2>7. ReadsAsShown(r.call.tool, r.call.args)
    BY <2>2, <2>3, <2>4, <2>5, <2>6 DEF ReadsAsShown, Files
  <2>8. Grants([bind |-> r.bind, asked |-> r.call])
    BY <2>5, <2>7 DEF Grants, Files
  <2>9. stage = "serving"
    BY <1>7 DEF RunStep
  <2> QED
    BY <2>3, <2>4, <2>9, <2>8, ShownIsFixed
<1>8. CASE Fetch \/ Transfer \/ Knock \/ Pass
  BY <1>1, <1>8 DEF Fetch, Transfer, Knock, Pass, pvars
<1>9. CASE UNCHANGED policyVars
  BY <1>1, <1>9 DEF policyVars, pvars
<1> QED
  BY <1>3, <1>4, <1>5, <1>6, <1>7, <1>8, <1>9 DEF PolicyNext

\* AdmittedAsShown, of every blueprint, every table and every way a text may
\* read in a line: what one approval admits is in every declared field the call
\* it was asked for, and says what the step says that the human was shown when
\* both are plain (Bind, summarize, selectRequest).
THEOREM AdmitsWhatWasShown == PolicySpec => []AdmittedAsShown
<1>1. ShownInv => AdmittedAsShown
  <2> SUFFICES ASSUME ShownInv, last # <<>> PROVE AdmittedAsShown
    BY DEF AdmittedAsShown
  <2> DEFINE call == last[1].call
             asked == last[1].asked
  <2>1. Bind(cfg, call.tool, call.args) = Bind(cfg, asked.tool, asked.args) /\ ReadsAsShown(call.tool, call.args)
    BY DEF ShownInv, Admits
  <2> HIDE DEF call, asked
  <2>2. asked.tool = call.tool /\ Stated(call.tool, asked.args) = Stated(call.tool, call.args)
    BY <2>1, BoundAlikeStateAlike
  <2>3. PICK i \in DOMAIN bp.steps : bp.steps[i].kind = "consequential" /\
          \E item \in Items(Values(bp, given), bp.steps[i]) :
            /\ StepRenders(bp.steps[i], Values(bp, given), item)
            /\ Summary(call.tool, call.args)
                 = StepLine(bp.steps[i].call.tool, Arguments(bp.steps[i], Values(bp, given), item))
    BY <2>1 DEF ReadsAsShown
  <2>4. PICK item \in Items(Values(bp, given), bp.steps[i]) :
          /\ StepRenders(bp.steps[i], Values(bp, given), item)
          /\ Summary(call.tool, call.args)
               = StepLine(bp.steps[i].call.tool, Arguments(bp.steps[i], Values(bp, given), item))
    BY <2>3
  <2>5. bp.steps[i].call.tool = call.tool
    BY <2>4 DEF Summary, StepLine, Line
  <2> DEFINE step == Stated(bp.steps[i].call.tool, Arguments(bp.steps[i], Values(bp, given), item))
             stated == Stated(call.tool, call.args)
             plain(said) == \A f \in DOMAIN said : Plain(said[f])
             texts(said) == [f \in DOMAIN said |-> said[f].t]
  <2>6. plain(stated) /\ plain(step) => texts(stated) = texts(step)
    BY <2>4, PlainSaysTheSame
  <2>7. /\ bp.steps[i].kind = "consequential" /\ StepRenders(bp.steps[i], Values(bp, given), item)
        /\ bp.steps[i].call.tool = call.tool
    BY <2>3, <2>4, <2>5
  <2> QED
    BY <2>2, <2>6, <2>7 DEF AdmittedAsShown, call, asked
<1> QED
  BY ShownStart, ShownStep, <1>1, PTL DEF PolicySpec

-----------------------------------------------------------------------------
(* What was validated. *)

\* Fragments of which no two name the same: what a name is in one of them is
\* what it is in all of them.
Apart(docs, field) ==
  \A f, g \in docs : f # g => DOMAIN f[field] \cap DOMAIN g[field] = {}

LEMMA AllHolds ==
  ASSUME NEW docs, NEW field, Apart(docs, field), NEW f \in docs, NEW n \in DOMAIN f[field]
  PROVE  n \in DOMAIN All(docs, field) /\ All(docs, field)[n] = f[field][n]
<1>1. n \in UNION {DOMAIN d[field] : d \in docs}
  OBVIOUS
<1>2. All(docs, field)[n] = (CHOOSE d \in docs : n \in DOMAIN d[field])[field][n]
  BY <1>1 DEF All
<1>3. \A d \in docs : n \in DOMAIN d[field] => d = f
  BY DEF Apart
<1>4. (CHOOSE d \in docs : n \in DOMAIN d[field]) = f
  BY <1>3
<1> QED
  BY <1>1, <1>2, <1>4 DEF All

LEMMA AllNames ==
  ASSUME NEW docs, NEW field, NEW n \in DOMAIN All(docs, field)
  PROVE  \E f \in docs : n \in DOMAIN f[field]
BY DEF All

\* Fewer fragments say the same of every name they still name.
LEMMA AllOfFewer ==
  ASSUME NEW docs, NEW field, Apart(docs, field), NEW fewer \in SUBSET docs
  PROVE  /\ DOMAIN All(fewer, field) \subseteq DOMAIN All(docs, field)
         /\ \A n \in DOMAIN All(fewer, field) : All(fewer, field)[n] = All(docs, field)[n]
<1>1. Apart(fewer, field)
  BY DEF Apart
<1>2. ASSUME NEW n \in DOMAIN All(fewer, field)
      PROVE  n \in DOMAIN All(docs, field) /\ All(fewer, field)[n] = All(docs, field)[n]
  <2>1. PICK f \in fewer : n \in DOMAIN f[field]
    BY AllNames
  <2>2. n \in DOMAIN All(docs, field) /\ All(docs, field)[n] = f[field][n]
    BY <2>1, AllHolds
  <2>3. All(fewer, field)[n] = f[field][n]
    BY <2>1, <1>1, AllHolds
  <2> QED
    BY <2>2, <2>3
<1> QED
  BY <1>2

\* And the same of all, when those left out name nothing.
LEMMA AllWithoutTheEmpty ==
  ASSUME NEW docs, NEW field, Apart(docs, field), NEW fewer \in SUBSET docs,
         \A f \in docs \ fewer : DOMAIN f[field] = {}
  PROVE  All(fewer, field) = All(docs, field)
<1>1. DOMAIN All(fewer, field) = DOMAIN All(docs, field)
  <2>1. ASSUME NEW n \in DOMAIN All(docs, field) PROVE n \in DOMAIN All(fewer, field)
    <3>1. PICK f \in docs : n \in DOMAIN f[field]
      BY AllNames
    <3>2. f \in fewer /\ Apart(fewer, field)
      BY <3>1 DEF Apart
    <3> QED
      BY <3>1, <3>2, AllHolds
  <2> QED
    BY <2>1, AllOfFewer
<1>2. \A n \in DOMAIN All(fewer, field) : All(fewer, field)[n] = All(docs, field)[n]
  BY AllOfFewer
<1>3. /\ All(fewer, field) = [n \in DOMAIN All(fewer, field) |-> All(fewer, field)[n]]
      /\ All(docs, field) = [n \in DOMAIN All(docs, field) |-> All(docs, field)[n]]
  BY DEF All
<1> QED
  BY <1>1, <1>2, <1>3

LEMMA MergedIs ==
  ASSUME NEW b \in Bases, NEW fragments
  PROVE  LET c == MergedOf(b, fragments) IN
         /\ c.models = b.models /\ c.hooks = b.hooks /\ c.notifier = b.notifier
         /\ c.ups = Join(All(fragments, "ups"), b.ups) /\ c.cons = Join(All(fragments, "cons"), b.cons)
<1>1. b = [models |-> b.models, ups |-> b.ups, hooks |-> b.hooks, notifier |-> b.notifier, cons |-> b.cons]
  BY PolicyAssumption
<1> QED
  BY <1>1 DEF MergedOf

LEMMA AcceptedApart ==
  ASSUME NEW b, NEW fragments, MergeAccepts(b, fragments)
  PROVE  Apart(fragments, "ups") /\ Apart(fragments, "cons")
BY DEF MergeAccepts, Apart

\* What a fragment says is in the table, as it says it.
Whole(fragments, c) ==
  \A f \in fragments :
    /\ \A n \in DOMAIN f.ups : n \in DOMAIN c.ups /\ c.ups[n] = f.ups[n]
    /\ \A k \in DOMAIN f.cons : k \in DOMAIN c.cons /\ c.cons[k] = f.cons[k]

LEMMA MergedWhole ==
  ASSUME NEW b \in Bases, NEW fragments, MergeAccepts(b, fragments)
  PROVE  Whole(fragments, MergedOf(b, fragments))
<1> DEFINE c == MergedOf(b, fragments)
<1>1. c.ups = Join(All(fragments, "ups"), b.ups) /\ c.cons = Join(All(fragments, "cons"), b.cons)
  BY MergedIs
<1>2. Apart(fragments, "ups") /\ Apart(fragments, "cons")
  BY AcceptedApart
<1> HIDE DEF c
<1>3. ASSUME NEW f \in fragments, NEW n \in DOMAIN f.ups
      PROVE  n \in DOMAIN c.ups /\ c.ups[n] = f.ups[n]
  <2>1. n \in DOMAIN All(fragments, "ups") /\ All(fragments, "ups")[n] = f.ups[n]
    BY <1>2, AllHolds
  <2>2. n \notin DOMAIN b.ups
    BY DEF MergeAccepts
  <2> QED
    BY <2>1, <2>2, <1>1 DEF Join
<1>4. ASSUME NEW f \in fragments, NEW n \in DOMAIN f.cons
      PROVE  n \in DOMAIN c.cons /\ c.cons[n] = f.cons[n]
  <2>1. n \in DOMAIN All(fragments, "cons") /\ All(fragments, "cons")[n] = f.cons[n]
    BY <1>2, AllHolds
  <2>2. n \notin DOMAIN b.cons
    BY DEF MergeAccepts
  <2> QED
    BY <2>1, <2>2, <1>1 DEF Join
<1> QED
  BY <1>3, <1>4 DEF Whole, c

\* A table with the same servers and no other bounds parses as well.
LEMMA ParsesWithFewerBounds ==
  ASSUME NEW c, NEW d, ParseAccepts(c),
         d.models = c.models, d.ups = c.ups, d.hooks = c.hooks, d.notifier = c.notifier,
         \A k \in DOMAIN d.cons : k \in DOMAIN c.cons /\ d.cons[k] = c.cons[k]
  PROVE  ParseAccepts(d)
<1>1. /\ \A tool : Declarations(d, tool) = Declarations(c, tool) /\ Declared(d, tool) = Declared(c, tool)
      /\ DeclaredTools(d) = DeclaredTools(c)
  BY DEF Declarations, Declared, DeclaredTools
<1>2. BuildPolicyAccepts(c)
  BY DEF ParseAccepts
<1>3. BuildPolicyAccepts(d)
  BY <1>1, <1>2 DEF BuildPolicyAccepts
<1> QED
  BY <1>3 DEF ParseAccepts

\* A boot reads every fragment of a validated overlay, and loads it: the two
\* differ in the keys a boot skips, and validation refuses those.
LEMMA ValidatedLoads ==
  ASSUME NEW b, NEW fragments, ValidateAccepts(b, fragments)
  PROVE  Readable(fragments) = fragments /\ LoadAccepts(b, fragments)
<1>1. Readable(fragments) = fragments
  BY DEF ValidateAccepts, Readable
<1> QED
  BY <1>1 DEF ValidateAccepts, LoadAccepts

\* So it does without fragments that name no server (a removed key).
LEMMA RemovedLoads ==
  ASSUME NEW b \in Bases, NEW fragments, ValidateAccepts(b, fragments), NEW fewer \in SUBSET fragments,
         \A f \in fragments \ fewer : DOMAIN f.ups = {}
  PROVE  Readable(fewer) = fewer /\ LoadAccepts(b, fewer)
<1> DEFINE c == MergedOf(b, fragments)
           d == MergedOf(b, fewer)
<1>1. Readable(fewer) = fewer
  BY DEF ValidateAccepts, Readable
<1>2. MergeAccepts(b, fragments) /\ ParseAccepts(c)
  BY DEF ValidateAccepts
<1>3. MergeAccepts(b, fewer)
  BY <1>2 DEF MergeAccepts
<1>4. Apart(fragments, "ups") /\ Apart(fragments, "cons")
  BY <1>2, AcceptedApart
<1>5. /\ d.models = c.models /\ d.hooks = c.hooks /\ d.notifier = c.notifier
      /\ c.ups = Join(All(fragments, "ups"), b.ups) /\ c.cons = Join(All(fragments, "cons"), b.cons)
      /\ d.ups = Join(All(fewer, "ups"), b.ups) /\ d.cons = Join(All(fewer, "cons"), b.cons)
  BY MergedIs
<1> HIDE DEF c, d
<1>6. d.ups = c.ups
  <2>1. All(fewer, "ups") = All(fragments, "ups")
    BY <1>4, AllWithoutTheEmpty
  <2> QED
    BY <2>1, <1>5
<1>7. ASSUME NEW k \in DOMAIN d.cons PROVE k \in DOMAIN c.cons /\ d.cons[k] = c.cons[k]
  <2>1. k \in DOMAIN All(fewer, "cons") =>
          k \in DOMAIN All(fragments, "cons") /\ All(fewer, "cons")[k] = All(fragments, "cons")[k]
    BY <1>4, AllOfFewer
  <2> QED
    BY <2>1, <1>5 DEF Join
<1>8. ParseAccepts(d)
  BY <1>2, <1>5, <1>6, <1>7, ParsesWithFewerBounds
<1> QED
  BY <1>1, <1>3, <1>8 DEF LoadAccepts, d

\* Under the key of the blueprint's fragment is nothing but bounds: kmx
\* writes no other there.
WorkflowKeyHoldsBounds ==
  \A fragments \in Overlays : \A f \in fragments :
    f.key = [name |-> "workflow", json |-> TRUE, dot |-> FALSE] => DOMAIN f.ups = {}

StoredInv ==
  /\ base \in Bases
  /\ stage = "before" => frags \in Overlays
  /\ stage = "stored" =>
       /\ Readable(frags) = frags /\ LoadAccepts(base, frags)

LEMMA StoredStep ==
  ASSUME WorkflowKeyHoldsBounds, StoredInv, [PolicyNext]_policyVars PROVE StoredInv'
<1> USE DEF StoredInv
<1>1. ASSUME UNCHANGED <<base, frags, stage>> PROVE StoredInv'
  BY <1>1
<1>2. ASSUME NEW b \in Blueprints, NEW g \in Givens, GovernWorkflow(b, g) PROVE StoredInv'
  <2> DEFINE f == FragmentOf(b, Values(b, g))
  <2>1. stage = "before" /\ stage' = "stored" /\ frags' = Replaced(f) /\ base' = base
    BY <1>2 DEF GovernWorkflow, Stored
  <2>2. ValidateAccepts(base, IF f.cons = Empty THEN frags ELSE Replaced(f))
    BY <1>2 DEF GovernWorkflow, Validates
  <2>3. f.key = [name |-> "workflow", json |-> TRUE, dot |-> FALSE]
    BY DEF FragmentOf
  <2> HIDE DEF f
  <2>4. Readable(Replaced(f)) = Replaced(f) /\ LoadAccepts(base, Replaced(f))
    <3>1. CASE f.cons = Empty
      <4>1. Replaced(f) = {h \in frags : h.key # f.key}
        BY <3>1 DEF Replaced
      <4>2. Replaced(f) \in SUBSET frags /\ \A h \in frags \ Replaced(f) : h.key = f.key
        BY <4>1
      <4>3. \A h \in frags \ Replaced(f) : DOMAIN h.ups = {}
        BY <4>2, <2>1, <2>3 DEF WorkflowKeyHoldsBounds
      <4> QED
        BY <2>2, <3>1, <4>2, <4>3, RemovedLoads
    <3>2. CASE f.cons # Empty
      BY <2>2, <3>2, ValidatedLoads
    <3> QED
      BY <3>1, <3>2
  <2> QED
    BY <2>1, <2>4
<1>3. ASSUME NEW o \in Offers, AddUpstream(o.name, o.url, o.tools) PROVE StoredInv'
  <2>1. PICK f : Validates(frags \cup {f}) /\ Stored(frags \cup {f})
    BY <1>3 DEF AddUpstream
  <2>2. Readable(frags \cup {f}) = frags \cup {f} /\ LoadAccepts(base, frags \cup {f})
    BY <2>1, ValidatedLoads DEF Validates
  <2> QED
    BY <1>3, <2>1, <2>2 DEF AddUpstream, Stored
<1>4. CASE PodBoots
  BY <1>4 DEF PodBoots
<1>5. ASSUME NEW c \in Calls, AgentCalls(c.tool, c.args) PROVE StoredInv'
  BY <1>1, <1>5 DEF AgentCalls
<1>6. ASSUME NEW i \in DOMAIN bp.steps, RunStep(bp.steps[i].name) PROVE StoredInv'
  BY <1>1, <1>6 DEF RunStep, Approve
<1>7. CASE Fetch \/ Transfer \/ Knock \/ Pass
  BY <1>1, <1>7 DEF Fetch, Transfer, Knock, Pass, pvars
<1>8. CASE UNCHANGED policyVars
  BY <1>1, <1>8 DEF policyVars, pvars
<1> QED
  BY <1>2, <1>3, <1>4, <1>5, <1>6, <1>7, <1>8 DEF PolicyNext

\* ValidatedIsServed, of every table and overlay under whose workflow key are
\* bounds only: what validation passed a boot loads, each server and bound as
\* it was written.  A removal is stored without being validated itself: that
\* the overlay with the key was, is enough only for a key that names no server
\* another bound depends on.
THEOREM ServesWhatWasValidated ==
  ASSUME WorkflowKeyHoldsBounds
  PROVE  PolicySpec => []ValidatedIsServed
<1>1. PolicyInit => StoredInv
  BY DEF PolicyInit, StoredInv
<1>2. StoredInv => ValidatedIsServed
  <2> SUFFICES ASSUME StoredInv, stage = "stored" PROVE ValidatedIsServed
    BY DEF ValidatedIsServed
  <2>1. Readable(frags) = frags /\ LoadAccepts(base, frags) /\ MergeAccepts(base, frags) /\ base \in Bases
    BY DEF StoredInv, LoadAccepts
  <2>2. Whole(frags, MergedOf(base, frags))
    BY <2>1, MergedWhole
  <2> QED
    BY <2>1, <2>2 DEF ValidatedIsServed, Whole
<1>3. StoredInv /\ [PolicyNext]_policyVars => StoredInv'
  BY StoredStep
<1> QED
  BY <1>1, <1>2, <1>3, PTL DEF PolicySpec

-----------------------------------------------------------------------------
(* What a blueprint declares. *)

\* In this table the credential of the blueprint has the committed bounds, or
\* else the blueprint's, or none.
BoundsOnly(c) ==
  bp.credential \in DOMAIN c.cons =>
    c.cons[bp.credential] = IF bp.credential \in DOMAIN base.cons THEN base.cons[bp.credential]
                            ELSE RenderedBounds(bp, Values(bp, given))

GovernedInv ==
  /\ base \in Bases
  /\ stage = "before" => bp = None
  /\ bp # None => bp \in Blueprints /\ Valid(bp) /\ RenderAccepts(bp, Values(bp, given))
  /\ stage = "stored" /\ bp # None => BoundsOnly(MergedOf(base, Readable(frags)))
  /\ stage = "serving" /\ bp # None => BoundsOnly(cfg)

\* The seams of a valid blueprint bound different tools, by known operators.
LEMMA SeamsBound ==
  ASSUME NEW b, Valid(b), NEW tool \in DOMAIN Bounds(b)
  PROVE  /\ tool \in UNION {DOMAIN b.seams[n].bound : n \in DOMAIN b.seams}
         /\ \A c \in Bounds(b)[tool] : c.op \in Ops
<1> DEFINE docs == {b.seams[n] : n \in DOMAIN b.seams}
<1>1. ValidSeams(b)
  BY DEF Valid
<1>2. Apart(docs, "bound")
  <2>1. \A s, z \in DOMAIN b.seams : s # z => DOMAIN b.seams[s].bound \cap DOMAIN b.seams[z].bound = {}
    BY <1>1 DEF ValidSeams
  <2> SUFFICES ASSUME NEW f \in docs, NEW g \in docs, f # g
               PROVE  DOMAIN f.bound \cap DOMAIN g.bound = {}
    BY DEF Apart
  <2>2. PICK s \in DOMAIN b.seams : f = b.seams[s]
    OBVIOUS
  <2>3. PICK z \in DOMAIN b.seams : g = b.seams[z]
    OBVIOUS
  <2> QED
    BY <2>1, <2>2, <2>3
<1>3. PICK f \in docs : tool \in DOMAIN f["bound"]
  BY AllNames DEF Bounds
<1>4. Bounds(b)[tool] = f["bound"][tool]
  BY <1>2, <1>3, AllHolds DEF Bounds
<1>5. PICK s \in DOMAIN b.seams : f = b.seams[s]
  OBVIOUS
<1>6. \A c \in b.seams[s].bound[tool] : ValidBound(b, c, b.seams[s].requires[tool])
  BY <1>1, <1>3, <1>5 DEF ValidSeams
<1> QED
  BY <1>3, <1>4, <1>5, <1>6 DEF ValidBound

\* A rendered block is every bound of its tool: it applies whole or not at
\* all (renderConstraints).
LEMMA RenderedWhole ==
  ASSUME NEW b, NEW values, RenderAccepts(b, values), NEW tool \in DOMAIN RenderedBounds(b, values)
  PROVE  /\ tool \in DOMAIN Bounds(b)
         /\ RenderedBounds(b, values)[tool] = {RenderConstraint(b, values, c) : c \in Bounds(b)[tool]}
         /\ \A c \in Bounds(b)[tool] :
              /\ Resolves(values, c.ref, None)
              /\ AsInteger(b, c) => \A t \in TextsOf(b, values, c) : IsInteger(t)
<1> DEFINE block == [u \in DOMAIN Bounds(b) |-> {c \in Bounds(b)[u] : Applies(values, c)}]
<1>1. /\ tool \in DOMAIN Bounds(b) /\ block[tool] # {}
      /\ RenderedBounds(b, values)[tool] = {RenderConstraint(b, values, c) : c \in block[tool]}
  BY DEF RenderedBounds
<1>2. BlockRenders(b, values, Bounds(b)[tool])
  BY <1>1 DEF RenderAccepts
<1>3. block[tool] = {c \in Bounds(b)[tool] : Applies(values, c)}
  BY <1>1
<1> HIDE DEF block
<1>4. \A c \in Bounds(b)[tool] : Applies(values, c)
  BY <1>1, <1>2, <1>3 DEF BlockRenders
<1>5. block[tool] = Bounds(b)[tool]
  BY <1>3, <1>4
<1> QED
  BY <1>1, <1>2, <1>4, <1>5 DEF BlockRenders

\* A value a rendered bound passes is one its author meant.
LEMMA WithinMeets ==
  ASSUME NEW c, c.op \in Ops,
         Resolves(Values(bp, given), c.ref, None),
         AsInteger(bp, c) => \A t \in TextsOf(bp, Values(bp, given), c) : IsInteger(t),
         NEW args, \A f \in DOMAIN args : args[f] \in Value /\ (args[f].k = "int" => IsInteger(args[f].t)),
         Within(RenderConstraint(bp, Values(bp, given), c), args)
  PROVE  Meets(c, args)
<1> DEFINE values == Values(bp, given)
           texts == TextsOf(bp, values, c)
           lit(t) == IF AsInteger(bp, c) THEN Num(t) ELSE Str(t)
           literal == {lit(t) : t \in texts}
           r == RenderConstraint(bp, values, c)
           v == args[c.field]
<1>1. /\ r.field = c.field /\ r.op = c.op
      /\ r.value = (IF c.op \in SetOps THEN None ELSE CHOOSE l \in literal : TRUE)
      /\ r.values = (IF c.op \in SetOps THEN literal ELSE {})
  BY DEF RenderConstraint
<1>2. c.field \in DOMAIN args /\ v \in Value /\ (v.k = "int" => IsInteger(v.t))
  BY <1>1 DEF Within
<1>3. /\ r.op = "in" => v \in r.values
      /\ r.op = "not_in" => v \notin r.values
      /\ r.op = "eq" => v = r.value
      /\ r.op = "ne" => v # r.value
      /\ r.op \in NumericOps => v.k = "int" /\ r.value.k = "int" /\ Compares(r.op, v.t, r.value.t)
  BY <1>1 DEF Within, NumericOps
<1>4. \A t : lit(t).t = t /\ lit(t).k = (IF AsInteger(bp, c) THEN "int" ELSE "str")
  BY DEF Num, Str
<1>5. \A t : v.t = t /\ v.k = (IF AsInteger(bp, c) THEN "int" ELSE "str") => v = lit(t)
  BY <1>2 DEF Num, Str, Value
<1>6. c.op \notin SetOps => \E t \in texts : texts = {t} /\ r.value = lit(t)
  <2> SUFFICES ASSUME c.op \notin SetOps PROVE \E t \in texts : texts = {t} /\ r.value = lit(t)
    OBVIOUS
  <2> DEFINE t0 == TextOf(values, c.ref, None)
  <2>1. texts = {t0}
    BY DEF TextsOf
  <2> HIDE DEF texts, t0, lit
  <2>2. literal = {lit(t0)}
    BY <2>1
  <2> HIDE DEF literal
  <2>3. (CHOOSE l \in literal : TRUE) = lit(t0)
    BY <2>2
  <2> QED
    BY <2>1, <2>3, <1>1
<1>7. c.op \in SetOps => r.values = literal
  BY <1>1
<1> HIDE DEF r, lit
<1>8. c.op \in {"eq", "in"} => v.t \in texts
  <2>1. CASE c.op = "eq"
    BY <2>1, <1>1, <1>3, <1>4, <1>6 DEF SetOps
  <2>2. CASE c.op = "in"
    BY <2>2, <1>1, <1>3, <1>4, <1>7 DEF SetOps
  <2> QED
    BY <2>1, <2>2
<1>9. c.op \in {"ne", "not_in"} => (v.k = (IF AsInteger(bp, c) THEN "int" ELSE "str") => v.t \notin texts)
  <2>1. CASE c.op = "ne"
    BY <2>1, <1>1, <1>3, <1>5, <1>6 DEF SetOps
  <2>2. CASE c.op = "not_in"
    BY <2>2, <1>1, <1>3, <1>5, <1>7 DEF SetOps
  <2> QED
    BY <2>1, <2>2
<1>10. c.op \in NumericOps => IsInteger(v.t) /\ \A t \in texts : Compares(c.op, v.t, t)
  <2> SUFFICES ASSUME c.op \in NumericOps
               PROVE  IsInteger(v.t) /\ \A t \in texts : Compares(c.op, v.t, t)
    OBVIOUS
  <2>1. v.k = "int" /\ Compares(c.op, v.t, r.value.t)
    BY <1>1, <1>3
  <2>2. PICK t \in texts : texts = {t} /\ r.value = lit(t)
    BY <1>6 DEF SetOps, NumericOps
  <2> HIDE DEF texts
  <2>3. r.value.t = t
    BY <2>2, <1>4
  <2> QED
    BY <2>1, <2>2, <2>3, <1>2
<1> HIDE DEF texts, v
<1>11. c.op \in {"eq", "in"} \/ c.op \in {"ne", "not_in"} \/ c.op \in NumericOps
  BY DEF Ops, SetOps
<1>12. c.op \in NumericOps => c.op \notin {"eq", "in"} /\ c.op \notin {"ne", "not_in"}
  BY DEF NumericOps
<1> QED
  BY <1>2, <1>8, <1>9, <1>10, <1>11, <1>12 DEF Meets, texts, v

\* What the overlay holds of the blueprint's credential is what was rendered:
\* no other fragment may bound it (fragmentConstrains).  The committed table
\* comes first, wherever it does.
LEMMA GovernBounds ==
  ASSUME base \in Bases, NEW b \in Blueprints, NEW g,
         AloneFor(b.credential, FragmentOf(b, Values(b, g)).key),
         LET c == MergedOf(base, Readable(Replaced(FragmentOf(b, Values(b, g))))) IN
           b.credential \in DOMAIN c.cons
  PROVE  MergedOf(base, Readable(Replaced(FragmentOf(b, Values(b, g))))).cons[b.credential]
           = IF b.credential \in DOMAIN base.cons THEN base.cons[b.credential] ELSE RenderedBounds(b, Values(b, g))
<1> DEFINE f == FragmentOf(b, Values(b, g))
           docs == Readable(Replaced(f))
           c == MergedOf(base, docs)
           k == b.credential
<1>1. c.cons = Join(All(docs, "cons"), base.cons)
  BY MergedIs
<1>2. f.cons = [n \in IF RenderedBounds(b, Values(b, g)) = Empty THEN {} ELSE {b.credential} |->
                  RenderedBounds(b, Values(b, g))]
  BY DEF FragmentOf
<1>3. \A h \in docs : h = f \/ (h \in frags /\ h.key # f.key)
  <2> HIDE DEF f
  <2> QED
    BY DEF Readable, Replaced
<1>4. AloneFor(k, f.key) /\ k \in DOMAIN c.cons
  OBVIOUS
<1> HIDE DEF f, docs, c
<1>5. CASE k \in DOMAIN base.cons
  BY <1>5, <1>1 DEF Join, c, docs, f
<1>6. CASE k \notin DOMAIN base.cons
  <2>1. k \in DOMAIN All(docs, "cons") /\ c.cons[k] = All(docs, "cons")[k]
    BY <1>1, <1>6, <1>4 DEF Join
  <2>2. \A h \in docs : k \in DOMAIN h["cons"] => h = f
    BY <1>3, <1>4 DEF AloneFor
  <2>3. PICK h \in docs : k \in DOMAIN h["cons"]
    BY <2>1, AllNames
  <2>4. All(docs, "cons")[k] = (CHOOSE d \in docs : k \in DOMAIN d["cons"])["cons"][k]
    BY <2>1 DEF All
  <2>5. (CHOOSE d \in docs : k \in DOMAIN d["cons"]) = f
    BY <2>2, <2>3
  <2>6. h = f
    BY <2>2, <2>3
  <2>7. k \in DOMAIN f.cons
    BY <2>3, <2>6
  <2>8. f.cons[k] = RenderedBounds(b, Values(b, g))
    BY <1>2, <2>7
  <2>9. c.cons[k] = f.cons[k]
    BY <2>1, <2>4, <2>5
  <2> QED
    BY <1>6, <2>8, <2>9 DEF c, docs, f
<1> QED
  BY <1>5, <1>6

LEMMA GovernedStep ==
  ASSUME GovernedInv, [PolicyNext]_policyVars PROVE GovernedInv'
<1>1. ASSUME UNCHANGED <<base, frags, stage, bp, given, cfg>> PROVE GovernedInv'
  BY <1>1 DEF GovernedInv, BoundsOnly
<1>2. ASSUME NEW b \in Blueprints, NEW g \in Givens, GovernWorkflow(b, g) PROVE GovernedInv'
  <2> DEFINE f == FragmentOf(b, Values(b, g))
             c == MergedOf(base, Readable(Replaced(f)))
  <2>1. /\ Valid(b) /\ RenderAccepts(b, Values(b, g)) /\ AloneFor(b.credential, f.key)
        /\ bp' = b /\ given' = g /\ frags' = Replaced(f) /\ stage' = "stored" /\ base' = base
    BY <1>2 DEF GovernWorkflow, Stored
  <2>2. b.credential \in DOMAIN c.cons =>
          c.cons[b.credential] = IF b.credential \in DOMAIN base.cons THEN base.cons[b.credential]
                                 ELSE RenderedBounds(b, Values(b, g))
    BY <2>1, GovernBounds DEF GovernedInv
  <2> HIDE DEF f
  <2>3. MergedOf(base', Readable(frags')) = c
    BY <2>1
  <2> HIDE DEF c
  <2>4. BoundsOnly(MergedOf(base, Readable(frags)))'
    BY <2>1, <2>2, <2>3 DEF BoundsOnly
  <2> QED
    BY <2>1, <2>4 DEF GovernedInv
<1>3. ASSUME NEW o \in Offers, AddUpstream(o.name, o.url, o.tools) PROVE GovernedInv'
  BY <1>3 DEF AddUpstream, Stored, GovernedInv
<1>4. CASE PodBoots
  <2>1. /\ UNCHANGED <<base, frags, bp, given>> /\ stage \in {"before", "stored"}
        /\ \/ stage' = "serving" /\ cfg' = MergedOf(base, Readable(frags))
           \/ stage' = "down"
    BY <1>4 DEF PodBoots
  <2>2. stage' = "serving" /\ bp # None => BoundsOnly(cfg)'
    BY <2>1 DEF GovernedInv, BoundsOnly
  <2> QED
    BY <2>1, <2>2 DEF GovernedInv
<1>5. ASSUME NEW c \in Calls, AgentCalls(c.tool, c.args) PROVE GovernedInv'
  BY <1>1, <1>5 DEF AgentCalls
<1>6. ASSUME NEW i \in DOMAIN bp.steps, RunStep(bp.steps[i].name) PROVE GovernedInv'
  BY <1>1, <1>6 DEF RunStep, Approve
<1>7. CASE Fetch \/ Transfer \/ Knock \/ Pass
  BY <1>1, <1>7 DEF Fetch, Transfer, Knock, Pass, pvars
<1>8. CASE UNCHANGED policyVars
  BY <1>1, <1>8 DEF policyVars, pvars
<1> QED
  BY <1>2, <1>3, <1>4, <1>5, <1>6, <1>7, <1>8 DEF PolicyNext

\* GovernedAsDeclared, of every blueprint and whatever it is given: no argument
\* admits without a human what a step waits for one to approve, and a bound
\* admits only inside all that its author wrote, wherever the committed table
\* has no bounds of its own (validatePostures, renderConstraints).
THEOREM GovernsAsDeclared == PolicySpec => []GovernedAsDeclared
<1>1. PolicyInit => GovernedInv
  BY DEF PolicyInit, GovernedInv
<1>2. GovernedInv => GovernedAsDeclared
  <2> SUFFICES ASSUME GovernedInv, stage = "serving", bp # None,
                      NEW c \in Calls, c.tool \notin Committed, Stands(cfg, Allowlist(bp), Credential, c.tool, c.args)
               PROVE  /\ \A i \in DOMAIN bp.steps :
                           bp.steps[i].kind = "consequential" => bp.steps[i].call.tool # c.tool
                      /\ c.tool \in DOMAIN Bounds(bp) \ Allowlist(bp) =>
                           \A bound \in Bounds(bp)[c.tool] : Meets(bound, c.args)
    BY DEF GovernedAsDeclared
  <2> DEFINE values == Values(bp, given)
             R == RenderedBounds(bp, values)
  <2>1. Valid(bp) /\ RenderAccepts(bp, values) /\ BoundsOnly(cfg)
    BY DEF GovernedInv
  <2>2. \/ c.tool \in DOMAIN R /\ Satisfied(R[c.tool], c.args)
        \/ c.tool \in Allowlist(bp)
    BY <2>1 DEF Stands, Constrained, BoundsOnly, Credential, Committed
  <2> HIDE DEF values
  <2>3. ASSUME NEW i \in DOMAIN bp.steps, bp.steps[i].kind = "consequential"
        PROVE  bp.steps[i].call.tool # c.tool
    <3>1. ValidStepShape(bp, bp.steps[i]) /\ (bp.steps[i].call # None => Postures(bp, bp.steps[i]))
      BY <2>1 DEF Valid
    <3>2. Postures(bp, bp.steps[i])
      BY <3>1, <2>3 DEF ValidStepShape
    <3>3. /\ bp.steps[i].call.tool \notin Allowlist(bp)
          /\ bp.steps[i].call.tool \notin UNION {DOMAIN bp.seams[n].bound : n \in DOMAIN bp.seams}
      BY <3>2, <2>3 DEF Postures, Allowlist
    <3>4. c.tool \in DOMAIN R => c.tool \in UNION {DOMAIN bp.seams[n].bound : n \in DOMAIN bp.seams}
      BY <2>1, RenderedWhole, SeamsBound
    <3> QED
      BY <2>2, <3>3, <3>4
  <2>4. ASSUME c.tool \in DOMAIN Bounds(bp) \ Allowlist(bp), NEW bound \in Bounds(bp)[c.tool]
        PROVE  Meets(bound, c.args)
    <3>1. c.tool \in DOMAIN R /\ Satisfied(R[c.tool], c.args)
      BY <2>2, <2>4
    <3>2. /\ R[c.tool] = {RenderConstraint(bp, values, b) : b \in Bounds(bp)[c.tool]}
          /\ Resolves(values, bound.ref, None)
          /\ AsInteger(bp, bound) => \A t \in TextsOf(bp, values, bound) : IsInteger(t)
      BY <3>1, <2>1, RenderedWhole
    <3>3. bound.op \in Ops
      BY <2>1, <2>4, SeamsBound
    <3>4. Within(RenderConstraint(bp, values, bound), c.args)
      BY <3>1, <3>2 DEF Satisfied
    <3>5. \A f \in DOMAIN c.args : c.args[f] \in Value /\ (c.args[f].k = "int" => IsInteger(c.args[f].t))
      BY PolicyAssumption
    <3> QED
      BY <3>2, <3>3, <3>4, <3>5, WithinMeets DEF values
  <2> QED
    BY <2>3, <2>4
<1>3. GovernedInv /\ [PolicyNext]_policyVars => GovernedInv'
  BY GovernedStep
<1> QED
  BY <1>1, <1>2, <1>3, PTL DEF PolicySpec

=============================================================================

------------------------------- MODULE Policy -------------------------------
(***************************************************************************)
(* From a blueprint and an onboarded server to what the plane then admits. *)
(*                                                                         *)
(* kmx renders a fragment (`workflow govern`, `tools add`) and has the     *)
(* running plane validate the overlay it would make; the proxy that boots  *)
(* next reads committed table and overlay, vets the hosts they name, and   *)
(* serves: tool calls against the table's policy and against the grants of *)
(* filed requests a driver's human approved, calls to hosted upstreams     *)
(* through the hardened dialer, events at the hook's door.                 *)
(*                                                                         *)
(* How commands race on the overlay is Overlay's, how a run is driven is   *)
(* Workflow's, and how the gateway answers is Gateway's: here one command  *)
(* writes, and it is what is written and admitted that is followed.        *)
(***************************************************************************)
EXTENDS Blueprint, Egress, Hook

CONSTANTS
  Bases,      \* committed tables
  Overlays,   \* sets of fragments the overlay may hold before
  Blueprints, \* as written
  Givens,     \* what --set gives
  Offers,     \* fragments of servers `tools add` is told of
  Calls,      \* calls the agent may make: [tool, args]
  Shown,      \* Shown[t]: what is left of t, cleaned and clipped, for an approver
  Splits,     \* Splits[t]: how t reads inside a line: a text, and further parts
  Named,      \* what an object is shown as
  MaxFiled    \* bound: requests filed

\* A base is a document of the five blocks; one door is followed; an integer
\* argument reads as one.
ASSUME PolicyAssumption ==
  /\ MaxFiled \in Nat /\ Shown \in [Texts -> Texts] /\ Named \in Texts
  /\ Splits[Named].t = Named /\ Splits[Named].more = {}
  /\ \A b \in Bases :
       /\ b = [models |-> b.models, ups |-> b.ups, hooks |-> b.hooks, notifier |-> b.notifier, cons |-> b.cons]
       /\ \A h \in b.hooks : h.rate \in Nat /\ h.burst \in Nat
       /\ \A g, h \in b.hooks : g = h
  /\ \A c \in Calls : \A f \in DOMAIN c.args :
       c.args[f] \in Value /\ (c.args[f].k = "int" => IsInteger(c.args[f].t))

VARIABLES
  base, frags,
  stage,     \* "before", "stored", "serving", "down"
  bp, given, \* what is governed, None when a server was onboarded
  cfg,       \* the table served, None before
  filed,     \* requests of denied calls: binding, line and the call itself (history)
  grants,    \* bindings a human approved, and the call each was asked for (history)
  last       \* the last call admitted by a grant, and that one, <<>> before (history)

pvars == <<base, frags, stage, bp, given, cfg, filed, grants, last>>
policyVars == <<pvars, evars, hvars>>

PolicyInit ==
  /\ base \in Bases /\ frags \in Overlays
  /\ stage = "before" /\ bp = None /\ given = Empty /\ cfg = None
  /\ filed = {} /\ grants = {} /\ last = <<>>
  /\ EgressInit /\ HookInit

-----------------------------------------------------------------------------
(* Writing the overlay. *)

\* Fault: what a boot skips, validation skips.
ValidatesAsBooted(candidate) == LoadAccepts(base, candidate)

\* What the running plane says of the overlay a command would leave.
Validates(candidate) == ValidateAccepts(base, candidate)

Stored(fragments) == frags' = fragments /\ stage' = "stored"

\* The blueprint's key is written, or removed when there are no bounds.
Replaced(f) == {g \in frags : g.key # f.key} \cup (IF f.cons = Empty THEN {} ELSE {f})

\* A credential's bounds are one fragment's; one that does not parse may
\* hold some (fragmentConstrains).
AloneFor(credential, key) ==
  \A f \in frags : f.key # key => f.json /\ credential \notin DOMAIN f.cons

\* workflow govern --replace.  A removal is not validated: the overlay that
\* still holds the key is.
GovernWorkflow(b, g) ==
  LET values == Values(b, g)
      f == FragmentOf(b, values)
      candidate == IF f.cons = Empty THEN frags ELSE Replaced(f) IN
  /\ stage = "before" /\ Valid(b) /\ BindAccepts(b, g, {}) /\ RenderAccepts(b, values)
  /\ AloneFor(b.credential, f.key)
  /\ Validates(candidate) /\ SeamsMatch(b, MergedOf(base, candidate))
  /\ bp' = b /\ given' = g /\ Stored(Replaced(f))
  /\ UNCHANGED <<base, cfg, filed, grants, last, evars, hvars>>

\* parseUpstreamURL: plain http, no user, a service or one with a namespace.
OnboardableURL(u) ==
  u.scheme = "http" /\ ~u.user /\ u.host.addr = None /\ u.host.labels \in {1, 2}

\* tools add.  A tool is declared with its fields; one left to bind as a
\* whole ("*") is not declared at all.
AddUpstream(name, url, tools) ==
  LET f == [key |-> [name |-> name, json |-> TRUE, dot |-> FALSE], json |-> TRUE,
            blocks |-> {"tool_upstreams"}, cons |-> Empty,
            ups |-> [n \in {name} |-> [url |-> url, internet |-> FALSE, ca |-> FALSE, cred |-> FALSE,
                                       header |-> "", extra |-> {}, tools |-> tools]]] IN
  /\ stage = "before" /\ OnboardableURL(url)
  /\ \A g \in frags : g.key # f.key
  /\ Validates(frags \cup {f}) /\ Stored(frags \cup {f})
  /\ UNCHANGED <<base, bp, given, cfg, filed, grants, last, evars, hvars>>

-----------------------------------------------------------------------------
(* The pod that boots: LoadDir, then hardenedClient. *)

InternetHosts(c) ==
  {c.ups[n].url.host : n \in {m \in DOMAIN c.ups : c.ups[m].internet}}
  \cup {m.url.host : m \in {u \in c.models : u.internet}}
InClusterHosts(c) ==
  {c.ups[n].url.host : n \in {m \in DOMAIN c.ups : ~c.ups[m].internet}}
  \cup {m.url.host : m \in {u \in c.models : ~u.internet}}

\* One lookup at boot; a name without an answer is left to the calls.
BootAnswers(h) == IF h.addr # None THEN {{h.addr}} ELSE DnsAnswers \cup {{}}

PodBoots ==
  /\ stage \in {"before", "stored"}
  /\ LET c == MergedOf(base, Readable(frags)) IN
       \/ /\ LoadAccepts(base, frags)
          /\ \A h \in InternetHosts(c) : \E found \in BootAnswers(h) : found = {} \/ Vetted(found)
          /\ \A h \in InClusterHosts(c) : \E found \in BootAnswers(h) : \A a \in found : Refused(a)
          /\ stage' = "serving" /\ cfg' = c
       \/ /\ \/ ~LoadAccepts(base, frags)
             \/ \E h \in InternetHosts(c) : \E found \in BootAnswers(h) : found # {} /\ ~Vetted(found)
             \/ \E h \in InClusterHosts(c) : \E found \in BootAnswers(h) : \E a \in found : ~Refused(a)
          /\ stage' = "down" /\ UNCHANGED cfg
  /\ UNCHANGED <<base, frags, bp, given, filed, grants, last, evars, hvars>>

-----------------------------------------------------------------------------
(* Calls. *)

Credential == bp.credential

\* The declared arguments of a call.
Stated(tool, args) ==
  [f \in IF tool \in DeclaredTools(cfg) THEN FieldSet(Declared(cfg, tool)) \cap DOMAIN args ELSE {} |-> args[f]]

\* "tool: field text, field text": a text that holds such a join reads as
\* parts of its own.  Neither order nor repetition is kept, which makes more
\* lines alike; no part at all stands for the plane's words for that.
Line(tool, said) ==
  [tool |-> tool,
   parts |-> UNION {{[field |-> f, t |-> Splits[said[f]].t]} \cup Splits[said[f]].more : f \in DOMAIN said}]

\* As the plane files it, and as the driver builds it of a step.
Summary(tool, args) ==
  LET stated == Stated(tool, args) IN
  Line(tool, [f \in DOMAIN stated |-> IF stated[f].k = "obj" THEN Named ELSE Shown[stated[f].t]])
StepLine(tool, args) ==
  LET stated == Stated(tool, args) IN Line(tool, [f \in DOMAIN stated |-> stated[f].t])

\* tools/call: a standing constraint, else the allowlist, else a grant of
\* this very binding; what is denied is filed, once for a binding.
AgentCalls(tool, args) ==
  LET bind == Bind(cfg, tool, args)
      call == [tool |-> tool, args |-> args]
      request == [bind |-> bind, line |-> Summary(tool, args), call |-> call] IN
  /\ stage = "serving" /\ bp # None
  /\ ~Stands(cfg, Allowlist(bp), Credential, tool, args)
  /\ \/ \E g \in grants :
          /\ g.bind = bind
          /\ grants' = grants \ {g} /\ last' = <<[call |-> call, asked |-> g.asked]>>
          /\ UNCHANGED filed
     \/ /\ \A r \in filed \cup grants : r.bind # bind
        /\ Cardinality(filed) < MaxFiled
        /\ filed' = filed \cup {request} /\ UNCHANGED <<grants, last>>
  /\ UNCHANGED <<base, frags, stage, bp, given, cfg, evars, hvars>>

\* The steps a run of these steps renders to.
Runs(names) ==
  {s \in {bp.steps[i] : i \in DOMAIN bp.steps} :
     s.name \in names /\ s.call # None /\ Applies(Values(bp, given), [when |-> s.when])}

\* The driver shows its human a filed request that reads as its step, and the
\* human approves it.
Approve(s, item) ==
  LET values == Values(bp, given)
      shown == StepLine(s.call.tool, Arguments(s, values, item)) IN
  /\ s.kind = "consequential" /\ ~s.call.ungoverned /\ StepRenders(s, values, item)
  /\ shown.parts # {}
  /\ \E r \in filed :
       /\ r.line = shown
       /\ filed' = filed \ {r} /\ grants' = grants \cup {[bind |-> r.bind, asked |-> r.call]}
  /\ UNCHANGED <<base, frags, stage, bp, given, cfg, last, evars, hvars>>

RunStep(name) ==
  /\ stage = "serving" /\ bp # None
  /\ Validates(frags) /\ SeamsMatch(bp, cfg)
  /\ BindAccepts(bp, given, {name}) /\ RenderAccepts(bp, Values(bp, given))
  /\ \E s \in Runs({name}) : \E item \in Items(Values(bp, given), s) : Approve(s, item)

-----------------------------------------------------------------------------
(* Egress and events. *)

Fetch ==
  /\ stage = "serving"
  /\ \E n \in DOMAIN cfg.ups : cfg.ups[n].internet /\ Begin(cfg.ups[n].url, InternetHosts(cfg))
  /\ UNCHANGED <<pvars, hvars>>

Transfer == EgressStep /\ UNCHANGED <<pvars, hvars>>

Knock ==
  /\ stage = "serving" /\ \E h \in cfg.hooks : Event(h)
  /\ UNCHANGED <<pvars, evars>>

Pass == stage = "serving" /\ cfg.hooks # {} /\ Tick /\ UNCHANGED <<pvars, evars>>

PolicyNext ==
  \/ \E b \in Blueprints, g \in Givens : GovernWorkflow(b, g)
  \/ \E o \in Offers : AddUpstream(o.name, o.url, o.tools)
  \/ PodBoots
  \/ \E c \in Calls : AgentCalls(c.tool, c.args)
  \/ bp # None /\ \E i \in DOMAIN bp.steps : RunStep(bp.steps[i].name)
  \/ Fetch \/ Transfer \/ Knock \/ Pass

PolicySpec == PolicyInit /\ [][PolicyNext]_policyVars

-----------------------------------------------------------------------------
(* Properties. *)

Bindings ==
  \A b \in {r.bind : r \in filed \cup grants} :
    /\ b.mode \in {"declared", "all"} /\ \A f \in DOMAIN b.args : b.args[f] \in Value

PolicyTypeOK ==
  /\ base \in Bases /\ stage \in {"before", "stored", "serving", "down"}
  /\ bp \in Blueprints \cup {None} /\ (cfg = None <=> stage # "serving")
  /\ Bindings /\ Cardinality(filed) <= MaxFiled
  /\ ETypeOK /\ clock \in 0..LastTick /\ Len(admitted) <= MaxEvents

\* An overlay the plane validated is one the next pod loads, and whole: each
\* server and each bound it was given is in the table served, as it was
\* written (validateConfig says it parses what main boots with).
ValidatedIsServed ==
  LET holds(c) == \A f \in frags :
        /\ \A n \in DOMAIN f.ups : n \in DOMAIN c.ups /\ c.ups[n] = f.ups[n]
        /\ \A k \in DOMAIN f.cons : k \in DOMAIN c.cons /\ c.cons[k] = f.cons[k] IN
  stage = "stored" => LoadAccepts(base, frags) /\ holds(MergedOf(base, Readable(frags)))

\* A bound as its author reads it: what the argument's text is to the texts
\* the bound names.
Meets(c, args) ==
  LET values == Values(bp, given)
      texts == TextsOf(bp, values, c) IN
    /\ Resolves(values, c.ref, None) /\ c.field \in DOMAIN args
    /\ LET said == args[c.field].t IN
         CASE c.op \in {"eq", "in"} -> said \in texts
           [] c.op \in {"ne", "not_in"} ->
                args[c.field].k = (IF AsInteger(bp, c) THEN "int" ELSE "str") => said \notin texts
           [] OTHER -> IsInteger(said) /\ \A t \in texts : Compares(c.op, said, t)

\* The tools the committed table bounds for the blueprint's credential: those
\* bounds are its own, and admit whatever the blueprint says.
Committed == IF Credential \in DOMAIN base.cons THEN DOMAIN base.cons[Credential] ELSE {}

\* What a blueprint declares is what is served, but for what the committed
\* table itself bounds.  What a step waits for a human
\* to approve, no argument admits without one (validatePostures: "the approval
\* it performs is theatre").  A tool only a bound admits is admitted inside all
\* of the bound its blueprint writes, whatever parameters were given
\* (renderConstraints: a partial bound is "wider than the one written").
GovernedAsDeclared ==
  stage = "serving" /\ bp # None =>
    \A c \in Calls : c.tool \notin Committed /\ Stands(cfg, Allowlist(bp), Credential, c.tool, c.args) =>
      /\ \A i \in DOMAIN bp.steps :
           bp.steps[i].kind = "consequential" => bp.steps[i].call.tool # c.tool
      /\ c.tool \in DOMAIN Bounds(bp) \ Allowlist(bp) =>
           \A bound \in Bounds(bp)[c.tool] : Meets(bound, c.args)

\* Nothing of it is lost in a line, and nothing is read into it there.
Plain(v) == v.k # "obj" /\ Shown[v.t] = v.t /\ Splits[v.t].t = v.t /\ Splits[v.t].more = {}

\* A call a grant admitted is, in every field its tool declares, the very call
\* the approved request was filed for (Bind: "A grant admits a call only when
\* the digests match").  And it says, text for text, what one of the steps says that were
\* put to a human, when what both say is plain: the line alone connects them
\* (summarize, selectRequest).
AdmittedAsShown ==
  last # <<>> =>
    LET call == last[1].call
        stated == Stated(call.tool, call.args)
        values == Values(bp, given)
        plain(said) == \A f \in DOMAIN said : Plain(said[f])
        texts(said) == [f \in DOMAIN said |-> said[f].t] IN
    /\ last[1].asked.tool = call.tool /\ Stated(call.tool, last[1].asked.args) = stated
    /\ \E i \in DOMAIN bp.steps : bp.steps[i].kind = "consequential" /\
         \E item \in Items(values, bp.steps[i]) :
           LET step == Stated(bp.steps[i].call.tool, Arguments(bp.steps[i], values, item)) IN
             /\ StepRenders(bp.steps[i], values, item) /\ bp.steps[i].call.tool = call.tool
             /\ plain(stated) /\ plain(step) => texts(stated) = texts(step)

\* What crosses the plane's edges stays inside its limits: no connection goes
\* to an address that is refused, no answer that was cut passes for a whole one
\* but where nothing answered the one read past the cap (DialContext,
\* boundedBody), and a hook admits no more events than its rate
\* and its burst, however long it was idle (allow).
EdgesHold ==
  /\ NeverDialsRefused /\ CutIsNeverClean
  /\ stage = "serving" => \A h \in cfg.hooks : RateHolds(h)
=============================================================================

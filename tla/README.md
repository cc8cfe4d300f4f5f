# Kaimahi in TLA+

This directory specifies the behaviour of this repository's program in TLA+,
model-checks it with TLC on small instances, and proves the most important
results for every instance with TLAPS.

Kaimahi puts a governance plane (`plane/`, one Go process, several replicas
over one Postgres) between agents and what they use: model providers (the proxy
seam), MCP tool servers (the gateway seam) and the events that wake them up
(the inbound bridge). `kmx` (`internal/kmx`) is the operator's CLI that installs
the plane, issues credentials and drives workflows through its admin API.

## 1. Inventory

| Component | State it keeps | Operations | Who it meets |
|---|---|---|---|
| Spend store (`store/spend.go`, `store.go`, `meter/`) | `credential` caps, `ledger_entry`, `spend_reservation`, budget rows of `permit_grant` | AdmitSpend, RecordLedger, SetBudget, Preview | proxy seam, inbound door, admin |
| Approvals store (`store/approvals.go`, `store/inbound.go`) | `approval_request`, `permit_grant`, `approval_audit`, `inbound_audit` | file, approve, deny, consume (budget / tool / inbound) | both seams, inbound door, admin, Slack commands, `kmx workflow run` |
| Proxy seam (`proxy/handler.go`) | `ledgerDegraded`, one goroutine per request | forward: authenticate, route, price gate, reserve, relay, record | spend store, approvals, attribution, providers |
| Gateway seam (`gateway/`) | `auditDegraded`, one goroutine per request | relay of JSON-RPC: constraint, allowlist, grant, projection of `tools/list` | approvals, tool audit, MCP servers |
| Inbound bridge (`inbound/`) | slot semaphore, job queue, rate limiters, `auditDegraded` | receive, process, invoke, Slack commands | approvals, meter, attribution, agents over A2A |
| Attribution (`store/identity.go`) | `agent_run` windows | OpenRun, CloseRun, ActorFor | inbound bridge opens, seams read |
| Notifier (`notify/`) | bounded post queue, in-flight flag | Enqueue, Run, Drain, retry by outcome | approvals (each fresh filing), gateway listener |
| Lifecycle (`cmd/kaimahi-proxy`, `db/`, `ops/`) | servers, draining flag, probes | start with retries, readiness / liveness, ordered shutdown | everything above |
| Egress (`egress/`) | response body timers and counters | vet, dial, bounded body | proxy and gateway clients |
| Policy configuration (`config/`) | base table, overlay fragments | load, merge, validate constraints | gateway, inbound, `kmx` |
| Admin API (`proxy/admin*.go`, `validate.go`) | none of its own | credentials, budgets, allowlists, approvals | stores, `kmx` |
| Metrics, redaction | counters | observe | everything |
| `kmx` commands (`internal/kmx/app`) | files, cluster objects, run state | up, plane, use, govern, tools add, backup/restore, chat, workflow run | admin API, kubectl, agents |
| Blueprints (`internal/kmx/blueprint`) | parsed documents | bind, render, validate | workflow commands |
| Toolchain, guard, scaffold, plane build | cached binaries, kubeconfig posture, rendered manifests | fetch and verify, classify, render | `kmx` commands |
| ERP demo server (`internal/erp`) | in-memory invoices and payments | MCP tools | gateway |

What is hard here:

* **Concurrency between replicas.** Every promise about budgets and grants is
  made by Postgres row locks; any number of requests race for one credential.
* **Failure half way.** A client that hangs up cancels the transaction it is
  in, a commit may land without its caller learning, a replica dies between
  admission and record, and an audit write may fail after the call went out.
* **Stale reads.** Credentials, attribution, previews and a grant's liveness are
  read once and used later.
* **Bounded resources.** Slots, queues and rate limits refuse rather than block,
  and every path has to give back what it took.
* **Shutdown.** Servers, bridge and poster drain in an order in which the
  poster's own posts go through one of the servers.
* **Humans in the loop.** The same request may be decided from the admin API and
  from Slack at once, while the agent retries and a workflow driver polls.

### What makes each component correct

* *Spend*: concurrent admission is as exact as serial admission; a hold lives as
  long as its call; a grant use is consumed by exactly one committed admission.
* *Approvals*: a request is decided once; a grant's uses never pass its bound; a
  tool grant admits only the call it was given for; a refusal consumes nothing;
  the trail holds exactly what happened.
* *Proxy*: nothing is forwarded without an admission; every admitted call is
  recorded once; failure to record closes the plane and recovery opens it again.
* *Gateway*: a call is forwarded only under its constraint, its allowlist entry
  or a use of its own grant; each attempt is audited.
* *Inbound*: a delivery is admitted at most once and burns at most one use;
  every admitted event has at most one outcome; a slot taken is given back.
* *Attribution*: a row names an actor only when one run was open for the whole
  decision; overlap is recorded as unknown.
* *Notifier*: a filing is posted at most once; at shutdown what was queued is
  sent or counted.
* *Workflow driver*: acts only under the approval of the request it waited for, and
  reports only what the plane recorded; every run ends.
* *Overlay and policy*: nobody's fragment is lost to a command that read it; what was
  validated is what is served; what a blueprint keeps for a human no argument admits
  without one, and what the human approved is what was shown.
* *kmx commands*: a reported success is so; nothing but the window between a Secret's
  question and its apply loses a token, and no agent is moved off its gateway on the way;
  a failed command leaves nothing running or scaled down that it knows it has to put back.

## 2. The modules and how they compose

| Module | Part of the system | Extends or instantiates |
|---|---|---|
| `Spend` | the admission, ledger, budgets and budget grants of one credential | |
| `Approvals` | requests, decisions, grants and the trail of one credential | implements `Permit` |
| `Permit` | abstract: a bounded permit for one call | |
| `Notifier` | the poster, its queue and its attempts through the gateway | |
| `Shutdown` | the order in which a replica goes down | extends `Notifier` |
| `Proxy` | one request through the proxy seam | |
| `Inbound` | one hook: deliveries, queue, workers, runs | implements `Delivery` |
| `Delivery` | abstract: an event admitted, run and reported once | |
| `Gateway` | one tool call through the gateway seam, among the runs that name its actor | instantiates `Permit` for its grants |
| `Workflow` | the driver `kmx workflow run` against one credential | |
| `Overlay` | the overlay ConfigMap and the commands that share it | |
| `Table` | the plane's table: fragments, merge, parse, constraints, binding | |
| `Blueprint` | a workflow document: checks, parameters, rendering | extends `Table` |
| `Egress` | one call through the hardened dialer | extends `Table` |
| `Hook` | the token bucket at a hook's door | extends `Table` |
| `Policy` | from a blueprint or an offered server to what the plane admits | extends `Blueprint`, `Egress`, `Hook` |
| `Agents` | up, use, govern and tools govern on one agent | |
| `Plane` | plane, backup and restore | |
| `Bringup` | up, its steps, quickstart and down on one cluster | |

A module named `MC*` gives the constants of its component small values and names
the cuts of its instance; `MCCommands` extends `Agents`, `Plane` and `Bringup` and
checks them one at a time. A definition commented "Fault:" is not part of any
specification: it is the mutated form of the definition below it, written down so
that each property is known to fail when the code goes wrong in that way.

Three boundaries are crossed by abstraction rather than by running both sides
together: `Proxy` and `Inbound` take an admission of `Spend` for one step, which
`Spend` shows it may be; `Gateway` takes grants for permits, which `Approvals`
implements; and `Workflow` takes the plane for what `Gateway` and `Approvals`
promise, as far as its admin views show it.

## 3. What each module models

### Spend

One credential and the calls made with it, on whatever replica each runs (every
query of the admission is keyed by the credential).

| State | Code |
|---|---|
| `cap`, `lock` | the credential's row and its `FOR UPDATE` lock |
| `tx[c]` | `now()` of the transaction and `MonthStartUTC`, both fixed before any wait |
| `rsv`, `since`, `grant` | `spend_reservation`, the ledger's sums per month, `permit_grant` |
| `pc`, `burn`, `capped` | where the request is, the grants its admission takes, and whether it left a hold |
| `charged`, `top` | history: what was billed to a month's own calls, the largest cap so far |

`AdmitBegin` to `AdmitFail` are `Store.AdmitSpend`, split where another transaction
can be seen: begin, lock and decision, commit. `AdmitReplyLost` is a commit whose
answer the cancelled request context hides. `RecordLedger`/`RecordFail` are the
two ends of the ledger write, `Crash` a replica that dies, `SetBudget` and
`ApproveBudget` the operator. `Tick` may not let a call outlive the upstream
client's timeout except one whose client stopped reading, which `stalled` remembers. A
call's bill is at most `MaxUse`: real bills are not bounded by the cap, which is why the
property speaks of the cap's worth of largest bills.

### Approvals and Permit

The requests, grants and trail of one credential. `FileRequest`, `DecideBegin` to
`DecideEnd` (approve or deny, under the request's row lock) and `UseBegin` to
`UseTake` (consume, under the credential's row lock) are split like the
transactions are. The digest that welds a tool request to its arguments is a member
of a small set. `OldReq`/`OldGrant` are rows from before the migration to argument
binding, the only verb-level ones. `Permit` is the promise without the tables: a
permit covers one call, each act takes one of its uses. `ImplementsPermit` reads
`covers`, `left` and `taken` off the tables.

### Notifier and Shutdown

`Notifier` is `notify.Poster`: `Enqueue`, the one worker (`Take`, `Raise`, `Dial`,
`Unsent`, `Answered`, `Backoff`, `Lower`, `RunReturn`), `Drain` with its two reads, and,
beyond the gateway, where a message may be when its caller gives up. An attempt is
its classification (`classify`) plus the places the message can have reached when
that answer comes (`Befalls`). `Shutdown` extends it with `main`: the four listeners
closed in order, the bridge's workers, the drain, the poster cancelled, one
budget; `File` is any handler or worker that files a request. Not modelled: a
replica configured without a poster, and the ops server, which is closed last and
files nothing.

### Proxy

`proxy.handler` around an admission that is one step (`Spend` shows that it may be):
`Authenticate` reads the caps that `PriceGate` judges by, `ReserveAdmit` uses the
caps of the locked row, and each exit reaches `Write` and then `Flag` with or
without the reservation. `Crash` and `Outage` come at any moment. A request that
is over is sent again (`Again`); a hold nobody owns expires in the meantime.

### Inbound and Delivery

One hook. An attempt is one HTTP request that carries a delivery; the same delivery
may arrive in any number of them, at once and later.

| State | Code |
|---|---|
| `inserting`, `admitted` | the partial unique index on `inbound_audit`: an entry of a transaction still open, a committed one |
| `left`, `asked` | uses of the hook's grants and whether its request is pending (`Approvals` has the tables behind them) |
| `runs`, `outcomes` | open rows of `agent_run`, `completed` and `failed` rows |
| `slots`, `jobs`, `degraded`, `stopping` | the semaphore, channel, flag and context of each replica's `Bridge` |
| `pc`/`of`/`at`, `wpc`/`on` | handlers and workers |
| `turns`, `stray` | history: calls to the agent, runs whose opening or closing the store answered with an error |

`Arrive` to `Enqueue` are `Bridge.receive`, with `AdmitInboundEvent` split into its
insert (which waits for another transaction's entry), its commit, a commit whose
answer is lost and a rollback. Every refusal ends in `Audit`, whose row may fail.
`Take` to `GiveBack` are a worker: runs opened one by one, in order, each possibly
with its answer lost; the turn; the outcome's row; the deferred closings. `Crash` is
the end of a process at any step. `Delivery` is the promise without replicas or
tables. A run that nobody closed expires only after its turn: its ttl is the
invoke timeout and a minute, and the turn ends by the invoke timeout.

### Gateway

One agent's credential on one replica, several messages at a time.

| State | Code |
|---|---|
| `run`, `turn` | rows of `agent_run` with their end, and the turns the bridge is waiting for |
| `covers`, `left`, `taken`, `expired` | `permit_grant`, as permits |
| `pc`, `by`, `overdue`, `what`, `stamp`, `how` | where a message is in `ServeHTTP`, the turn it is of, whether it came after that turn had ended (history), its method and call, the attribution of its context, the way it got in |
| `sent`, `row` | what reached the tool server, `tool_audit` |
| `degraded` | `auditDegraded` |
| `failing`, `late`, `unwritten` | history: the last audit write failed, writes whose flag is still to be set, calls without a row |

`Arrive` reads the attribution once (`ActorFor`), when the message is authenticated. The
bridge's timeout ends a turn and stops nobody: the agent's calls may arrive later, while
somebody else's turn is open. A grant is for one call or, if it is older than argument
binding, for its tool (`Verb`), and then taken last (`Preferred`).
`Pass`, `GateDenies`, `ParseDenies` and `Unaudited` are the door; `AdmitListed`, `Admit`
and `Consume` the three ways in, `GrantCheckFails` and `NoGrant` the ways out;
`Forward` may reach the server or not, and `WriteLands`, `WriteFails` and `Flag` are
the row and, a step later, the flag. `Crash` ends every call at any of these.
A run is opened and closed as the bridge does, its close may fail, and it counts
until its ttl: `RunTTL` exceeds `TurnLimit` as in `openRuns`.

### Workflow

One run of the driver after another, over a fixed sequence of rendered steps (a
turn, a poll, a bounded call, a consequential call, a consequential call with a
local action behind it).

| State | Code |
|---|---|
| `opt`, `at`, `view`, `captured`, `req`, `before`, `waited` | options, step index, the upstream view it renders summaries from, captured text, the request it waits for, the mark in the audit, polls |
| `request`, `left`, `lapsed`, `order`, `newest`, `rows`, `table` | what the plane's admin views return: requests, grants (the newest `Page` of them), the newest audit row per tool, the declared policy fields |
| `acted`, `reported`, `old` | history: local actions, reports, the approvals a step found when it looked |

`Turn` and `Govern` are `runTurn` and `runGoverned` with a step for each call to the
plane or to the agent. `Others` are colleagues' calls, decisions by anyone, grants
that lapse, and a table rolled to narrower fields. `Interrupt` stops the driver
anywhere and `Restart` begins again, with `--only` or from the start. A call is known
by the text of its arguments and a `form` the text does not show.

### Overlay

| State | Code |
|---|---|
| `overlay` | the ConfigMap: version, fragments by key, the keys `kubectl apply` wrote last |
| `restarts`, `gen`, `table` | the Deployment's generation, each pod's, and the map each pod loaded |
| `allow` | allowlists set in the plane |
| `stop`, `job`, `readAt`, `file` | each operator's command, the version it read, the manifest it wrote |
| `made` | history: what a command wrote, until it fails or somebody changes it |
| `loose` | history: somebody wrote without a version to be refused by |

`Add` reads the map and writes a manifest with its `resourceVersion`; `AddApply` applies
it now, `LaterApply` (`--no-apply`) on any other day. `Govern` reads, validates against
the running plane, and patches (`PatchKey`) or creates (`GetAbsent`, `CreateMap`,
`MapCreated`), then `Roll`, `Status` (kubectl's wait for the generation it restarted),
`Check` and `SetAllowlist`. `Breaks` ends a command at any kubectl call. `HandEdit`, `PlaneAgain` and
`Boot` are a person, `kmx plane` and a pod that is replaced.

### Table, Blueprint, Egress, Hook and Policy

`Table` is the configuration: the merge (`MergeAccepts`, `MergedOf`), the parser's checks
(`ParseAccepts`), the two readings of it (`LoadAccepts` at boot, `ValidateAccepts` for the
admin), `Within` for each operator of a constraint, and what a request binds (`Bind`).
All constraints of a block must hold, so a block is a set of them.
`Blueprint` is what makes a document `Valid` (with the `Postures` of its steps), how
parameters become `Values`, and what is rendered (`FragmentOf`, `Arguments`). Their
operators are pure. `Egress` follows one request: permitted URL,
answers vetted at lookup and at dial, body read in chunks under a cap and a
lifetime (a read may give nothing, the one past a full cap included: `blank`). `Hook` is the token bucket, in parts of a token. `Policy` runs them
together: a blueprint is bound and rendered (`GovernWorkflow`) or a server offered
(`AddUpstream`), the result validated and stored, `PodBoots` loads base and overlay and
vets the hosts, and what is served then meets calls (`AgentCalls`), a driver's approvals
(`Approve`), fetches (`Fetch`, `Transfer`) and events (`Knock`). A request is found by its
line alone: `Line` joins a call's declared texts as they read there, `Shown` is what
cleaning and clipping leave of each, and `Splits` how it reads in a join, where a text
may look like further fields. The plane shows an object by one word (`Summary`); the
driver joins its own texts uncleaned (`StepLine`).

### Agents, Plane and Bringup

*Agents* is one agent of the two that kmx carries, its ModelConfigs and tool wirings,
the Deployment kagent makes of them (`rolled`: the template of each revision; `pods`:
the templates that have a pod), the Secrets and the plane's credential rows. Each
person gives one command at a time (`Give`); `at` is the kubectl or admin call it is
about to make and `read` what it has read so far. Two histories follow what a Secret's
question is worth: `crossed`, whoever has been overtaken between it and the apply, by
another's `Store` or by a `RowDeleted`; `lost`, the credentials whose token such an apply overwrote. `Reconcile`, `PodStarts`, `PodDrains`
and `ServerAccepted` are the controllers', in their own time. `Switch` is shared by `use`,
`govern` and the interactive commands: it reads the generation before and after, and
by that waits for a rollout or only for the pod. `Reset` to `ReadLive` are `up` on a live
agent. `Interrupted` ends a command anywhere.

*Plane* is the proxy's Deployment (`proxy`, `proxies`: its pods, some of them `leaving`
and no longer counted by a rollout's status, until `ProxyGone`), the one image tag and what was
built under it (`tagged`, `loaded`), the generated Secrets and the password the volume
was initialised with, the database and dump files as versions. `Works` is the next
call of a command; `Fails` a call that fails, after which a restore scales back,
`ReplyLost` a scaling that goes through and is told to have failed, and `Killed` a process
nobody cleans up after.

*Bringup* is the cluster (`none`, `stopped`, `booting`, `serving`), what is deployed and
ready on it, the model, kagent's values, and each person's command with its lanes.
`EngineRestarts` is the container engine going down under everything. `Join` ends the
lanes of `runLanes`.

## 4. What each run checks

| Run | Instance | Shows |
|---|---|---|
| `Spend` | 3 calls; a budget changed and lifted over 2 ticks and 2 months, or both caps at 1 with 2 grants | the month never passes its cap, no live call loses its hold before it expires, no budget change slips into an admission, exact grant uses, and every admission is decided |
| `Approvals` | 2 people and 3 requests, or 2 uses, 2 grants and 4 kinds of call | each request decided once with row, grant and trail in agreement; each use approved for its call; the refinement of `Permit` |
| `Shutdown` | 3 posts through the notifier by itself; 2 through one around which a replica goes down, filed from 4 places | no double post and no disorder but by a relayed 503, what a drain that answers zero and an exit in time mean; shutdown ends and no post waits for ever |
| `Proxy_calls` | 2 requests on one replica, sent again and again | every exit accounts for its call, and a degraded replica recovers |
| `Inbound_events` | 2 events, 2 attempts, 2 workers, a queue of 2, 2 runs per turn | the refinement of `Delivery`; every slot comes back; turns fully attributed and runs closed |
| `Gateway_calls` | 2 messages over 2 grants, 1 with an old verb-level grant, or 1 in or after 3 runs of 2 people over 2 ticks | what is sent was cleared, every call is on record as announced, for the right person or nobody where the turn was open, and a failed record shuts the gate |
| `Workflow_runs` | 5 steps, 2 requests, 2 people; a whole run, or one step interrupted and run again | acts under its own approval, reports what is on record, ends or is held by a program it started |
| `Overlay_commands` | 2 operators, 6 commands, 4 keys, 1 hand edit, 2 pods | a success is served; only a manifest from before there was an overlay loses a fragment or blocks a rollout |
| `Policy_calls` | 9 committed tables, 7 overlays, 4 blueprints, 6 sets of parameters, 3 offered servers | what was validated is served, what was declared governs, what is admitted is the call whose request was approved and reads as the step, and the edges hold |
| `Commands` | 2 people; 3 pairs of commands on one Secret, 7 on one agent, 2 of plane commands, 3 of bring-up commands | what a command reports is so, no token is lost but to an overtaken apply, no agent on a seam that is not ready, a restore on a quiet database that brings the proxies back, no lane left behind |
| `Agents_reapplied` | the same | finding: `kmx up` takes an agent off its gateway |
| `Notifier_relayed` | 3 posts, under every answer | finding: a 503 relayed from beyond the gateway puts a message there twice |

Why the bounds are enough. *Spend*: a violation needs a decision, a commit between
it and another call, and a hold that expires or is recorded: two calls race and a
third is already in flight. Two months let a call straddle the boundary, and two
ticks let a hold of age 2 expire behind a call of at most 1. *Approvals*: every
conflict is between two transactions on one row, or two uses of one grant; a third
request is there so that a refiled one differs from the one being decided.
*Notifier*: one post in hand, one waiting, one dropped or overtaken; two attempts
are the first and the last. *Proxy*: the flag is shared by two requests of one
replica; replicas share nothing else here but the credential row. *Inbound*: two
attempts hold one index entry at once, two events fill the queue, and one worker's
turn fails while the other's goes on; replicas meet only in the store, where two
attempts of one replica race just the same, and its death takes both along.
*Gateway*: two messages race for one use and for the flag, and three runs are the
two that overlap and one left open by an earlier turn. *Workflow*: two requests are
the one it waits for and the one it must not take for it (another call with the
same text, an old approval); the second run is the one after an interruption.
*Overlay*: two writers, two pods and two restarts: a rollout overtaken by a later
one. *Policy*: each table, overlay, blueprint and call is there for one check that it
passes or fails. *Commands*: every conflict is between two commands; three writes of
an object are its creation and one of each.

Instances are divided into families, chosen in the initial state, where one large
instance would multiply what does not meet: `MCApprovals` (deciding, or using),
`MCSpend` (changing budgets, or grants), `MCShutdown` (the notifier alone
under every answer, or drained, or composed), `MCGateway` (two messages, an old grant, or overlapping turns), `MCWorkflow` (a whole
run without colleagues, or one step with them), `MCCommands` (which part, and whose
commands beside whose). Further cuts, each named in its module: rows and calls that
are alike appear in one order; `MCOverlay!Steady` lets only one pod die between rollouts,
`Roles` gives the two operators different commands and `Early` has people edit the map and
restart the plane before anything is onboarded;
`MCCommands!Brief` has the pairs that race for one Secret stop where the switch or the
rewired agent begins, and of the pairs that race for the agent lets one at a time issue,
and one ungovern: the two halves share no object but the agent's wiring, each is run in
full somewhere, and the theorems need neither. Bounds in the guards: `MaxTime`, `MaxMonth`,
`MaxAmount`, `MaxGrantUses`, `MaxUses`, `MaxPolls`, `MaxRows`, `MaxRuns`, `MaxVer`,
`MaxRolls`, `MaxFiled`, `LastTick`, `MaxEvents`, `MaxGen`, `MaxRevision`, `LastVersion`,
`LastRestart`, and the sets of rows that may ever be inserted.

`CHECK_DEADLOCK FALSE` stands where the system may stop: every call is over, the
clock or a counter is at its bound, every post is settled, the process has exited,
or nobody gives another command.

### Fairness

* `Spend`: `WF` of the steps of one admission that do not fail. Postgres hands a
  row lock to its waiters and a transaction with the lock runs three short
  statements; nothing makes an admission fail, a call end or a budget change.
* `Notifier`: `WF` of the worker alone. Each of its waits has a timer (`CallTimeout`,
  the backoff). Slack, the drain and the shutdown owe nothing.
* `Shutdown`: besides, `main` and its budget's timer. No handler, no agent behind the
  bridge and no answer from Slack is obliged to come.
* `Proxy`: `WF` of each request's handler, whose waits are bounded by timeouts, and
  of `Again`: recovery is by traffic, so agents have to keep calling. The store
  has to stay up (`<>[]up`); nothing else has to.
* `Workflow`: `WF` of `Prompt`, the driver while it waits for the plane, whose answers
  have a time limit (`admin.go:182`), or for its own timers. The programs it starts
  (`Commands`: kubectl, kagent, a token's minting, a step's action) have none and need
  not return, so `RunEnds` says that a run ends or is held by one of those, and that no
  loop goes on past its deadline. Nobody has to decide, reply or leave it alone.
* `Overlay`: `WF` of each pod's `Boot`, which is Kubernetes. It is owed where a pod is
  behind and the map loads; that it always comes to load is what is checked.

### Findings

* `Agents_reapplied`. `kmx up` puts a live agent's tools back only when one of them is
  named `kaimahi-tools`, while `kmx tools govern --server` accepts other names.
* `Notifier_relayed`. A 503 of the gateway's own is safe to retry, a relayed one
  is not, and the poster cannot tell them apart.

Seen while modelling, each reproducible with the module named, and not a run of
their own:

* *Spend*: the data listener has no write timeout (`main.go:225`), so a client that
  does not read keeps its call alive past the hold that `meter.go:58` says no live call
  loses, and what it is billed comes on top of the cap. The properties say that these
  calls (`stalled`) are the only ones.
* *Shutdown*: the MCP listener closes (`main.go:301`) before the bridge's workers and
  the poster are waited for, so a filing during the drain, which `main.go:238` says
  still gets its post, is refused.
* *Proxy*: the price gate judges by the caps of authentication (`handler.go:209`), the
  admission by those of the locked row (`meter.go:108`): an unpriced model may be
  admitted under a cents budget, which `handler.go:204` rules out.
* *Gateway*: an agent whose answer the bridge gave up on goes on working, and a call it
  makes then carries the name of whoever's turn is the only one open (`identity.go:110`),
  or `unknown` with two; `docs/identity.md:234` says that a call an agent makes after its
  turn has returned is `none`. `NeverTheWrongPerson` is about calls made while the turn is
  open.
* *Workflow*: no program the driver starts has a deadline, a step's own action included
  (`workflow_run.go:847`, `run.go:82`): one that hangs holds the run for ever. And the row a run reports is the newest one for the tool, and may be a
  colleague's call of the same tool (`workflow_run.go:497`).
* *Overlay*: two people who onboard servers when there is no overlay yet both write
  manifests without a version, and the second `apply` takes the first's key away
  (`upstream_yaml.go:108`; `upstream.go:195` says a version refuses that). If a blueprint
  has bounded the lost server's tools by then, no proxy boots (`policy.go:310`). A govern
  command killed between patch and restart leaves a map that the next identical
  command finds unchanged and does not roll out (`workflow.go:359`). Between the creation
  of a map and the read of its version a fragment may slip in, which `workflow.go:499`
  says nobody can; the patch that follows then names a version nobody validated. `loose` records
  both: `ForeignFragmentsKept` and `RolloutsComplete` except what such a write takes and
  blocks, and nothing else.
* *Policy*: a bound whose constraints are all conditional falls away whole, and is
  meant to (`render.go:125`), but where the allowlist has the tool too it then stands; `ne` and `not_in` hold of a value of another shape; of a
  bounded step only the tool's name is checked. A body is told from a longer one at its
  cap by one more read; if that is answered by nothing, what was cut ends cleanly
  (`egress.go:395`, against `egress.go:18`), and `CutIsNeverClean` excepts it. The driver
  takes the first request whose line is its step's (`workflow_run.go:645`) to be the
  step's call, but another call may read the same: a text that holds `, tag 2`, one with
  characters that are not shown, an object where the step says `(object)` (`digest.go:83`).
  The human sees no difference, and the other call is admitted: `AdmittedAsShown` connects
  the call with the step only where the texts of both are plain. A removal is
  stored without being validated: what was validated is the overlay that still has the key
  (`workflow.go:273`). And `validatePostures` sees the blueprint alone: a bound the
  committed table has for the same credential stands whatever the steps say, and collides
  with nothing if the blueprint has no bounds of its own; `GovernedAsDeclared` leaves those
  tools out. The shipped table has one (`upstreams.yaml:304`).
* *Agents*: `up` killed between the committed manifest and the patch leaves an agent on
  the committed wiring, and a second `up` keeps it there; `up` beside `use` or `govern`
  undoes them; `tools ungovern` resets the model too; a `use` that only changes a
  preset's content, run again too early, reports success on the old content. The refusal
  of `govern.go:184` and `283` asks whose token a Secret holds, and applies later: of two
  credentials governed onto one Secret at once the second apply destroys "the only copy"
  of the first one's token, and the advice to delete a row after a 409 may delete another's
  that is about to be stored. `TokenIsKept` excepts exactly the apply of a command that
  was overtaken so (`crossed`), and `SeamBeforeAgent` counts what it destroyed as held
  (`lost`): an agent can then be pointed at a gateway that its credential no longer opens.
  A crash between the issue and the Secret loses the token for good (the code says so).
* *Plane*: a `kmx plane` beside a restore scales the proxies up again during `psql`; a
  restore that is killed, or whose scaling back fails, leaves the plane at zero, and
  the next one notes zero and reports the plane serving again (`backup.go:173`, `223`).
  "Whatever happens below, the proxies come back" (`backup.go:173`) does begin below: when
  the scaling to zero goes through and its reply is lost, line 171 returns before the
  scaling back is deferred (`ReplyLost`, one of the mishaps of `ComesBack`). And `kmx
  plane` means "the plane is now running the code I just built" (`plane.go:458`) of the
  pods that take new calls: the status it waits for does not count the draining ones.
  `psql` is taken here to commit a file or nothing.
* *Bringup*: `quickstart` after `up` takes the tool server away from the tools agent.

Two more of the drain, both in `ZeroLeavesOnlyTheHand`: between taking a post and
raising the in-flight flag the worker holds a post that neither of `Drain`'s reads sees,
so a drain that `poster.go:158` has wait until "nothing is in flight" may leave that one
post to the stop that follows; and when its budget ends it answers what is queued
(`poster.go:171`), which may be zero with a post being sent, and `main.go:312` then
reports nothing lost. The property says that these two are all: whatever made it answer
zero, no other post is unsettled. `PostedInOrder` speaks only of posts reported posted: one whose outcome was
unknown may land late, and out of order. And the degraded flags of the proxy, the
bridge and the gateway are set after the write, with nothing between the two: a
write that succeeded before another one failed may clear the flag after it, until
the next write. `FailureShutsGate` names exactly those moments.

## 5. What is proved

Every theorem is checked by TLAPS for all values of the constants that satisfy the
module's assumption, and none uses another unproved fact. Type correctness, the
two promises of `Approvals` that follow by counting (`OnePendingPerCall`, `UsesExact`)
and `MapLoads`, which is what `RolloutsComplete` needs of the map, are theorems only: no
run repeats them.

**`Spend_proofs`.** `SpendAssumption` asks that a call cannot outlast a hold
(`CallLimit < HoldTTL`). `CapBoundsMonth` is not inductive: it says nothing of a call
that has decided and not committed. The strengthening is a chain of named
invariants: `LockInv` (the lock is held exactly while a decision waits for its
commit), `HoldInv` (a live call's hold is in the table and younger than the limit;
a call that outran the limit, because nobody reads its response, is in `stalled`), `LedgerInv` (what a month's own calls
were billed is part of its ledger total), and `RoomInv`: the room a decision saw is
still there, in the measure `Exposure` (billed plus the worst in flight). The hard
step is `DecisionRoom`: the calls in flight all have open holds, so a decision that
sees room in holds has it in exposure; `ExposureShrinks` shows that no other step
takes it away. `CapBound`, `FitsCap`, `LiveHold`
and `GrantUses` (with `BurnInv`: a use about to be burned is still there) follow.

**`Approvals_proofs`.** `DecideInv` (a row lock belongs to the one decider whose
request is pending and grantable), `GrantInv` (a grant is for the call of an
approved request, but the old one) and `UseInv` (the chosen grant is still live
while the credential's lock is held) give `OneStory`, `OnePending`, `ApprovedUses`
and `ExactUses`; `Implements` is the step simulation of `Permit`.

**`Notifier_proofs`.** `QueueInv` orders the queue behind the post in hand by `turn`;
`OrderInv` puts what is decided before both; `ChannelInv` says where a message can
be when its caller knows or does not know. `Firm` names a message whose place is
final, an unanswered landed call included: without it neither `NoneTwice` nor
`FirmInOrder` is inductive. All three say nothing of a message that a 503 from beyond
the gateway had sent again (`relayed`), and `Notifier_relayed` shows that they cannot.
`CleanDrain` follows from `DrainInv`, which carries what the first of the two reads
established to the second, and asks the queue again where the budget ends.

Then the same for the replica that goes down around it. `Safe` is the notifier without
its fairness, which is all that those proofs use, and `NotifierInside` shows that
`Shutdown` implements it step for step, so that they hold there too. `DownInv` follows
`main` from listener to listener: within the budget, what it has left behind has nobody
at work, and nobody who could file is left when it calls `Drain`; `DrainedInv` says what
an answer within the budget is worth from then on. `LeavesNothing` needs both: an empty queue stays
empty only because the order of the closing is what it is.

**`Proxy_proofs`.** `CallsAccounted` speaks of requests that are over; `AccountInv`
says what holds on the way: no row before the request records, and a reservation
the handler does not carry is one the store was not heard to make. `TypeCorrect`
(with at most one row per call) and `Accounted` follow for any number of requests
and replicas.

**`Proxy_proofs`, the overlay** (what a proxy boots on). `AtWork` ties each stop of a command to
the kind of job it has and to what it wrote or read by then. `WrittenServes` needs what the
property does not mention (`ServeInv`): what a command wrote is in the map until somebody
voids it, and while it waits for its rollout every pod of the new generation has it, since
a pod of that generation booted after the write; when all are, all have it. `MapAlwaysLoads` follows from
`Known`: what a command read at a version is what is there while the version is the same,
and the candidate it had validated is then the map it makes. That is the whole use of the
`resourceVersion`, and it fails at version zero and between a creation and its read, which
is where `loose` is set; what a manifest without a version still cannot do (`AppliesBlind`)
is take more than the annotation lists. A removal needs that a blueprint's key holds no
server (`Bare`), or what is bounded elsewhere might be gone. `OverlayAssumption` says what
an onboarded fragment and a blueprint's are (servers only, bounds of one credential only),
that their keys differ, and that a map there is at the start loads.

**`Proxy_proofs`, the policy** (what it then admits). Four lines of argument. *Edges*:
`EgressInv` counts what the upstream has still to send, what was given and what is left of
the cap, and that only a full cap has a byte more asked for; `BucketInv` is the accounting of a token bucket: since any admitted event, the
tokens given and those in the bucket are at most a full bucket and the refills since. It is
`RateHolds` with the bucket's own contents added, without which the next event has nothing
to stand on. *What was shown*: a filed request is the binding and the line of one call, a
grant binds a call that reads as a shown step (`ShownInv`), two calls with one binding
state and read the same (`BoundAlikeStateAlike`), and lines of plain texts are alike only
of the same texts (`PlainLines`). *What was validated*: fragments that name different
things keep them apart in the merge (`AllHolds`), and fewer fragments say the same of what
they still name (`AllOfFewer`), so a removal of bounds leaves a table that parses
(`ParsesWithFewerBounds`). `ServesWhatWasValidated` assumes `WorkflowKeyHoldsBounds`: the
key that kmx writes bounds under names no server, which a hand edit could break. *What is
declared*: the credential's bounds in the served table are the committed ones, or else those
rendered (`GovernBounds`),
a rendered block is all of the one written or nothing (`RenderedWhole`), and a value inside
a rendered bound is one its author meant (`WithinMeets`, operator by operator).
`PolicyAssumption` says that a base has the five blocks of a document and one hook, that an
integer argument reads as one, and that the word for an object adds no field to a line.

**`Inbound_proofs`.** `Implements` is the step simulation of `Delivery`. Its invariant:
`IndexInv` (an uncommitted index entry belongs to the transaction that inserts it, and
its event is not admitted), `OneCarrier` (an admitted event is with at most one of: a
handler about to queue it, a place in a queue, a worker) and `StageInv` (what it has
been through, by who carries it). `OneCarrier` is what the index alone does not give:
it fails as soon as a step copies an event instead of handing it over. `RunInv` rests
on it, since a worker may only close its own event's runs, and gives `Attributed` and
`Closed`. `SlotInv` counts: a replica's slots are the events its handlers are admitting,
those in its queue and those its workers have, so that the send of an admitted event
never blocks; each exit moves one element of one of the three sets (`OneMoves`), and
`Returned` follows for any number of replicas, a death included.

**`Gateway_proofs`.** `CallInv` says, for each place a message can be in, what it has
been through: `SentCleared` and `Recorded` follow, the use of a grant being in `taken`
before anything is sent. `RightPerson` rests on `TurnInv` (a turn at work has its own
run open and unexpired, because its ttl outlasts it) and `StampInv` (a message of a
turn was stamped with that run's actor or with `unknown`): since its own run is open,
any other open run makes the answer `unknown`. Of an `overdue` call it says nothing.
`CoversInv` keeps what a grant is for. `GateShuts` rests on `ShutInv`: when
the last write failed, the flag is up unless a message is about to raise it or an
older success has still to clear it.

**`Workflow_proofs`.** `ApprovalInv`: from the moment the driver waits for a request, that
request shows the call it is about to make (`ForThisCall`), from the mark on it is
approved by a person the run accepts (`ByThisPerson`), and neither a decision nor a call
of anybody takes an approval back from a row (`Keep`). `ActsUnderApproval` follows for any
workflow and any number of runs: that it was approved, not that it is live still, since a
grant may lapse between `confirmDecision` and the action. `ReportsTheRecord` needs to know what the driver had
seen: the newest row says truly why it was let in (`RecordInv`), the approvals listed
before the step cannot let its call in any more (`OldInv`; this is why the driver looks
and previews before it files), and so a row written after its mark was let in by a new one
(`NewRowInv`). It holds as long as all the grants fit in the one page the driver reads
(`Len(order) <= Page`): the admin view answers with the newest 200, and an old live grant
beyond them is one the driver does not know of. `WorkflowAssumption` says what the rest of
the code sees to: a governed step has a call, only a consequential one executes anything
(`blueprint.go:633`), and a request's id is none of the words a row may give as its reason.

**`Commands_proofs`, bring-up.** What a person's command has seen (`Behind`) grows with the place it
is at: past `dns` the cluster's DNS was ready, past `model` the model is there, in the
lanes the chart is the one this journey installs. Nothing that others or Kubernetes do
takes any of it away without setting `undone` (`EngineStep`, `OthersStep`); with a
command's own steps (`OwnStep`) that is `WordIsKept`. `ComeBy` says whose commands can be
at a place, which is what lets a step tell one part from a whole journey.

**`Commands_proofs`, the plane.** `Kinds` ties the place of a command to its kind, and from there on to
a deployed proxy. `DeployedAsMade`: an undisturbed deploy has what it built in `tagged`,
then in `loaded`; `Restart` makes every pod old (`Pods`: no pod is newer than the
Deployment), so the current ones are of that build, and success waits for the others
to be on their way out (`Made`). `RestoresSafely`: at zero replicas no pod starts (`NoneStarts`, which is
where the slots have to be finite) and the wait before the load is for every pod, leaving or not, a file only ever becomes a whole dump (`FilesStep`),
and a plane away from its replicas is some restore's to bring back, or a mishap
(`Brought`, with `Owes` for the number that restore has noted). `PlaneAssumption` also
says that `Unset` is none of the records it stands in for.

**`Commands_proofs`, agents.** The type invariant says more than types: `Fits` ties every
stop of a command to the kinds that come by it and to what it has read by then. A command
is alone in moving itself (`Elsewhere`), and leaves the cluster, writes the agent or
writes a preset, in which case the others are no longer `settled` (`Does`). On that rest
four invariants. `UpInv` follows what a re-apply found until it is put back (`UpKeeps`).
`WaitInv` is about anyone's switch: what a wait has seen is true of the agent as long as
its generation has not moved, because a generation never comes back and kagent acts on
what it has seen (`RollInv`). `OwnInv` is about a switch that began at rest: either the
agent's generation moves, or the preset's does and a new revision has to come, and what
it waits for cannot be the old Deployment (`OwnFacts`). The last two give `SwitchesReach`.
`IssueInv` and `SeamInv` are about custody: from its look at a Secret on, a command that
issues knows that the Secret is empty or its credential's, or it has been `crossed`
(`IssueKept`), and what is `Sound` stays so (`Holding`); `KeepsItsWiring` and
`TokensAreKept` follow, for any number of people who issue at once.
`AgentsAssumption` says that orders are complete, that no command switches to the
committed agents' own ModelConfig, and that `Nil` is none of the records it stands in for.

Only model-checked: every liveness property (`EveryAdmissionDecided`, `ShutdownEnds`,
`EveryPostSettled`, `DegradedRecovers`, `RunEnds`, `RolloutsComplete`), since `ENABLED` and
fairness are out of TLAPS's reach here. Every safety property of a passing run is a theorem.

## 6. What is not modelled

Within modelled parts: the arithmetic of prices (`pricing/`; a bill is any number up
to `MaxUse`), SSE scanning and header copying, the projection of `tools/list`, what
Slack messages say, the text of denials and of reports, `Preview` (a read that
reserves nothing), the deletion of a credential with its rows, and metrics. The texts
of a configuration are numbers: parsing of names, paths, prices and headers, TLS
settings, template substitution beyond one reference, and the rounding of the rate
limiter's floats are left out; so are the order and the repetition of what a line joins,
and the clipping of the line as a whole. Two blueprints never constrain
one credential in `Policy`, and a table has one hook. In `Agents` there is one agent;
the tool server the chart publishes exists outside it; two backups to one `.partial`
file, the guard and the preflight checks of `kmx` are not modelled.

Components without a module, and why: metrics and redaction (no decision reads them);
chat and the views (terminal work over commands that are modelled); the demo ERP
server (each call is one atomic step over fixtures); start-up, migrations and probes
(a sequence of checks that each end the process); the toolchain, scaffold, runner and
command line (downloads with a checksum, rendering and dispatch, one decision on one
input each).

------------------------------- MODULE Table -------------------------------
(***************************************************************************)
(* The plane's table (plane/internal/config): the committed base, the      *)
(* fragments of the overlay, the one merge and the one parser that main    *)
(* boots with and the admin endpoint validates with, and what the policy   *)
(* it holds says of a call.                                                *)
(*                                                                         *)
(* A text is a number; the texts in Words do not read as integers.  An     *)
(* argument is a typed text or an object, whatever it holds; a literal is  *)
(* a typed text.  Names, paths and header tokens are well formed; the      *)
(* parser's patterns for them are not modelled.                            *)
(***************************************************************************)
EXTENDS Naturals, Sequences, FiniteSets

CONSTANTS
  Texts, Words, None,
  DefaultRate, DefaultBurst, \* of an inbound hook
  MaxTTL                     \* longest grant any path mints

ASSUME TableAssumption ==
  /\ Texts \subseteq Nat /\ Words \subseteq Texts
  /\ DefaultRate \in Nat \ {0} /\ DefaultBurst \in Nat \ {0} /\ MaxTTL \in Nat

IsInteger(t) == t \in Texts \ Words
Str(t) == [k |-> "str", t |-> t]
Num(t) == [k |-> "int", t |-> t]
Value == [k : {"str", "int", "bool", "obj"}, t : Texts]
Literal == [k : {"str"}, t : Texts] \cup [k : {"int"}, t : Texts \ Words]

-----------------------------------------------------------------------------
(* Standing constraints: [field, op, value, values].  All of a block must   *)
(* hold, so the order it lists them in does not show: a block is a set.    *)

SetOps == {"in", "not_in"}
NumericOps == {"lt", "lte", "gt", "gte"}
Ops == SetOps \cup NumericOps \cup {"eq", "ne"}

Compares(op, got, want) ==
  CASE op = "lt" -> got < want [] op = "lte" -> got <= want
    [] op = "gt" -> got > want [] op = "gte" -> got >= want

\* Outside when the field is missing; a value of another shape equals no
\* literal and compares with none.
Within(c, args) ==
  /\ c.field \in DOMAIN args
  /\ LET v == args[c.field] IN
       CASE c.op = "in" -> v \in c.values
         [] c.op = "not_in" -> v \notin c.values
         [] c.op = "eq" -> v = c.value
         [] c.op = "ne" -> v # c.value
         [] OTHER -> v.k = "int" /\ c.value.k = "int" /\ Compares(c.op, v.t, c.value.t)

Satisfied(block, args) == \A c \in block : Within(c, args)

FieldSet(fields) == {fields[i] : i \in DOMAIN fields}

ValidConstraint(c, fields) ==
  /\ c.field \in FieldSet(fields) /\ c.op \in Ops
  /\ IF c.op \in SetOps THEN c.values # {} /\ c.value = None
     ELSE c.value # None /\ c.values = {} /\ (c.op \in NumericOps => c.value.k = "int")

-----------------------------------------------------------------------------
(* Addresses, and the shape of an upstream's URL.  An address is a form,   *)
(* and the range of the IPv4 address it is or embeds, or its own.          *)

Ranges == {"public", "private", "loopback", "metadata"}
Forms == {"v4", "mapped", "nat64", "compat", "v6", "6to4", "teredo"}
Address == [form : Forms, range : Ranges]

Refused(a) == a.form \in {"6to4", "teredo"} \/ a.range # "public"

\* [scheme, host, port, user]; a host is a literal address, or a name with
\* as many labels, under the cluster's suffix or not.
HostedShape(u, internet, ca) ==
  IF internet
  THEN u.scheme = "https" /\ u.port \in {"", "443"} /\ ~u.user
       /\ (u.host.addr # None => ~Refused(u.host.addr))
  ELSE ~ca /\ IF u.host.addr # None THEN Refused(u.host.addr)
              ELSE u.host.suffix \/ u.host.labels = 1 \/ (u.host.labels = 2 /\ u.scheme # "https")

-----------------------------------------------------------------------------
(* Documents: [models, ups, hooks, notifier, cons].  ups maps names to     *)
(* [url, internet, ca, cred, header, extra, tools]; tools maps names to    *)
(* their policy fields, a sequence or None where policy_fields is missing; *)
(* cons maps credentials to tools to sets of constraints; models and  *)
(* hooks are sets; the notifier is None or [up, files].                    *)

Empty == [x \in {} |-> {}]
Join(f, g) == [x \in DOMAIN f \cup DOMAIN g |-> IF x \in DOMAIN g THEN g[x] ELSE f[x]]

Custody(up) == up.cred \/ up.header # "" \/ up.internet \/ up.ca \/ up.extra # {}

\* A fragment: [key, json, blocks, ups, cons].  json: one object, no key twice.
FragmentName(key) == key.json /\ ~key.dot
Readable(frags) == {f \in frags : FragmentName(f.key)}

MergeAccepts(base, frags) ==
  /\ \A f \in frags :
       /\ f.json /\ f.blocks \subseteq {"tool_upstreams", "standing_constraints"}
       /\ \A n \in DOMAIN f.ups : ~Custody(f.ups[n])
       /\ DOMAIN f.ups \cap DOMAIN base.ups = {} /\ DOMAIN f.cons \cap DOMAIN base.cons = {}
  /\ \A f, g \in frags :
       f # g => DOMAIN f.ups \cap DOMAIN g.ups = {} /\ DOMAIN f.cons \cap DOMAIN g.cons = {}

\* Collisions are refused, so the order of the fragments does not show.
All(docs, field) ==
  [n \in UNION {DOMAIN d[field] : d \in docs} |->
     (CHOOSE d \in docs : n \in DOMAIN d[field])[field][n]]
MergedOf(base, frags) ==
  [base EXCEPT !.ups = Join(All(frags, "ups"), @), !.cons = Join(All(frags, "cons"), @)]

-----------------------------------------------------------------------------
(* Parse. *)

\* [url, internet, ca, class, priced]; a class is never inferred.
ValidModel(m) ==
  /\ HostedShape(m.url, m.internet, m.ca)
  /\ m.class \in {"free", "metered"} /\ (m.class = "free" => ~m.priced)

ValidUpstream(up) ==
  /\ up.url.scheme \in {"http", "https"}
  /\ HostedShape(up.url, up.internet, up.ca)
  /\ up.header # "" => up.cred
  /\ "authorization" \notin up.extra /\ (up.header # "" => up.header \notin up.extra)

\* What a tool's declaration says, over all upstreams that declare it.
Declarations(c, tool) == {c.ups[n].tools[tool] : n \in {m \in DOMAIN c.ups : tool \in DOMAIN c.ups[m].tools}}
DeclaredTools(c) == UNION {DOMAIN c.ups[n].tools : n \in DOMAIN c.ups}
Declared(c, tool) == CHOOSE fields \in Declarations(c, tool) : TRUE

BuildPolicyAccepts(c) ==
  /\ \A tool \in DeclaredTools(c) :
       /\ Cardinality(Declarations(c, tool)) = 1 /\ None \notin Declarations(c, tool)
       /\ Cardinality(FieldSet(Declared(c, tool))) = Len(Declared(c, tool))
  /\ \A cred \in DOMAIN c.cons : \A tool \in DOMAIN c.cons[cred] :
       /\ tool \in DeclaredTools(c) /\ c.cons[cred][tool] # {}
       /\ \A k \in c.cons[cred][tool] : ValidConstraint(k, Declared(c, tool))

\* A lifetime is [n, unit]; bounded before it is multiplied.
ValidTTL(ttl) == ttl.n >= 1 /\ ttl.n <= MaxTTL \div ttl.unit

\* [auth, secret, channels, approvers, uses, ttl, rate, burst], files as
\* whether they are named.  Bounds that are a constant are not modelled.
ValidHook(h) ==
  /\ h.auth \in {"bearer", "kaimahi-hmac", "slack"}
  /\ h.auth # "slack" => ~h.channels /\ ~h.approvers /\ h.uses = 0 /\ h.ttl.n = 0
  /\ h.ttl.n # 0 => ValidTTL(h.ttl)
  /\ h.secret <=> h.auth # "bearer"
  /\ h.auth = "slack" => h.channels /\ h.approvers

\* Zero means the default, never "none".
Bounded(h) == [rate |-> IF h.rate = 0 THEN DefaultRate ELSE h.rate,
               burst |-> IF h.burst = 0 THEN DefaultBurst ELSE h.burst]

ParseAccepts(c) ==
  /\ c.models # {} /\ \A m \in c.models : ValidModel(m)
  /\ \A n \in DOMAIN c.ups : ValidUpstream(c.ups[n])
  /\ \A h \in c.hooks : ValidHook(h)
  /\ c.notifier # None => c.notifier.up \in DOMAIN c.ups /\ c.notifier.files
  /\ BuildPolicyAccepts(c)

LoadAccepts(base, frags) ==
  MergeAccepts(base, Readable(frags)) /\ ParseAccepts(MergedOf(base, Readable(frags)))

\* POST /admin/config/validate: a key the boot would skip is refused.
ValidateAccepts(base, frags) ==
  /\ \A f \in frags : FragmentName(f.key)
  /\ MergeAccepts(base, frags) /\ ParseAccepts(MergedOf(base, frags))

-----------------------------------------------------------------------------
(* What the table says of a call. *)

\* Fault: an approval binds the first declared field only.
BindFirst(c, tool, args) ==
  IF tool \in DeclaredTools(c) /\ Declared(c, tool) # <<>>
  THEN [mode |-> "declared", tool |-> tool,
        args |-> [f \in {Declared(c, tool)[1]} \cap DOMAIN args |-> args[f]]]
  ELSE [mode |-> "all", tool |-> tool, args |-> args]

\* The arguments an approval binds.
Bind(c, tool, args) ==
  IF tool \in DeclaredTools(c)
  THEN [mode |-> "declared", tool |-> tool,
        args |-> [f \in FieldSet(Declared(c, tool)) \cap DOMAIN args |-> args[f]]]
  ELSE [mode |-> "all", tool |-> tool, args |-> args]

Constrained(c, cred, tool) == cred \in DOMAIN c.cons /\ tool \in DOMAIN c.cons[cred]

\* Admitted with no human: inside its constraints, or allowlisted and without any.
Stands(c, allow, cred, tool, args) ==
  IF Constrained(c, cred, tool) THEN Satisfied(c.cons[cred][tool], args) ELSE tool \in allow
=============================================================================

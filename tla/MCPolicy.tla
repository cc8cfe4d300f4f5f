------------------------------ MODULE MCPolicy ------------------------------
(***************************************************************************)
(* Two seams, four tools, small blueprints: one as the repository's own    *)
(* (blueprints/release.yaml), one that is consequential on a tool another  *)
(* seam allows, one whose bound depends in part on a parameter.            *)
(***************************************************************************)
EXTENDS Policy

name == [addr |-> None, suffix |-> FALSE, labels |-> 3]
service == [addr |-> None, suffix |-> FALSE, labels |-> 1]
literal(form, range) == [addr |-> [form |-> form, range |-> range], suffix |-> FALSE, labels |-> 0]
URL(scheme, host) == [scheme |-> scheme, host |-> host, port |-> "", user |-> FALSE]
Server(url, internet, cred, tools) ==
  [url |-> url, internet |-> internet, ca |-> FALSE, cred |-> cred, header |-> "", extra |-> {}, tools |-> tools]
Hosted(tools) == Server(URL("https", name), TRUE, TRUE, tools)
Local(tools) == Server(URL("http", service), FALSE, FALSE, tools)
local == [url |-> URL("http", service), internet |-> FALSE, ca |-> FALSE, class |-> "free", priced |-> FALSE]
hook == [auth |-> "kaimahi-hmac", secret |-> TRUE, channels |-> FALSE, approvers |-> FALSE, uses |-> 0,
         ttl |-> [n |-> 0, unit |-> 1], rate |-> 0, burst |-> 0]

GH == [list |-> <<"owner">>, publish |-> <<"owner", "tag">>]
ADO == [write |-> <<"pipe", "proj">>]
Doc(ups) == [models |-> {local}, ups |-> ups, hooks |-> {}, notifier |-> None, cons |-> Empty]
table == Doc([gh |-> Hosted(GH), ado |-> Local(ADO)])
one == [field |-> "owner", op |-> "eq", value |-> Str(1), values |-> {}]
MCBases == {
  table,
  [table EXCEPT !.cons = [k \in {"agent"} |-> [t \in {"publish"} |-> {one}]]],
  [table EXCEPT !.hooks = {hook}, !.notifier = [up |-> "gh", files |-> TRUE]],
  [table EXCEPT !.hooks = {[hook EXCEPT !.auth = "bearer", !.secret = FALSE, !.rate = 1, !.burst = 1]}],
  [table EXCEPT !.hooks = {[hook EXCEPT !.auth = "slack", !.channels = TRUE]}],
  [table EXCEPT !.ups.gh = Hosted([GH EXCEPT !.publish = <<"tag">>])],
  [table EXCEPT !.ups.gh = Server(URL("https", literal("nat64", "private")), TRUE, TRUE, GH)],
  [table EXCEPT !.ups.gh = Server(URL("https", literal("v4", "public")), TRUE, TRUE, GH)],
  [table EXCEPT !.ups.ado = Server(URL("http", literal("v4", "public")), FALSE, FALSE, ADO)]}

Key(n) == [name |-> n, json |-> TRUE, dot |-> FALSE]
Bounding(key, cred, tool, c) ==
  [key |-> key, json |-> TRUE, blocks |-> {"standing_constraints"}, ups |-> Empty,
   cons |-> [k \in {cred} |-> [t \in {tool} |-> {c}]]]
Serving(key, n, up) ==
  [key |-> key, json |-> TRUE, blocks |-> {"tool_upstreams"}, ups |-> [k \in {n} |-> up], cons |-> Empty]
MCOverlays == {
  {},
  {Bounding(Key("workflow"), "agent", "publish", one)},
  {Bounding(Key("hand"), "agent", "list", one)},
  {Bounding([Key("hand") EXCEPT !.dot = TRUE], "other", "list", one)},
  {Serving(Key("wh"), "wh", Local([pay |-> <<"amt">>])), Bounding(Key("hand"), "other", "pay", [one EXCEPT !.field = "amt"])},
  {Serving(Key("wh"), "wh", Hosted([pay |-> <<"amt">>]))},
  {[Serving(Key("wh"), "wh", Local(Empty)) EXCEPT !.json = FALSE]}}
MCOffers == {
  [name |-> "wh", url |-> URL("http", service), tools |-> [pay |-> <<"amt">>]],
  [name |-> "gh", url |-> URL("http", service), tools |-> [pay |-> <<"amt">>]],
  [name |-> "er", url |-> URL("http", service), tools |-> [list |-> <<>>]]}

Parameter(type) == [type |-> type, required |-> FALSE, default |-> None, needs |-> {}, requiredFor |-> {}]
On(field, op, ref, when) == [field |-> field, op |-> op, ref |-> ref, literal |-> "", when |-> when]
owner == [Param("repo") EXCEPT !.part = 1]
call(up, tool, args) == [up |-> up, tool |-> tool, args |-> args, types |-> Empty, ungoverned |-> FALSE]
Step(n, kind, c) ==
  [name |-> n, kind |-> kind, call |-> c, exec |-> FALSE, capture |-> None, when |-> None, each |-> None, prose |-> {}]

gh == [requires |-> GH, allow |-> {"list"}, bound |-> [list |-> {On("owner", "eq", owner, None)}]]
ado == [requires |-> ADO, allow |-> {},
        bound |-> [write |-> {On("pipe", "in", Param("pipes"), "pipes"), On("proj", "eq", Lit(4), "pipes")}]]
publish == Step("publish", "consequential", call("gh", "publish", [owner |-> owner, tag |-> Param("branch")]))
build == [Step("build", "bounded", [call("ado", "write", [pipe |-> Item, proj |-> Lit(4)])
                                      EXCEPT !.types = [pipe |-> "int"]]) EXCEPT !.each = "pipes", !.when = "pipes"]
release ==
  [credential |-> "agent",
   params |-> [repo |-> [Parameter("github_repo") EXCEPT !.required = TRUE],
               pipes |-> Parameter("int_list"),
               ver |-> [Parameter("string") EXCEPT !.requiredFor = {"publish"}],
               branch |-> [Parameter("string") EXCEPT !.default = Param("ver")]],
   seams |-> [gh |-> gh, ado |-> ado],
   steps |-> <<[Step("draft", "propose", None) EXCEPT !.capture = "draft"],
               [publish EXCEPT !.prose = {Capture("draft")}], build>>]
elsewhere == [release EXCEPT !.seams.ado.requires = [publish |-> GH.publish, write |-> ADO.write],
                             !.seams.ado.allow = {"publish"}]
partial == [release EXCEPT !.seams.ado.bound = [write |-> {On("pipe", "in", Param("pipes"), "pipes"), On("proj", "lte", Lit(2), None)}]]
unbound == [release EXCEPT !.seams = [gh |-> [gh EXCEPT !.bound = Empty], ado |-> ado]]
MCBlueprints == {release, elsewhere, partial, unbound}
MCGivens == {
  [repo |-> <<1, 2>>, ver |-> <<8>>],
  [repo |-> <<1, 2>>, ver |-> <<2>>, pipes |-> <<1, 3>>],
  [repo |-> <<2, 2>>, pipes |-> <<1>>],
  [repo |-> <<1>>], [ver |-> <<2>>], [repo |-> <<1, 2>>, pipes |-> <<4>>]}

MCCalls ==
  [tool : {"list"}, args : [owner : {Str(1), Num(1), Str(2)}] \cup {Empty}]
  \cup [tool : {"publish"}, args : [owner : {Str(1)}, tag : {Str(2), Num(2), Str(6), [k |-> "obj", t |-> 0]}]
                                   \cup [owner : {Str(2)}, tag : {Str(2)}] \cup [owner : {Str(7)}]]
  \cup [tool : {"write"}, args : [pipe : {Num(1), Str(1), Num(3)}, proj : {Str(4), Num(2)}]
                                 \cup [pipe : {Num(1)}, proj : {Num(3)}]]

\* 6 is shown as 2, 7 reads as a 1 and, after it, as a tag.
MCShown == [t \in Texts |-> IF t = 6 THEN 2 ELSE t]
MCSplits == [t \in Texts |-> IF t = 7 THEN [t |-> 1, more |-> {[field |-> "tag", t |-> 2]}] ELSE [t |-> t, more |-> {}]]

pub == [form |-> "v4", range |-> "public"]
MCDnsAnswers == {{pub}, {pub, [form |-> "nat64", range |-> "private"]}, {[form |-> "6to4", range |-> "public"]},
                 {pub, [form |-> "v6", range |-> "public"]}, {[form |-> "v4", range |-> "metadata"]}}

\* One of calls, fetch and events at a time.
Quiet == filed = {} /\ grants = {} /\ last = <<>>
Solo == Cardinality({m \in {"calls", "fetch", "door"} :
          CASE m = "calls" -> ~Quiet [] m = "fetch" -> phase # "idle" [] m = "door" -> clock + Len(admitted) > 0 \/ bucket # <<>>}) <= 1
MCSpec == PolicyInit /\ [][PolicyNext /\ Solo']_policyVars
=============================================================================

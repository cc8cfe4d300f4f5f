----------------------------- MODULE Blueprint -----------------------------
(***************************************************************************)
(* A governed workflow as written (kmx/blueprint): what its parser         *)
(* refuses, how an operator's parameters are bound, and what it renders    *)
(* to: an allowlist, standing constraints and the exact calls of its steps.*)
(*                                                                         *)
(* A template is one reference: a literal, a parameter, the item of a      *)
(* for_each or a captured reply.  A parameter's value is a sequence of     *)
(* texts; a list read where one text is wanted comes joined, a text that   *)
(* is no integer.  Names are well formed and help texts are there.         *)
(***************************************************************************)
EXTENDS Table

CONSTANTS Joined \* the text a longer list reads as

ASSUME BlueprintAssumption == Joined \in Words

Lists == {"int_list", "string_list"}
ParameterTypes == Lists \cup {"string", "github_repo"}
StepKinds == {"read", "propose", "consequential", "bounded", "poll"}

Lit(t) == [kind |-> "lit", name |-> "", part |-> 0, t |-> t]
Param(n) == [kind |-> "param", name |-> n, part |-> 0, t |-> 0]
Item == [kind |-> "item", name |-> "", part |-> 0, t |-> 0]
Capture(n) == [kind |-> "capture", name |-> n, part |-> 0, t |-> 0]

TypeOf(b, ref) == b.params[ref.name].type

\* part: 1 is .owner, 2 is .name, of a github_repo and of nothing else.
KnownReference(b, ref, hasItem) ==
  \/ ref.kind = "lit"
  \/ ref.kind = "item" /\ hasItem
  \/ /\ ref.kind = "param" /\ ref.name \in DOMAIN b.params
     /\ ref.part \in IF TypeOf(b, ref) = "github_repo" THEN {1, 2} ELSE {0}

-----------------------------------------------------------------------------
(* Validation. *)

Optional(b, when) == when = None \/ when \in DOMAIN b.params

\* A default is used when nothing is supplied, and is not a chain.
ValidParameters(b) ==
  \A n \in DOMAIN b.params :
    LET p == b.params[n] IN
      /\ p.type \in ParameterTypes
      /\ p.required => p.default = None
      /\ p.default # None =>
           /\ KnownReference(b, p.default, FALSE)
           /\ p.default.kind = "param" =>
                /\ p.default.name # n
                /\ LET base == b.params[p.default.name] IN base.default # None => base.default.kind = "lit"
      /\ p.needs \subseteq DOMAIN b.params
      /\ p.requiredFor \subseteq {b.steps[i].name : i \in DOMAIN b.steps}

ValidBound(b, c, fields) ==
  /\ c.field \in FieldSet(fields) /\ c.op \in Ops
  /\ c.literal \in {"", "string", "int"} /\ Optional(b, c.when)
  /\ KnownReference(b, c.ref, FALSE)

\* One tool is allowed by one seam and bounded by one seam at most: the
\* allowlist and the constraints are the credential's, not the upstream's.
ValidSeams(b) ==
  /\ b.seams # Empty
  /\ \A s \in DOMAIN b.seams :
       LET seam == b.seams[s] IN
         /\ seam.requires # Empty
         /\ seam.allow \cup DOMAIN seam.bound \subseteq DOMAIN seam.requires
         /\ \A tool \in DOMAIN seam.bound :
              /\ seam.bound[tool] # {}
              /\ \A c \in seam.bound[tool] : ValidBound(b, c, seam.requires[tool])
  /\ \A s, z \in DOMAIN b.seams : s # z =>
       b.seams[s].allow \cap b.seams[z].allow = {}
       /\ DOMAIN b.seams[s].bound \cap DOMAIN b.seams[z].bound = {}

ValidStepShape(b, s) ==
  /\ s.kind \in StepKinds
  /\ s.call # None <=> s.kind \in {"consequential", "bounded"}
  /\ s.exec => s.kind = "consequential" /\ s.call.ungoverned
  /\ s.capture # None => s.kind = "propose"
  /\ Optional(b, s.when)
  /\ s.each # None => s.each \in DOMAIN b.params /\ b.params[s.each].type \in Lists
  /\ s.call # None =>
       /\ s.call.up \in DOMAIN b.seams /\ s.call.tool \in DOMAIN b.seams[s.call.up].requires
       /\ s.call.ungoverned => s.exec
       /\ DOMAIN s.call.types \subseteq DOMAIN s.call.args
       /\ \A f \in DOMAIN s.call.types : s.call.types[f] \in {"str", "int"} \* and bool, not modelled

\* An argument a human approves is the operator's or the blueprint's, never
\* something an agent said; prose may read an earlier reply.
ArgumentAllowed(b, ref, hasItem) ==
  /\ KnownReference(b, ref, hasItem)
  /\ ref.kind = "param" => TypeOf(b, ref) \notin Lists

ValidReferences(b, i) ==
  LET s == b.steps[i]
      captured == {b.steps[j].capture : j \in 1..(i - 1)} \ {None} IN
    /\ s.call # None =>
         \A f \in DOMAIN s.call.args : ArgumentAllowed(b, s.call.args[f], s.each # None)
    /\ \A ref \in s.prose :
         IF ref.kind = "capture" THEN ref.name \in captured ELSE KnownReference(b, ref, s.each # None)

\* What approves a call is the only thing that admits it.
Postures(b, s) ==
  LET allowed == UNION {b.seams[n].allow : n \in DOMAIN b.seams}
      bounded == UNION {DOMAIN b.seams[n].bound : n \in DOMAIN b.seams} IN
  IF s.kind = "consequential" THEN s.call.tool \notin allowed \cup bounded
  ELSE s.call.tool \notin allowed /\ s.call.tool \in bounded

Valid(b) ==
  /\ ValidParameters(b) /\ ValidSeams(b) /\ b.steps # <<>>
  /\ \A i, j \in DOMAIN b.steps : b.steps[i].name = b.steps[j].name => i = j
  /\ \A i \in DOMAIN b.steps :
       /\ ValidStepShape(b, b.steps[i]) /\ ValidReferences(b, i)
       /\ b.steps[i].call # None => Postures(b, b.steps[i])

-----------------------------------------------------------------------------
(* Binding the operator's parameters.  given maps names to sequences of    *)
(* texts; an empty one was not supplied.                                   *)

Given(given, n) == n \in DOMAIN given /\ given[n] # <<>>

\* Literal defaults first, then the ones that read another parameter.
FirstPass(b, given) ==
  [n \in {m \in DOMAIN b.params : Given(given, m) \/ (b.params[m].default # None /\ b.params[m].default.kind = "lit")} |->
     IF Given(given, n) THEN given[n] ELSE <<b.params[n].default.t>>]
Values(b, given) ==
  LET first == FirstPass(b, given)
      deferred == {n \in DOMAIN b.params \ DOMAIN first :
                     b.params[n].default # None /\ b.params[n].default.name \in DOMAIN first} IN
  Join(first, [n \in deferred |->
                 LET ref == b.params[n].default IN
                   IF ref.part = 0 THEN first[ref.name] ELSE <<first[ref.name][ref.part]>>])

WellTyped(p, texts) ==
  CASE p.type = "github_repo" -> Len(texts) = 2
    [] p.type = "int_list" -> \A i \in DOMAIN texts : IsInteger(texts[i])
    [] OTHER -> TRUE

\* steps: the ones this command runs; govern runs none.
BindAccepts(b, given, steps) ==
  LET values == Values(b, given) IN
    /\ DOMAIN given \subseteq DOMAIN b.params
    /\ \A n \in DOMAIN b.params :
         IF n \in DOMAIN values
         THEN WellTyped(b.params[n], values[n]) /\ b.params[n].needs \subseteq DOMAIN values
         ELSE ~b.params[n].required /\ b.params[n].requiredFor \cap steps = {}

-----------------------------------------------------------------------------
(* Rendering.  A reference nothing was supplied for stops it. *)

Resolves(values, ref, item) ==
  \/ ref.kind = "lit" \/ (ref.kind = "item" /\ item # None)
  \/ ref.kind = "param" /\ ref.name \in DOMAIN values

TextOf(values, ref, item) ==
  CASE ref.kind = "lit" -> ref.t
    [] ref.kind = "item" -> item
    [] OTHER -> LET texts == values[ref.name] IN
                  IF ref.part # 0 THEN texts[ref.part] ELSE IF Len(texts) = 1 THEN texts[1] ELSE Joined

\* Integers for the numeric operators, or on demand, unless strings are
\* asked for; a list is drawn as the parameter it is.
AsInteger(b, c) ==
  c.literal # "string"
  /\ \/ c.op \in NumericOps \/ c.literal = "int"
     \/ c.op \in SetOps /\ c.ref.kind = "param" /\ TypeOf(b, c.ref) = "int_list"

TextsOf(b, values, c) ==
  IF c.op \in SetOps /\ c.ref.kind = "param" /\ TypeOf(b, c.ref) \in Lists
  THEN FieldSet(values[c.ref.name])
  ELSE {TextOf(values, c.ref, None)}

Applies(values, c) == c.when = None \/ c.when \in DOMAIN values

RenderConstraint(b, values, c) ==
  LET literal == {IF AsInteger(b, c) THEN Num(t) ELSE Str(t) : t \in TextsOf(b, values, c)} IN
    [field |-> c.field, op |-> c.op,
     value |-> IF c.op \in SetOps THEN None ELSE CHOOSE l \in literal : TRUE,
     values |-> IF c.op \in SetOps THEN literal ELSE {}]

\* Fault: what does not apply is left out of the block.
BlockRendersInPart(b, values, block) ==
  \A c \in block : Applies(values, c) =>
    /\ Resolves(values, c.ref, None)
    /\ AsInteger(b, c) => \A t \in TextsOf(b, values, c) : IsInteger(t)

\* Some of a block would be a wider bound than the one written.
BlockRenders(b, values, block) ==
  /\ \A c \in block : Applies(values, c) =>
       /\ Resolves(values, c.ref, None)
       /\ AsInteger(b, c) => \A t \in TextsOf(b, values, c) : IsInteger(t)
  /\ (\A c \in block : Applies(values, c)) \/ (\A c \in block : ~Applies(values, c))

Bounds(b) == All({b.seams[n] : n \in DOMAIN b.seams}, "bound")

\* A block that does not apply is no bound: the tool is denied and filed.
RenderedBounds(b, values) ==
  LET block == [tool \in DOMAIN Bounds(b) |-> {c \in Bounds(b)[tool] : Applies(values, c)}] IN
    [tool \in {t \in DOMAIN block : block[t] # {}} |->
       {RenderConstraint(b, values, c) : c \in block[tool]}]

Allowlist(b) == UNION {b.seams[n].allow : n \in DOMAIN b.seams}

\* A step repeats over a list it must have; its arguments are typed as declared.
Items(values, s) == IF s.each = None THEN {None} ELSE FieldSet(values[s.each])
Argument(s, values, item, f) ==
  [k |-> IF f \in DOMAIN s.call.types THEN s.call.types[f] ELSE "str",
   t |-> TextOf(values, s.call.args[f], item)]

StepRenders(s, values, item) ==
  /\ \A f \in DOMAIN s.call.args : Resolves(values, s.call.args[f], item)
  /\ \A f \in DOMAIN s.call.types :
       s.call.types[f] = "int" => IsInteger(TextOf(values, s.call.args[f], item))
Arguments(s, values, item) == [f \in DOMAIN s.call.args |-> Argument(s, values, item, f)]

RenderAccepts(b, values) == \A tool \in DOMAIN Bounds(b) : BlockRenders(b, values, Bounds(b)[tool])

\* The fragment of a blueprint: constraints of its credential, and no upstream.
FragmentOf(b, values) ==
  [key |-> [name |-> "workflow", json |-> TRUE, dot |-> FALSE], json |-> TRUE,
   blocks |-> {"standing_constraints"}, ups |-> Empty,
   cons |-> [c \in IF RenderedBounds(b, values) = Empty THEN {} ELSE {b.credential} |->
               RenderedBounds(b, values)]]

\* Every seam is in the table and declares what the blueprint depends on.
SeamsMatch(b, c) ==
  \A s \in DOMAIN b.seams :
    /\ s \in DOMAIN c.ups
    /\ \A tool \in DOMAIN b.seams[s].requires :
         tool \in DeclaredTools(c) /\ Declared(c, tool) = b.seams[s].requires[tool]
=============================================================================

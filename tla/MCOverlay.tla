----------------------------- MODULE MCOverlay -----------------------------
(* Overlay on a small instance. *)
EXTENDS Overlay

Frag(u, c, r) == [ups |-> u, bounds |-> c, asks |-> {}, rev |-> r]
Command1 == [kind |-> "add", key |-> "a", frag |-> Frag({"a"}, {}, 1), cred |-> Nil, needs |-> {},
             replace |-> FALSE, later |-> FALSE]
\* Another server, its manifest put by.
Later1 == [Command1 EXCEPT !.key = "e", !.frag = Frag({"e"}, {}, 1), !.later = TRUE]
\* Two blueprints for one credential, one of them on the onboarded upstream.
Govern1 == [Command1 EXCEPT !.kind = "govern", !.key = "w", !.frag = Frag({}, {"c"}, 1), !.cred = "c"]
Other1 == [Govern1 EXCEPT !.key = "v", !.frag.asks = {"a"}, !.needs = {"a"}]
\* Other parameters, and none that bind.
Govern2 == [Govern1 EXCEPT !.frag = Frag({}, {"c"}, 2), !.replace = TRUE]
GovernNone == [Govern1 EXCEPT !.frag = Nil, !.replace = TRUE]

AllJobs == {Command1, Later1, Govern1, Other1, Govern2, GovernNone}
SomeEdits == {[key |-> "w", frag |-> Frag({}, {"c"}, 2)]}

Existing == {[here |-> TRUE, ver |-> 1, data |-> [EmptyMap EXCEPT !["w"] = Govern1.frag], applied |-> {}]}
NotThere == {[here |-> FALSE, ver |-> 0, data |-> EmptyMap, applied |-> {}]}

EitherMap == Existing \cup NotThere

\* Only the first pod dies between rollouts.
Steady == \A p \in Proxies \ {CHOOSE p \in Proxies : TRUE} : table'[p] # table[p] => gen'[p] # gen[p]

\* One operator onboards at once, bounds what is onboarded and takes governance
\* away; the others onboard later, and govern.
Lead == CHOOSE o \in Operators : TRUE
Roles == \A o \in Operators :
           /\ job'[o] \in (IF o = Lead THEN {Command1, Other1, GovernNone} ELSE {Govern1, Govern2}) \cup {Nil}
           /\ o = Lead /\ file'[o] # Nil => file'[o].key = Command1.key

\* People edit the map, and give kmx plane, before anything is onboarded.
Early == UNCHANGED <<stop, file, gen, table>> /\ ~UNCHANGED <<overlay, restarts>> => Holds(overlay.data) \subseteq {"w"}

MCSpec == OverlayInit /\ [][OverlayNext /\ Steady /\ Roles /\ Early]_overlayVars /\ Fairness
=============================================================================

------------------------------- MODULE Permit -------------------------------
(***************************************************************************)
(* What an approval promises.  A permit is for one call, for a number of   *)
(* acts or (left = None) for as long as it lasts; every act takes one of   *)
(* them, and nothing else changes a permit.  Only the permits that were    *)
(* there at the start may cover more than one call.                        *)
(***************************************************************************)
EXTENDS Naturals

CONSTANTS Permits, Acts, Calls, None

VARIABLES
  covers,   \* the calls a permit is for, {} before it is issued
  left,     \* acts left, None without a count
  taken     \* <<permit, call>> of an act, None before

Init ==
  /\ covers \in [Permits -> SUBSET Calls]
  /\ left \in [Permits -> Nat \cup {None}]
  /\ taken = [a \in Acts |-> None]

Issue(p) ==
  /\ covers[p] = {}
  /\ \E c \in Calls : covers' = [covers EXCEPT ![p] = {c}]
  /\ left' \in [Permits -> Nat \cup {None}]
  /\ \A q \in Permits \ {p} : left'[q] = left[q]
  /\ UNCHANGED taken

Take(a) ==
  /\ taken[a] = None
  /\ \E p \in Permits : \E c \in covers[p] :
       /\ left[p] # 0
       /\ left' = [left EXCEPT ![p] = IF @ = None THEN None ELSE @ - 1]
       /\ taken' = [taken EXCEPT ![a] = <<p, c>>]
  /\ UNCHANGED covers

Next == (\E p \in Permits : Issue(p)) \/ (\E a \in Acts : Take(a))

Spec == Init /\ [][Next]_<<covers, left, taken>>
=============================================================================

------------------------------ MODULE MCProxy -------------------------------
(***************************************************************************)
(* Small instances of Proxy for TLC.                                       *)
(***************************************************************************)
EXTENDS Proxy, TLC

CONSTANTS r1, r2, p1

\* Two requests on one replica.
OneHome == r1 :> p1 @@ r2 :> p1

NoneOrCents == {{}, {"cents"}}
=============================================================================

-------------------------- MODULE MCLiveCallLedger --------------------------
(* Instances of LiveCallLedger for TLC. *)
EXTENDS LiveCallLedger, TLC

CONSTANTS c1, c2, c3, e1, e2

MCMaxEndpoint == (e1 :> 3) @@ (e2 :> 2)

Symmetry == Permutations(Callers)
=============================================================================

------------------------- MODULE MCFactSetTransport -------------------------
(* Instances of FactSetTransport for TLC.  The vendor's 401, 403 and 503   *)
(* answers share one (empty) body.                                         *)
EXTENDS FactSetTransport, TLC

CONSTANTS p1, p2, e1, r1, data1, empty, tooLarge

Ok1 == [status |-> 200, body |-> data1]
Unauthorized == [status |-> 401, body |-> empty]
Forbidden == [status |-> 403, body |-> empty]
NotFound == [status |-> 404, body |-> empty]
Unavailable == [status |-> 503, body |-> empty]
TooLarge == [status |-> 400, body |-> tooLarge]

MCEndpointOf == [r \in Requests |-> e1]

MCLimitTwo == (e1 :> 2)
MCLimitThree == (e1 :> 3)

OnlyForbidden == {Forbidden}
RacingReplies == {Ok1, Forbidden, Unavailable}
EveryClass == {Ok1, Unauthorized, NotFound, Unavailable, TooLarge}

ProcessSymmetry == Permutations(Callers)
=============================================================================

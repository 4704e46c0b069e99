---------------------------- MODULE QuotaBudget ----------------------------
(***************************************************************************)
(* What the live-call budget promises the rest of the provider, with no    *)
(* log, lock or caller in sight: every endpoint has a number of units in   *)
(* use, a unit is taken only while one is left, and a unit may be given    *)
(* back.  LiveCallLedger is shown to implement it.                         *)
(***************************************************************************)
EXTENDS Naturals

CONSTANTS Endpoints,   \* the (api family, endpoint) pairs of the trial
          MaxEndpoint  \* endpoint_policy(...).max_live_requests of each

VARIABLE used          \* budget units in use, per endpoint

Init == used = [e \in Endpoints |-> 0]

\* One unit is reserved before a send.
Take(e) == /\ used[e] < MaxEndpoint[e]
           /\ used' = [used EXCEPT ![e] = @ + 1]

\* A unit whose request never went out is given back.
GiveBack(e) == /\ used[e] > 0
               /\ used' = [used EXCEPT ![e] = @ - 1]

Next == \E e \in Endpoints : Take(e) \/ GiveBack(e)

Spec == Init /\ [][Next]_used
=============================================================================

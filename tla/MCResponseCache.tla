-------------------------- MODULE MCResponseCache --------------------------
(* Instances of ResponseCache and Discovery for TLC: the writers and readers *)
(* of one request's directory, or the discovery runs over a cache of two     *)
(* requests.                                                                 *)
EXTENDS ResponseCache, Discovery, TLC

CONSTANTS w1, w2, q1, d1, d2, r1, r2, id1, id2, empty, tooLarge

VARIABLE part  \* "files" or "discovery": which of the two moves

MCPlan == <<"metrics", "prices">>

Ok(rows) == [status |-> 200, body |-> [rows |-> rows, errors |-> FALSE]]
Error(status) == [status |-> status, body |-> empty]

\* The vendor's errors share one (empty) body; the dictionary of metrics changes.
MCAnswers ==
  [metrics |-> {Ok(<<"sales">>), Ok(<<"sales", "assets">>), Ok(<<"sales", "sales">>), Error(403)},
   prices  |-> {Ok(None), Error(401), Error(404), Error(429), [status |-> 400, body |-> tooLarge]}]

ASSUME MCDiscoveryAssumption == DiscoveryAssumption

PartInit == NoFiles /\ Init /\ part \in {"files", "discovery"}

PartNext == \/ part = "files" /\ Access /\ UNCHANGED <<part, vars>>
            \/ part = "discovery" /\ Next /\ UNCHANGED <<part, directory>>

PartSpec == PartInit /\ [][PartNext]_<<part, vars, directory>>

Symmetry == Permutations(Writers) \cup Permutations(Digests)
              \cup Permutations(Runners) \cup Permutations(RunIds)
=============================================================================

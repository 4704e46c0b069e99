--------------------------- MODULE MCFactSetBatch ---------------------------
(* Instances of FactSetBatch and RateLimiter for TLC: the processes that run  *)
(* a batch, or the threads that race for the tokens of a family's bucket.     *)
EXTENDS FactSetBatch, RateLimiter, TLC

CONSTANTS p1, p2, t1, t2, t3

VARIABLE part  \* "batch" or "limiter": which of the two moves

PartInit == Init /\ Full /\ part \in {"batch", "limiter"}

PartNext == \/ part = "batch" /\ Next /\ UNCHANGED <<part, limiter>>
            \/ part = "limiter" /\ Race /\ UNCHANGED <<part, vars>>

\* The fairness of each, for the part that moves.
PartSpec ==
  /\ PartInit
  /\ [][PartNext]_<<part, vars, limiter>>
  /\ \A p \in Callers : WF_vars(part = "batch" /\ Advance(p))
  /\ \A t \in Threads : WF_limiter(part = "limiter" /\ Turn(t))
  /\ WF_limiter(part = "limiter" /\ Tick)

\* Every run of a batch ends, with its result or without (FactSetBatch.RunEnds), and
\* every thread gets its slot and its token (RateLimiter.EveryRequestSent).
EveryWaitEnds == RunEnds /\ EveryRequestSent
=============================================================================

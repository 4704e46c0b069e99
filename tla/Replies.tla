------------------------------ MODULE Replies ------------------------------
(* What the FactSet client makes of an answer of the vendor (errors.py), and *)
(* of the captures its cache indexes for one request (cache.py), in append   *)
(* order.                                                                    *)
EXTENDS Naturals, Sequences

CONSTANTS SplitBodies,  \* error bodies carrying a "smaller request" marker
          RetryableStatuses,
          NoCapture

IsSuccess(capture) == capture.status \in 200 .. 299

IsSplit(reply) == reply.status = 400 /\ reply.body \in SplitBodies

Classify(reply) ==
  CASE reply.status \in 200 .. 299 -> "success"
    [] IsSplit(reply)              -> "split"
    [] reply.status = 401          -> "auth"
    [] reply.status = 403          -> "entitlement"
    [] /\ reply.status \in RetryableStatuses \/ reply.status >= 500
       /\ reply.status \notin {401, 403} \cup 200 .. 299
       /\ ~ IsSplit(reply)         -> "retryable"
    [] OTHER                       -> "client"

\* The last of the captures at these places, if there is one.
LastAt(captures, places) ==
  IF places = {} THEN NoCapture ELSE captures[CHOOSE i \in places : \A j \in places : j <= i]

LastSuccess(captures) ==
  LastAt(captures, {i \in DOMAIN captures : IsSuccess(captures[i])})

LastError(captures) ==
  LastAt(captures, {i \in DOMAIN captures : ~ IsSuccess(captures[i])})

\* cache.store: append unless a capture with the same body is indexed.
Indexed(captures, body) == \E i \in DOMAIN captures : captures[i].body = body

WithCapture(captures, capture) ==
  IF Indexed(captures, capture.body) THEN captures ELSE Append(captures, capture)
=============================================================================

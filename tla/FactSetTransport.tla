-------------------------- MODULE FactSetTransport --------------------------
(***************************************************************************)
(* FactSetTransport.execute (factset/transport.py): cache-first execution  *)
(* of one normalized request by several agent processes that share a cache *)
(* root.  A process looks in the response cache, honours cached denials,   *)
(* and otherwise sends with retries; every attempt reserves a unit of the  *)
(* shared ledger (LiveCallLedger) before it sends, and every response that *)
(* arrives is persisted before it is returned or raised.                   *)
(*                                                                         *)
(* Requests belong to enabled families: for any other, execute raises      *)
(* before it does anything.  One stored body counts one unit of storage.   *)
(* cache.store is one step here; ResponseCache splits it.  The limiter's   *)
(* slots are RateLimiter's; backoff sleeps and telemetry keep no state.    *)
(***************************************************************************)
EXTENDS Naturals, Sequences, FiniteSets, Replies

CONSTANTS Callers, Endpoints, MaxDaily, MaxEndpoint, DayLength,
          NoCaller, NoEndpoint, MaxTime, MaxReleases,  \* as in LiveCallLedger
          LiveCallers,    \* processes whose live gate is open; the others replay
          Requests,       \* normalized requests, by request hash
          EndpointOf,     \* the endpoint of each request
          Replies,        \* [status, body] pairs the vendor may answer with
          MaxAttempts,    \* retries.max_attempts
          ErrorTTL,       \* transport.error_cache_ttl_seconds
          StorageCap,     \* storage.max_total_bytes
          NoRequest

ASSUME TransportAssumption == /\ LiveCallers \subseteq Callers
                              /\ EndpointOf \in [Requests -> Endpoints]
                              /\ MaxAttempts \in Nat \ {0}
                              /\ ErrorTTL \in Nat
                              /\ StorageCap \in Nat

VARIABLES log, now, flock, caller,   \* the ledger's
          cache,    \* per request: the captures of meta.json, in append order
          stored,   \* per process: _storage_used
          client,   \* per process: where its execute stands, or how it ended
          wire,     \* history, per endpoint: requests whose bytes went out
          leaked    \* history, per endpoint: units released after the send

ledgerVars == <<log, now, flock, caller>>
vars == <<log, now, flock, caller, cache, stored, client, wire, leaked>>

Ledger == INSTANCE LiveCallLedger

ASSUME SharedLedger == Ledger!LedgerAssumption

Fresh(outcome) == [pc |-> "idle", req |-> NoRequest, force |-> FALSE, attempt |-> 0,
                   charged |-> 0, got |-> NoCapture, outcome |-> outcome]

-----------------------------------------------------------------------------
(* Reading the cache.                                                      *)

\* Mutant of LatestSuccess: the status is not looked at.
LatestCapture(r) == LastAt(cache[r], DOMAIN cache[r])

LatestSuccess(r) == LastSuccess(cache[r])

LatestError(r) == LastError(cache[r])

\* Cached 401/403 evidence younger than the TTL.
Denied(r) == LET error == LatestError(r)
             IN  /\ error # NoCapture
                 /\ error.status \in {401, 403}
                 /\ now - error.time < ErrorTTL

StoreCapture(r, capture) == [cache EXCEPT ![r] = WithCapture(@, capture)]

OnDisk == Cardinality(UNION {{r} \X DOMAIN cache[r] : r \in Requests})

-----------------------------------------------------------------------------
(* Steps of one execute.                                                   *)

At(c, step) == client[c].pc = step

Endpoint(c) == EndpointOf[client[c].req]

Goto(c, step) == client' = [client EXCEPT ![c].pc = step]

Finish(c, outcome, got) ==
  client' = [client EXCEPT ![c] = [@ EXCEPT !.pc = "idle", !.force = FALSE, !.attempt = 0,
                                            !.outcome = outcome, !.got = got]]

\* The attempt is used up: try again, or give up for the kind of last failure.
NextAttempt(c, giveUp) ==
  IF client[c].attempt + 1 < MaxAttempts
  THEN client' = [client EXCEPT ![c] = [client[c] EXCEPT !.pc = "attempt", !.attempt = @ + 1,
                                                         !.got = NoCapture]]
  ELSE Finish(c, giveUp, client[c].got)

\* Entry: a cached success is returned unless a refresh is forced; a process
\* that may not go live serves what is cached or raises a cache miss.
Begin(c, r, force) ==
  LET hit == LatestSuccess(r)
      as(state) == client' = [client EXCEPT ![c] = [state EXCEPT !.req = r]]
  IN  /\ At(c, "idle")
      /\ \/ /\ hit # NoCapture
            /\ ~ force \/ c \notin LiveCallers
            /\ as([Fresh("hit") EXCEPT !.got = hit])
         \/ /\ hit = NoCapture
            /\ c \notin LiveCallers
            /\ as(Fresh("miss"))
         \/ /\ hit = NoCapture \/ force
            /\ c \in LiveCallers
            /\ as([Fresh("none") EXCEPT !.pc = "policy", !.force = force])
      /\ UNCHANGED <<ledgerVars, cache, stored, wire, leaked>>

\* The error-cache policy: a fresh cached denial blocks unless forced.
Policy(c) ==
  /\ At(c, "policy")
  /\ \/ /\ ~ client[c].force
        /\ Denied(client[c].req)
        /\ Finish(c, "blocked", LatestError(client[c].req))
     \/ /\ client[c].force \/ ~ Denied(client[c].req)
        /\ Goto(c, "attempt")
  /\ UNCHANGED <<ledgerVars, cache, stored, wire, leaked>>

CheckBudget(c) ==
  /\ At(c, "attempt")
  /\ Ledger!Check(c, Endpoint(c))
  /\ Goto(c, "locked")
  /\ UNCHANGED <<cache, stored, wire, leaked>>

\* Mutant of BudgetStop: an exhausted budget is waited out.
BudgetWait(c) == FALSE

\* A budget is exhausted: the typed hard stop, before the wire.
BudgetStop(c) ==
  /\ At(c, "attempt")
  /\ Ledger!LockFree
  /\ ~ Ledger!CheckPasses(Endpoint(c))
  /\ Finish(c, "budget", NoCapture)
  /\ UNCHANGED <<ledgerVars, cache, stored, wire, leaked>>

Reserve(c) ==
  /\ At(c, "locked")
  /\ Ledger!Reserve(c)
  /\ client' = [client EXCEPT ![c] = [client[c] EXCEPT !.pc = "reserved", !.charged = @ + 1]]
  /\ UNCHANGED <<cache, stored, wire, leaked>>

Transmit(c) ==
  /\ At(c, "reserved")
  /\ wire' = [wire EXCEPT ![Endpoint(c)] = @ + 1]
  /\ Goto(c, "wire")
  /\ UNCHANGED <<ledgerVars, cache, stored, leaked>>

\* Mutant of Timeout: the unit is given back.
TimeoutReleases(c) ==
  /\ At(c, "reserved") \/ At(c, "wire")
  /\ Ledger!ReleaseReservation(c)
  /\ NextAttempt(c, "server")
  /\ UNCHANGED <<cache, stored, wire, leaked>>

\* The sender reports a timeout or a transport failure, with or without the
\* request having gone out: the unit stays consumed.
Timeout(c) ==
  /\ At(c, "reserved") \/ At(c, "wire")
  /\ Ledger!LeaveOpen(c)
  /\ NextAttempt(c, "server")
  /\ UNCHANGED <<cache, stored, wire, leaked>>

\* Any other exception of the sender: the unit is released and the exception
\* surfaces, also when the request had gone out (an undecodable body, an
\* interrupt while waiting for the answer).
SendRaises(c) ==
  /\ At(c, "reserved") \/ At(c, "wire")
  /\ Ledger!ReleaseReservation(c)
  /\ leaked' = IF At(c, "wire") THEN [leaked EXCEPT ![Endpoint(c)] = @ + 1] ELSE leaked
  /\ Finish(c, "raised", NoCapture)
  /\ UNCHANGED <<cache, stored, wire>>


Receive(c, reply) ==
  /\ At(c, "wire")
  /\ Ledger!RecordLiveCall(c)
  /\ client' = [client EXCEPT ![c] =
       [@ EXCEPT !.pc = "reply",
                 !.got = [status |-> reply.status, body |-> reply.body, time |-> now]]]
  /\ UNCHANGED <<cache, stored, wire, leaked>>

\* The storage guard refuses: over the cap by this process's own count, or
\* (any time) under the free-disk reserve.  The response is lost.
StorageStop(c) ==
  /\ At(c, "reply")
  /\ Finish(c, "cap", NoCapture)
  /\ UNCHANGED <<ledgerVars, cache, stored, wire, leaked>>

\* Persist the response, then return, retry or raise by its class.
Handle(c) ==
  LET capture == [client[c].got EXCEPT !.time = now]
      class   == Classify(capture)
  IN  /\ At(c, "reply")
      /\ stored[c] + 1 <= StorageCap
      /\ cache' = StoreCapture(client[c].req, capture)
      /\ stored' = [stored EXCEPT ![c] = @ + 1]
      /\ IF class = "retryable" THEN NextAttempt(c, "exhausted")
                                ELSE Finish(c, class, capture)
      /\ UNCHANGED <<ledgerVars, wire, leaked>>

\* The process dies; the next one counts what it finds on disk.
Crash(c) ==
  /\ \/ Ledger!Crash(c)
     \/ caller[c].at = "idle" /\ UNCHANGED ledgerVars
  /\ client' = [client EXCEPT ![c] = Fresh("crashed")]
  /\ stored' = [stored EXCEPT ![c] = OnDisk]
  /\ UNCHANGED <<cache, wire, leaked>>

Tick == /\ Ledger!Tick
        /\ UNCHANGED <<cache, stored, client, wire, leaked>>

Init == /\ Ledger!Init
        /\ cache = [r \in Requests |-> <<>>]
        /\ stored = [c \in Callers |-> 0]
        /\ client = [c \in Callers |-> Fresh("none")]
        /\ wire = [e \in Endpoints |-> 0]
        /\ leaked = [e \in Endpoints |-> 0]

\* What a live process does by itself once it has begun.
Advance(c) == \/ Policy(c)
              \/ CheckBudget(c)
              \/ BudgetStop(c)
              \/ Reserve(c)
              \/ Transmit(c)
              \/ Timeout(c)
              \/ \E reply \in Replies : Receive(c, reply)
              \/ StorageStop(c)
              \/ Handle(c)

Next == \/ \E c \in Callers : \/ \E r \in Requests, force \in BOOLEAN : Begin(c, r, force)
                              \/ Advance(c)
                              \/ SendRaises(c)
                              \/ Crash(c)
        \/ Tick

Spec == Init /\ [][Next]_vars

\* A process that is scheduled takes its next step; an answer or the request
\* timeout (request_timeout_seconds) ends every wait on the wire.
FairSpec == Spec /\ \A c \in Callers : WF_vars(Advance(c))

-----------------------------------------------------------------------------
(* Properties.                                                             *)

\* Every request that went out is paid for in the shared ledger, through
\* retries, timeouts, crashes and other processes' appends, except the ones
\* released by a sender failure after the send.
WireIsPaid == \A e \in Endpoints : wire[e] <= Ledger!ConsumedForEndpoint(e) + leaked[e]

\* Data handed to a caller is a success the cache can replay: never an error
\* served as data, never a response returned before it was persisted.
ServedIsReplayable ==
  \A c \in Callers : client[c].outcome \in {"hit", "success"} =>
    \E i \in DOMAIN cache[client[c].req] :
      LET capture == cache[client[c].req][i]
      IN  IsSuccess(capture) /\ capture.body = client[c].got.body

\* Every execute ends: with data, a typed error or a hard stop.
ExecuteEnds == \A c \in Callers : ~ At(c, "idle") ~> At(c, "idle")

-----------------------------------------------------------------------------
(* What the documents say and the code does not do.                        *)

\* Only a request that never went out has its unit released, so what the
\* vendor sees stays within the endpoint's limit.
WireWithinLimit == \A e \in Endpoints : wire[e] <= MaxEndpoint[e]

\* An execute that is not forced does not spend quota on a request that was
\* denied, with the denial handled by this process, less than a TTL ago.
DenialBlocks ==
  [][\A c \in Callers :
       LET last == client[c]
       IN  /\ last.outcome \in {"auth", "entitlement"}
           /\ now - last.got.time < ErrorTTL
           => ~ (/\ client'[c].pc = "policy"
                 /\ ~ client'[c].force
                 /\ client'[c].req = last.req
                 /\ ~ Denied(last.req))]_vars
=============================================================================

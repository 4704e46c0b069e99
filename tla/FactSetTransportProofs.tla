----------------------- MODULE FactSetTransportProofs -----------------------
(***************************************************************************)
(* Theorems about FactSetTransport, for any number of processes, requests, *)
(* endpoints, answers and limits.  The shared ledger is proved about once, *)
(* in LiveCallLedgerProofs, whose lemmas are cited here as LP!...; the     *)
(* first part shows that the transport takes exactly those steps.          *)
(***************************************************************************)
EXTENDS FactSetTransport, TLAPS, FiniteSetTheorems, WellFoundedInduction

LP == INSTANCE LiveCallLedgerProofs

(* The two instances of the ledger count with the same operator. *)
LEMMA SameSizes ==
  ASSUME NEW S
  PROVE  /\ Ledger!Cardinality(S) = LP!Cardinality(S)
         /\ Cardinality(S) = LP!Cardinality(S)
         /\ Ledger!IsFiniteSet(S) <=> LP!IsFiniteSet(S)
         /\ IsFiniteSet(S) <=> LP!IsFiniteSet(S)
<1>1. /\ Ledger!Cardinality(S) = LP!Cardinality(S)
      /\ Cardinality(S) = LP!Cardinality(S)
  BY DEF Cardinality, Ledger!Cardinality, LP!Cardinality
<1>2. /\ Ledger!IsFiniteSet(S) <=> LP!IsFiniteSet(S)
      /\ IsFiniteSet(S) <=> LP!IsFiniteSet(S)
  BY DEF IsFiniteSet, Ledger!IsFiniteSet, LP!IsFiniteSet
<1>3. QED
  BY <1>1, <1>2

(* The constants are as the ledger's theorems assume. *)
LEMMA LedgerConstants ==
  /\ LP!LedgerAssumption
  /\ IsFiniteSet(Callers)
  /\ NoCaller \notin Callers
<1>1. Ledger!LedgerAssumption => LP!LedgerAssumption
  BY SameSizes DEF Ledger!LedgerAssumption, LP!LedgerAssumption
<1>2. LP!LedgerAssumption
  BY <1>1, SharedLedger
<1>3. QED
  BY <1>2, SameSizes DEF LP!LedgerAssumption

LEMMA SameQueries ==
  /\ Ledger!NextOrdinal = LP!NextOrdinal
  /\ \A e : Ledger!ConsumedForEndpoint(e) = LP!ConsumedForEndpoint(e)
  /\ \A d : Ledger!ConsumedOnDay(d) = LP!ConsumedOnDay(d)
  /\ \A event : Ledger!Lines(event) = LP!Lines(event)
<1>1. \A event : Ledger!Lines(event) = LP!Lines(event)
  BY DEF Ledger!Lines, LP!Lines
<1>2. Ledger!Units = LP!Units
  BY <1>1 DEF Ledger!Units, LP!Units, Ledger!OpenReservations, LP!OpenReservations,
              Ledger!Settled, LP!Settled
<1>3. \A e : Ledger!UnitsOfEndpoint(e) = LP!UnitsOfEndpoint(e)
  BY <1>2 DEF Ledger!UnitsOfEndpoint, LP!UnitsOfEndpoint
<1>4. \A d : Ledger!UnitsOnDay(d) = LP!UnitsOnDay(d)
  BY <1>2 DEF Ledger!UnitsOnDay, LP!UnitsOnDay, Ledger!Day, LP!Day
<1>5. QED
  BY <1>1, <1>3, <1>4, SameSizes
  DEF Ledger!NextOrdinal, LP!NextOrdinal, Ledger!ConsumedForEndpoint,
      LP!ConsumedForEndpoint, Ledger!ConsumedOnDay, LP!ConsumedOnDay

(* What the transport does on the ledger are the ledger's own operations. *)
LEMMA SameOperations ==
  ASSUME NEW c, NEW e
  PROVE  /\ Ledger!Check(c, e) => LP!Check(c, e)
         /\ Ledger!Reserve(c) => LP!Reserve(c)
         /\ Ledger!RecordLiveCall(c) => LP!RecordLiveCall(c)
         /\ Ledger!ReleaseReservation(c) => LP!ReleaseReservation(c)
         /\ Ledger!LeaveOpen(c) => LP!LeaveOpen(c)
         /\ Ledger!Crash(c) => LP!Crash(c)
         /\ Ledger!Tick => LP!Tick
         /\ Ledger!Init => LP!Init
<1>1. /\ \A event, f, rid : Ledger!Line(event, f, rid) = LP!Line(event, f, rid)
      /\ Ledger!NoReservation = LP!NoReservation
      /\ Ledger!LockFree <=> LP!LockFree
  BY DEF Ledger!Line, LP!Line, Ledger!NoReservation, LP!NoReservation,
         Ledger!LockFree, LP!LockFree
<1>2. Ledger!CheckPasses(e) <=> LP!CheckPasses(e)
  BY SameQueries DEF Ledger!CheckPasses, LP!CheckPasses, Ledger!Day, LP!Day
<1>3. Ledger!Check(c, e) => LP!Check(c, e)
  BY <1>1, <1>2, SameQueries DEF Ledger!Check, LP!Check
<1>4. Ledger!Reserve(c) => LP!Reserve(c)
  BY <1>1 DEF Ledger!Reserve, LP!Reserve
<1>5. Ledger!RecordLiveCall(c) => LP!RecordLiveCall(c)
  BY <1>1 DEF Ledger!RecordLiveCall, LP!RecordLiveCall
<1>6. Ledger!ReleaseReservation(c) => LP!ReleaseReservation(c)
  BY <1>1, SameQueries, SameSizes DEF Ledger!ReleaseReservation, LP!ReleaseReservation
<1>7. /\ Ledger!LeaveOpen(c) => LP!LeaveOpen(c)
      /\ Ledger!Crash(c) => LP!Crash(c)
      /\ Ledger!Tick => LP!Tick
      /\ Ledger!Init => LP!Init
  BY <1>1 DEF Ledger!LeaveOpen, LP!LeaveOpen, Ledger!Crash, LP!Crash,
              Ledger!Tick, LP!Tick, Ledger!Init, LP!Init
<1>8. QED
  BY <1>3, <1>4, <1>5, <1>6, <1>7

-----------------------------------------------------------------------------
(* The invariant. *)

\* An answer of the vendor, stamped with the time it was kept.
Captures == {[status |-> reply.status, body |-> reply.body, time |-> t] :
               reply \in Replies, t \in Nat}

Outcomes == {"none", "hit", "miss", "blocked", "budget", "raised", "cap", "crashed",
             "server", "exhausted", "success", "split", "auth", "entitlement", "client"}

ClientState ==
  [pc : {"idle", "policy", "attempt", "locked", "reserved", "wire", "reply"},
   req : Requests \cup {NoRequest}, force : BOOLEAN, attempt : Nat, charged : Nat,
   got : Captures \cup {NoCapture}, outcome : Outcomes]

Types == /\ client \in [Callers -> ClientState]
         /\ cache \in [Requests -> Seq(Captures)]
         /\ wire \in [Endpoints -> Nat]
         /\ leaked \in [Endpoints -> Nat]

\* A process in the middle of an execute has a request and no outcome yet.
Busy == \A c \in Callers : ~ At(c, "idle") => /\ client[c].req \in Requests
                                             /\ client[c].outcome = "none"

\* A process handles an answer of the vendor.
Answered == \A c \in Callers : At(c, "reply") => client[c].got \in Captures

\* Where an execute stands is where its process stands with its reservation.
InStep ==
  \A c \in Callers :
    /\ At(c, "locked") <=> caller[c].at = "checked"
    /\ At(c, "reserved") \/ At(c, "wire") <=> caller[c].at = "holding"
    /\ caller[c].at # "idle" => caller[c].ep = Endpoint(c)

\* Reserved requests that have not gone out yet.
Promised(e) == {c \in Callers : At(c, "reserved") /\ Endpoint(c) = e}

\* The ledger has a unit for every request sent and for every one about to be.
Paid == \A e \in Endpoints :
          wire[e] + Cardinality(Promised(e)) <= LP!ConsumedForEndpoint(e) + leaked[e]

TransportInv == LP!LedgerInv /\ Types /\ Busy /\ Answered /\ InStep /\ Paid

(* What the invariant says of one process. *)
LEMMA ClientFacts ==
  ASSUME TransportInv, NEW c \in Callers
  PROVE  /\ client[c] \in ClientState
         /\ LP!TypeOK
         /\ ~ At(c, "idle") => client[c].req \in Requests /\ Endpoint(c) \in Endpoints
  BY TransportAssumption DEF TransportInv, Types, Busy, Endpoint, LP!LedgerInv

(* Sets of processes are finite. *)
LEMMA PromisedFinite ==
  ASSUME NEW S \in SUBSET Callers
  PROVE  IsFiniteSet(S) /\ Cardinality(S) \in Nat
  BY LedgerConstants, FS_Subset, FS_CardinalityType

(* A step of one process leaves the promises of the others alone. *)
LEMMA OneMoves ==
  ASSUME NEW c \in Callers, NEW e,
         client \in [Callers -> ClientState], client' \in [Callers -> ClientState],
         \A d \in Callers \ {c} : client'[d] = client[d]
  PROVE  /\ Cardinality(Promised(e)) \in Nat
         /\ Cardinality(Promised(e)') \in Nat
         /\ Cardinality(Promised(e)') =
              Cardinality(Promised(e))
              - (IF c \in Promised(e) THEN 1 ELSE 0)
              + (IF client'[c].pc = "reserved" /\ EndpointOf[client'[c].req] = e
                 THEN 1 ELSE 0)
<1> DEFINE others == Promised(e) \ {c}
           joins  == client'[c].pc = "reserved" /\ EndpointOf[client'[c].req] = e
<1>1. Promised(e)' = IF joins THEN others \cup {c} ELSE others
  <2>1. \A d \in Callers \ {c} : d \in Promised(e)' <=> d \in Promised(e)
    BY DEF Promised, At, Endpoint
  <2>2. c \in Promised(e)' <=> joins
    BY DEF Promised, At, Endpoint
  <2>3. Promised(e)' \subseteq Callers /\ Promised(e) \subseteq Callers
    BY DEF Promised
  <2>4. CASE joins
    BY <2>1, <2>2, <2>3, <2>4
  <2>5. CASE ~ joins
    BY <2>1, <2>2, <2>3, <2>5
  <2>6. QED
    BY <2>4, <2>5
<1>2. /\ IsFiniteSet(Promised(e)) /\ Cardinality(Promised(e)) \in Nat
      /\ Cardinality(Promised(e)') \in Nat
  <2>1. Promised(e) \in SUBSET Callers /\ Promised(e)' \in SUBSET Callers
    BY DEF Promised
  <2>2. QED
    BY <2>1, PromisedFinite
<1>3. /\ IsFiniteSet(others)
      /\ Cardinality(others) = Cardinality(Promised(e)) - (IF c \in Promised(e) THEN 1 ELSE 0)
  BY <1>2, FS_RemoveElement
<1>4. Cardinality(others \cup {c}) = Cardinality(others) + 1
  BY <1>3, FS_AddElement
<1>5. CASE joins
  BY <1>1, <1>2, <1>3, <1>4, <1>5
<1>6. CASE ~ joins
  BY <1>1, <1>2, <1>3, <1>6
<1>7. QED
  BY <1>5, <1>6

(* The parts of the invariant about where each process stands, from what a step *)
(* of one of them does.                                                         *)
LEMMA Stands ==
  ASSUME TransportInv, NEW c \in Callers,
         client' \in [Callers -> ClientState],
         \A d \in Callers \ {c} : client'[d] = client[d] /\ caller'[d] = caller[d],
         client'[c].pc # "idle" => /\ client'[c].req \in Requests
                                   /\ client'[c].outcome = "none",
         client'[c].pc = "reply" => client'[c].got \in Captures,
         client'[c].pc = "locked" <=> caller'[c].at = "checked",
         client'[c].pc \in {"reserved", "wire"} <=> caller'[c].at = "holding",
         caller'[c].at # "idle" => caller'[c].ep = EndpointOf[client'[c].req]
  PROVE  Busy' /\ Answered' /\ InStep'
<1>1. Busy' /\ Answered'
  BY DEF TransportInv, Busy, Answered, At
<1>2. InStep'
  BY DEF TransportInv, InStep, At, Endpoint
<1>3. QED
  BY <1>1, <1>2

-----------------------------------------------------------------------------
(* Steps on the ledger. *)

(* Every step of the transport is a step of the ledger or leaves it alone. *)
LEMMA LedgerMoves ==
  ASSUME TransportInv, [Next]_vars
  PROVE  [Ledger!Next]_(Ledger!vars)
<1>1. ASSUME NEW c \in Callers, CheckBudget(c) PROVE Ledger!Next
  <2>1. Endpoint(c) \in Endpoints /\ Ledger!Check(c, Endpoint(c))
    BY <1>1, ClientFacts DEF CheckBudget, At
  <2>2. QED
    BY <2>1 DEF Ledger!Next
<1>2. ASSUME NEW c \in Callers, Reserve(c) PROVE Ledger!Next
  BY <1>2 DEF Reserve, Ledger!Next
<1>3. ASSUME NEW c \in Callers, Timeout(c) PROVE Ledger!Next
  BY <1>3 DEF Timeout, Ledger!Next
<1>4. ASSUME NEW c \in Callers, NEW reply \in Replies, Receive(c, reply) PROVE Ledger!Next
  BY <1>4 DEF Receive, Ledger!Next
<1>5. ASSUME NEW c \in Callers, SendRaises(c) PROVE Ledger!Next
  BY <1>5 DEF SendRaises, Ledger!Next
<1>6. ASSUME NEW c \in Callers, Crash(c) PROVE Ledger!Next \/ UNCHANGED ledgerVars
  BY <1>6 DEF Crash, Ledger!Next
<1>7. CASE Tick
  BY <1>7 DEF Tick, Ledger!Next
<1>8. ASSUME NEW c \in Callers,
             \/ \E r \in Requests, force \in BOOLEAN : Begin(c, r, force)
             \/ Policy(c) \/ BudgetStop(c) \/ Transmit(c) \/ StorageStop(c) \/ Handle(c)
      PROVE  UNCHANGED ledgerVars
  BY <1>8 DEF Begin, Policy, BudgetStop, Transmit, StorageStop, Handle
<1>9. CASE UNCHANGED vars
  BY <1>9 DEF vars, ledgerVars, Ledger!vars
<1>10. UNCHANGED ledgerVars => UNCHANGED Ledger!vars
  BY DEF ledgerVars, Ledger!vars
<1>11. QED
  BY <1>1, <1>2, <1>3, <1>4, <1>5, <1>6, <1>7, <1>8, <1>9, <1>10 DEF Next, Advance

(* So the ledger's invariant survives it. *)
LEMMA LedgerKept ==
  ASSUME TransportInv, [Next]_vars
  PROVE  LP!LedgerInv'
<1>1. [Ledger!Next]_(Ledger!vars)
  BY LedgerMoves
<1>2. Ledger!Next => LP!Next
  BY SameOperations DEF Ledger!Next, LP!Next
<1>3. UNCHANGED Ledger!vars => UNCHANGED LP!vars
  BY DEF Ledger!vars, LP!vars
<1>4. LP!LedgerInv
  BY DEF TransportInv
<1>5. QED
  BY <1>1, <1>2, <1>3, <1>4, LedgerConstants, LP!StepInv

(* What a process may add to the ledger, in units of each endpoint. *)
LEMMA Units ==
  ASSUME TransportInv, NEW c \in Callers
  PROVE  /\ \A e : LP!ConsumedForEndpoint(e) \in Nat
         /\ Ledger!Reserve(c) =>
              \A e : LP!ConsumedForEndpoint(e)' = LP!ConsumedForEndpoint(e)
                                                 + (IF e = caller[c].ep THEN 1 ELSE 0)
         /\ Ledger!RecordLiveCall(c) =>
              \A e : LP!ConsumedForEndpoint(e)' = LP!ConsumedForEndpoint(e)
         /\ Ledger!ReleaseReservation(c) =>
              \A e : LP!ConsumedForEndpoint(e)' = LP!ConsumedForEndpoint(e)
                                                 - (IF e = caller[c].ep THEN 1 ELSE 0)
         /\ UNCHANGED log =>
              \A e : LP!ConsumedForEndpoint(e)' = LP!ConsumedForEndpoint(e)
<1>1. LP!LedgerInv /\ LP!LedgerAssumption
  BY LedgerConstants DEF TransportInv
<1>2. \A e : LP!ConsumedForEndpoint(e) \in Nat
  BY <1>1, LP!CountTypes DEF LP!LedgerInv
<1>3. ASSUME Ledger!Reserve(c), NEW e
      PROVE  LP!ConsumedForEndpoint(e)' = LP!ConsumedForEndpoint(e)
                                         + (IF e = caller[c].ep THEN 1 ELSE 0)
  <2>1. LP!Reserve(c)
    BY <1>3, SameOperations
  <2>2. LP!ConsumedForEndpoint(e)' =
          IF e = caller[c].ep THEN LP!ConsumedForEndpoint(e) + 1 ELSE LP!ConsumedForEndpoint(e)
    BY <1>1, <2>1, LP!ReserveUnits
  <2>3. QED
    BY <1>2, <2>2
<1>4. ASSUME Ledger!RecordLiveCall(c), NEW e
      PROVE  LP!ConsumedForEndpoint(e)' = LP!ConsumedForEndpoint(e)
  <2>1. LP!RecordLiveCall(c)
    BY <1>4, SameOperations
  <2>2. QED
    BY <1>1, <2>1, LP!SettleUnits DEF LP!RecordLiveCall
<1>5. ASSUME Ledger!ReleaseReservation(c), NEW e
      PROVE  LP!ConsumedForEndpoint(e)' = LP!ConsumedForEndpoint(e)
                                         - (IF e = caller[c].ep THEN 1 ELSE 0)
  <2>1. LP!ReleaseReservation(c)
    BY <1>5, SameOperations
  <2>2. LP!ConsumedForEndpoint(e)' =
          IF e = caller[c].ep THEN LP!ConsumedForEndpoint(e) - 1 ELSE LP!ConsumedForEndpoint(e)
    BY <1>1, <2>1, LP!SettleUnits DEF LP!ReleaseReservation
  <2>3. QED
    BY <1>2, <2>2
<1>6. ASSUME UNCHANGED log, NEW e
      PROVE  LP!ConsumedForEndpoint(e)' = LP!ConsumedForEndpoint(e)
  BY <1>1, <1>6, LP!SameLog
<1>7. QED
  BY <1>2, <1>3, <1>4, <1>5, <1>6

-----------------------------------------------------------------------------
(* The invariant holds initially, and every step keeps it. *)
LEMMA TransportInit == Init => TransportInv
<1> SUFFICES ASSUME Init PROVE TransportInv
  OBVIOUS
<1>1. LP!Init
  BY SameOperations DEF Init
<1>2. LP!LedgerInv
  BY <1>1, LedgerConstants, LP!InitInv
<1>3. client = [c \in Callers |-> Fresh("none")] /\ Fresh("none") \in ClientState
  BY DEF Init, Fresh, ClientState, Outcomes
<1>4. Types /\ Busy /\ Answered
  BY <1>3 DEF Init, Types, Busy, Answered, At, Fresh
<1>5. InStep
  BY <1>3 DEF Init, InStep, At, Fresh, Ledger!Init, Ledger!NoReservation
<1>6. Paid
  <2>1. \A e : Promised(e) = {}
    BY <1>3 DEF Promised, At, Fresh
  <2>2. \A e : Cardinality(Promised(e)) = 0 /\ LP!ConsumedForEndpoint(e) \in Nat
    BY <1>2, <2>1, LedgerConstants, FS_EmptySet, LP!CountTypes DEF LP!LedgerInv
  <2>3. QED
    BY <2>2 DEF Init, Paid
<1>7. QED
  BY <1>2, <1>4, <1>5, <1>6 DEF TransportInv

(* Steps before the wire and after the answer: the request is not sent, and the *)
(* reservation is not touched.                                                  *)
LEMMA QuietInv ==
  ASSUME TransportInv, LP!LedgerInv', NEW c \in Callers,
         UNCHANGED <<log, caller, wire, leaked>>,
         cache' \in [Requests -> Seq(Captures)],
         client' \in [Callers -> ClientState],
         \A d \in Callers \ {c} : client'[d] = client[d],
         client[c].pc \in {"idle", "policy", "attempt", "reply"},
         client'[c].pc \in {"idle", "policy", "attempt"},
         client'[c].pc # "idle" => /\ client'[c].req \in Requests
                                   /\ client'[c].outcome = "none"
  PROVE  TransportInv'
<1>1. caller[c].at = "idle"
  BY ClientFacts, LedgerConstants, LP!CallerFacts DEF TransportInv, InStep, At
<1>2. Busy' /\ Answered' /\ InStep'
  BY <1>1, Stands
<1>3. Types'
  BY DEF TransportInv, Types
<1>4. Paid'
  <2>1. \A e : Cardinality(Promised(e)') = Cardinality(Promised(e))
    <3>1. \A e : c \notin Promised(e)
      BY DEF Promised, At
    <3>2. QED
      BY <3>1, OneMoves DEF TransportInv, Types
  <2>2. \A e : LP!ConsumedForEndpoint(e)' = LP!ConsumedForEndpoint(e)
    BY Units
  <2>3. QED
    BY <2>1, <2>2 DEF TransportInv, Paid
<1>5. QED
  BY <1>2, <1>3, <1>4 DEF TransportInv

(* What the helpers that end or repeat an attempt make of a process. *)
LEMMA EndsOrRepeats ==
  ASSUME TransportInv, NEW c \in Callers, NEW outcome \in Outcomes,
         NEW got \in Captures \cup {NoCapture},
         client[c].pc # "idle",
         Finish(c, outcome, got) \/ NextAttempt(c, outcome)
  PROVE  /\ client' \in [Callers -> ClientState]
         /\ \A d \in Callers \ {c} : client'[d] = client[d]
         /\ client'[c].pc \in {"idle", "attempt"}
         /\ client'[c].req = client[c].req /\ client[c].req \in Requests
         /\ client'[c].outcome \in {"none", outcome}
         /\ client'[c].pc = "attempt" => client'[c].outcome = "none"
<1>1. client \in [Callers -> ClientState] /\ client[c] \in ClientState
  BY DEF TransportInv, Types
<1>2. /\ client[c].got \in Captures \cup {NoCapture}
      /\ client[c].req \in Requests /\ client[c].outcome = "none"
  BY <1>1 DEF ClientState, TransportInv, Busy, At
<1>3. ASSUME NEW result \in Captures \cup {NoCapture}, Finish(c, outcome, result)
      PROVE  /\ client' \in [Callers -> ClientState]
             /\ \A d \in Callers \ {c} : client'[d] = client[d]
             /\ client'[c].pc = "idle"
             /\ client'[c].req = client[c].req
             /\ client'[c].outcome = outcome
  BY <1>1, <1>3 DEF Finish, ClientState
<1>4. CASE NextAttempt(c, outcome)
  <2>1. CASE client[c].attempt + 1 < MaxAttempts
    <3>1. PICK next \in Nat : next = client[c].attempt + 1
      BY <1>1 DEF ClientState
    <3>2. client' = [client EXCEPT ![c] =
                       [client[c] EXCEPT !.pc = "attempt", !.attempt = next,
                                         !.got = NoCapture]]
      BY <1>4, <2>1, <3>1 DEF NextAttempt
    <3>3. QED
      BY <1>1, <1>2, <3>2 DEF ClientState
  <2>2. CASE ~ (client[c].attempt + 1 < MaxAttempts)
    BY <1>2, <1>3, <1>4, <2>2 DEF NextAttempt
  <2>3. QED
    BY <2>1, <2>2
<1>5. QED
  BY <1>2, <1>3, <1>4

-----------------------------------------------------------------------------
(* The cache. *)

(* Every set of natural numbers that is not empty has a least element ... *)
LEMMA NatMin ==
  ASSUME NEW T \in SUBSET Nat, T # {}
  PROVE  \E x \in T : \A y \in T : x <= y
<1> DEFINE Below == OpToRel(<, Nat)
<1>1. IsWellFoundedOn(Below, Nat)
  BY NatLessThanWellFounded
<1>2. \A x, y \in Nat : y < x => <<y, x>> \in Below
  BY DEF OpToRel
<1> HIDE DEF Below
<1>3. PICK x \in T : \A y \in T : <<y, x>> \notin Below
  BY <1>1, WFMin
<1>4. ASSUME NEW y \in T PROVE x <= y
  <2>1. x \in Nat /\ y \in Nat
    OBVIOUS
  <2>2. ~ (y < x)
    BY <1>2, <1>3, <2>1
  <2>3. QED
    BY <2>1, <2>2
<1>5. QED
  BY <1>4

(* ... and, below a bound, a greatest. *)
LEMMA BoundedMax ==
  ASSUME NEW n \in Nat, NEW T \in SUBSET (0 .. n), T # {}
  PROVE  \E x \in T : \A y \in T : y <= x
<1> DEFINE S == {m \in 0 .. n : n - m \in T}
<1>1. PICK t \in T : TRUE
  OBVIOUS
<1>2. n - t \in 0 .. n /\ n - (n - t) = t
  BY <1>1
<1>3. n - t \in S
  BY <1>1, <1>2
<1>4. PICK m \in S : \A k \in S : m <= k
  <2>1. S \in SUBSET Nat
    OBVIOUS
  <2>2. S # {}
    BY <1>3
  <2> HIDE DEF S
  <2>3. QED
    BY <2>1, <2>2, NatMin
<1>5. \A y \in T : n - y \in S
  <2>1. \A y \in T : n - y \in 0 .. n /\ n - (n - y) = y
    OBVIOUS
  <2>2. QED
    BY <2>1
<1>6. QED
  BY <1>4, <1>5

(* The last capture of a kind is a capture of that kind, when there is one. *)
LEMMA LastAtFacts ==
  ASSUME NEW captures \in Seq(Captures), NEW places \in SUBSET DOMAIN captures,
         LastAt(captures, places) # NoCapture
  PROVE  \E i \in places : LastAt(captures, places) = captures[i] /\ captures[i] \in Captures
<1>1. places # {} /\ places \in SUBSET (0 .. Len(captures)) /\ Len(captures) \in Nat
  BY DEF LastAt
<1>2. PICK i \in places : \A j \in places : j <= i
  BY <1>1, BoundedMax
<1> DEFINE best == CHOOSE k \in places : \A j \in places : j <= k
<1>3. best \in places
  BY <1>2
<1>4. captures[best] \in Captures
  BY <1>3
<1>5. QED
  BY <1>1, <1>3, <1>4 DEF LastAt

LEMMA HitFacts ==
  ASSUME TransportInv, NEW r \in Requests, LatestSuccess(r) # NoCapture
  PROVE  /\ LatestSuccess(r) \in Captures
         /\ IsSuccess(LatestSuccess(r))
         /\ Indexed(cache[r], LatestSuccess(r).body)
<1>1. cache[r] \in Seq(Captures)
  BY DEF TransportInv, Types
<1> DEFINE successes == {i \in DOMAIN cache[r] : IsSuccess(cache[r][i])}
<1>2. PICK i \in successes : LatestSuccess(r) = cache[r][i] /\ cache[r][i] \in Captures
  BY <1>1, LastAtFacts DEF LatestSuccess, LastSuccess
<1>3. QED
  BY <1>2 DEF Indexed

LEMMA DenialFacts ==
  ASSUME TransportInv, NEW r \in Requests
  PROVE  LatestError(r) \in Captures \cup {NoCapture}
<1>1. cache[r] \in Seq(Captures)
  BY DEF TransportInv, Types
<1>2. QED
  BY <1>1, LastAtFacts DEF LatestError, LastError

(* Storing a capture forgets none, and leaves its body indexed. *)
LEMMA StoreFacts ==
  ASSUME TransportInv, NEW r \in Requests, NEW capture \in Captures,
         cache' = StoreCapture(r, capture)
  PROVE  /\ cache' \in [Requests -> Seq(Captures)]
         /\ Indexed(cache'[r], capture.body)
         /\ \A q \in Requests : \A body : Indexed(cache[q], body) => Indexed(cache'[q], body)
<1>1. cache \in [Requests -> Seq(Captures)] /\ cache[r] \in Seq(Captures)
  BY DEF TransportInv, Types
<1>2. cache' = [cache EXCEPT ![r] = WithCapture(cache[r], capture)]
  BY DEF StoreCapture
<1>3. /\ WithCapture(cache[r], capture) \in Seq(Captures)
      /\ Indexed(WithCapture(cache[r], capture), capture.body)
      /\ \A body : Indexed(cache[r], body) => Indexed(WithCapture(cache[r], capture), body)
  <2>1. CASE Indexed(cache[r], capture.body)
    BY <1>1, <2>1 DEF WithCapture
  <2>2. CASE ~ Indexed(cache[r], capture.body)
    <3>1. WithCapture(cache[r], capture) = Append(cache[r], capture)
      BY <2>2 DEF WithCapture
    <3>2. /\ Append(cache[r], capture) \in Seq(Captures)
          /\ DOMAIN Append(cache[r], capture) = DOMAIN cache[r] \cup {Len(cache[r]) + 1}
          /\ Append(cache[r], capture)[Len(cache[r]) + 1] = capture
          /\ \A i \in DOMAIN cache[r] : Append(cache[r], capture)[i] = cache[r][i]
      BY <1>1
    <3>3. QED
      BY <3>1, <3>2 DEF Indexed
  <2>3. QED
    BY <2>1, <2>2
<1>4. QED
  BY <1>1, <1>2, <1>3

(* Before the wire. *)
LEMMA BeginInv ==
  ASSUME TransportInv, LP!LedgerInv', NEW c \in Callers, NEW r \in Requests,
         NEW force \in BOOLEAN, Begin(c, r, force)
  PROVE  TransportInv'
<1>1. LatestSuccess(r) # NoCapture => LatestSuccess(r) \in Captures
  BY HitFacts
<1>2. PICK state \in ClientState :
        /\ state.pc \in {"idle", "policy"}
        /\ state.pc = "policy" => state.outcome = "none"
        /\ state.req = r
        /\ client' = [client EXCEPT ![c] = state]
  <2>1. [Fresh("miss") EXCEPT !.req = r] \in ClientState
    BY DEF Fresh, ClientState, Outcomes
  <2>2. LatestSuccess(r) # NoCapture =>
          [[Fresh("hit") EXCEPT !.got = LatestSuccess(r)] EXCEPT !.req = r] \in ClientState
    BY <1>1 DEF Fresh, ClientState, Outcomes
  <2>3. [[Fresh("none") EXCEPT !.pc = "policy", !.force = force] EXCEPT !.req = r]
          \in ClientState
    BY DEF Fresh, ClientState, Outcomes
  <2>4. QED
    BY <2>1, <2>2, <2>3 DEF Begin, Fresh
<1>3. client \in [Callers -> ClientState] /\ cache \in [Requests -> Seq(Captures)]
  BY DEF TransportInv, Types
<1>4. /\ client' \in [Callers -> ClientState]
      /\ client'[c] = state
      /\ \A d \in Callers \ {c} : client'[d] = client[d]
  BY <1>2, <1>3
<1>5. /\ UNCHANGED <<log, caller, wire, leaked>>
      /\ cache' \in [Requests -> Seq(Captures)]
      /\ client[c].pc = "idle"
  BY <1>3 DEF Begin, ledgerVars, At
<1>6. QED
  BY <1>2, <1>4, <1>5, QuietInv

LEMMA PolicyInv ==
  ASSUME TransportInv, LP!LedgerInv', NEW c \in Callers, Policy(c)
  PROVE  TransportInv'
<1>1. client \in [Callers -> ClientState] /\ cache \in [Requests -> Seq(Captures)]
  BY DEF TransportInv, Types
<1>2. /\ UNCHANGED <<log, caller, wire, leaked>>
      /\ cache' \in [Requests -> Seq(Captures)]
      /\ client[c].pc = "policy"
      /\ client[c].req \in Requests /\ client[c].outcome = "none"
  BY <1>1 DEF Policy, ledgerVars, At, TransportInv, Busy
<1>3. CASE Finish(c, "blocked", LatestError(client[c].req))
  <2>1. LatestError(client[c].req) \in Captures \cup {NoCapture} /\ "blocked" \in Outcomes
    BY <1>2, DenialFacts DEF Outcomes
  <2>2. QED
    BY <1>2, <1>3, <2>1, EndsOrRepeats, QuietInv
<1>4. CASE Goto(c, "attempt")
  <2>1. /\ client' \in [Callers -> ClientState]
        /\ \A d \in Callers \ {c} : client'[d] = client[d]
        /\ client'[c].pc = "attempt" /\ client'[c].req = client[c].req
        /\ client'[c].outcome = client[c].outcome
    BY <1>1, <1>4 DEF Goto, ClientState
  <2>2. QED
    BY <1>2, <2>1, QuietInv
<1>5. QED
  BY <1>3, <1>4 DEF Policy

LEMMA StopInv ==
  ASSUME TransportInv, LP!LedgerInv', NEW c \in Callers, BudgetStop(c) \/ StorageStop(c)
  PROVE  TransportInv'
<1>1. cache \in [Requests -> Seq(Captures)]
  BY DEF TransportInv, Types
<1>2. /\ UNCHANGED <<log, caller, wire, leaked>>
      /\ cache' \in [Requests -> Seq(Captures)]
      /\ client[c].pc \in {"attempt", "reply"}
  BY <1>1 DEF BudgetStop, StorageStop, ledgerVars, At
<1>3. PICK outcome \in Outcomes : Finish(c, outcome, NoCapture)
  BY DEF BudgetStop, StorageStop, Outcomes
<1>4. QED
  BY <1>2, <1>3, EndsOrRepeats, QuietInv

(* The answer is handled. *)
LEMMA Classes ==
  ASSUME NEW reply
  PROVE  /\ Classify(reply) \in Outcomes \cup {"retryable"}
         /\ Classify(reply) = "success" <=> IsSuccess(reply)
  BY DEF Classify, Outcomes, IsSuccess, IsSplit

LEMMA HandleInv ==
  ASSUME TransportInv, LP!LedgerInv', NEW c \in Callers, Handle(c)
  PROVE  TransportInv'
<1> DEFINE capture == [client[c].got EXCEPT !.time = now]
<1>1. now \in Nat /\ client[c].got \in Captures /\ client[c].req \in Requests
  BY ClientFacts DEF Handle, At, TransportInv, Answered, LP!TypeOK
<1>2. capture \in Captures
  BY <1>1 DEF Captures
<1>3. cache' = StoreCapture(client[c].req, capture)
  BY DEF Handle
<1>4. /\ UNCHANGED <<log, caller, wire, leaked>>
      /\ cache' \in [Requests -> Seq(Captures)]
      /\ client[c].pc = "reply"
  <2>1. cache' \in [Requests -> Seq(Captures)]
    BY <1>1, <1>2, <1>3, StoreFacts
  <2>2. QED
    BY <2>1 DEF Handle, ledgerVars, At
<1>5. \E outcome \in Outcomes, got \in Captures \cup {NoCapture} :
         Finish(c, outcome, got) \/ NextAttempt(c, outcome)
  <2>1. Classify(capture) \in Outcomes \cup {"retryable"} /\ "exhausted" \in Outcomes
    BY Classes DEF Outcomes
  <2>2. QED
    BY <1>2, <2>1 DEF Handle
<1>6. QED
  BY <1>4, <1>5, EndsOrRepeats, QuietInv

-----------------------------------------------------------------------------
(* Steps that touch the reservation: the promises and the units move together. *)

LEMMA CheckBudgetInv ==
  ASSUME TransportInv, LP!LedgerInv', NEW c \in Callers, CheckBudget(c)
  PROVE  TransportInv'
<1>1. client \in [Callers -> ClientState] /\ client[c] \in ClientState
  BY DEF TransportInv, Types
<1>2. /\ client' \in [Callers -> ClientState]
      /\ \A d \in Callers \ {c} : client'[d] = client[d]
      /\ client'[c].pc = "locked" /\ client'[c].req = client[c].req
      /\ client'[c].outcome = client[c].outcome
  BY <1>1 DEF CheckBudget, Goto, ClientState
<1>3. /\ \A d \in Callers \ {c} : caller'[d] = caller[d]
      /\ caller'[c].at = "checked" /\ caller'[c].ep = Endpoint(c)
  BY ClientFacts DEF CheckBudget, Ledger!Check, LP!TypeOK
<1>4. client[c].pc = "attempt" /\ client[c].req \in Requests /\ client[c].outcome = "none"
  BY DEF CheckBudget, At, TransportInv, Busy
<1>5. Busy' /\ Answered' /\ InStep'
  BY <1>2, <1>3, <1>4, Stands DEF Endpoint
<1>6. UNCHANGED <<log, cache, wire, leaked>>
  BY DEF CheckBudget, Ledger!Check
<1>7. Types'
  BY <1>2, <1>6 DEF TransportInv, Types
<1>8. Paid'
  <2>1. \A e : Cardinality(Promised(e)') = Cardinality(Promised(e))
    <3>1. \A e : c \notin Promised(e)
      BY <1>4 DEF Promised, At
    <3>2. QED
      BY <1>1, <1>2, <3>1, OneMoves
  <2>2. \A e : LP!ConsumedForEndpoint(e)' = LP!ConsumedForEndpoint(e)
    BY <1>6, Units
  <2>3. QED
    BY <1>6, <2>1, <2>2 DEF TransportInv, Paid
<1>9. QED
  BY <1>5, <1>7, <1>8 DEF TransportInv

(* A unit is reserved before the request it pays for is sent. *)
LEMMA ReserveInv ==
  ASSUME TransportInv, LP!LedgerInv', NEW c \in Callers, Reserve(c)
  PROVE  TransportInv'
<1>1. client \in [Callers -> ClientState] /\ client[c] \in ClientState
  BY DEF TransportInv, Types
<1>2. /\ client' \in [Callers -> ClientState]
      /\ \A d \in Callers \ {c} : client'[d] = client[d]
      /\ client'[c].pc = "reserved" /\ client'[c].req = client[c].req
      /\ client'[c].outcome = client[c].outcome
  <2>1. PICK next \in Nat : next = client[c].charged + 1
    BY <1>1 DEF ClientState
  <2>2. client' = [client EXCEPT ![c] =
                     [client[c] EXCEPT !.pc = "reserved", !.charged = next]]
    BY <2>1 DEF Reserve
  <2>3. QED
    BY <1>1, <2>2 DEF ClientState
<1>3. client[c].pc = "locked" /\ client[c].req \in Requests /\ client[c].outcome = "none"
  BY DEF Reserve, At, TransportInv, Busy
<1>4. Ledger!Reserve(c) /\ UNCHANGED <<cache, wire, leaked>>
  BY DEF Reserve
<1>5. caller[c].at = "checked" /\ caller[c].ep = Endpoint(c)
  BY <1>3 DEF TransportInv, InStep, At
<1>6. /\ \A d \in Callers \ {c} : caller'[d] = caller[d]
      /\ caller'[c].at = "holding" /\ caller'[c].ep = caller[c].ep
  <2>1. caller \in [Callers -> LP!CallerState]
    BY ClientFacts DEF LP!TypeOK
  <2>2. caller[c] \in [at : {"checked", "holding"}, ep : Endpoints, rid : Nat \ {0}]
    BY <1>5, <2>1 DEF LP!CallerState, LP!NoReservation
  <2>3. QED
    BY <1>4, <2>1, <2>2 DEF Ledger!Reserve
<1>7. Busy' /\ Answered' /\ InStep'
  BY <1>2, <1>3, <1>5, <1>6, Stands DEF Endpoint
<1>8. Types'
  BY <1>2, <1>4 DEF TransportInv, Types
<1>9. Paid'
  <2>1. ASSUME NEW e \in Endpoints
        PROVE  /\ Cardinality(Promised(e)) \in Nat
               /\ Cardinality(Promised(e)') =
                    Cardinality(Promised(e)) + (IF Endpoint(c) = e THEN 1 ELSE 0)
    <3>1. c \notin Promised(e)
      BY <1>3 DEF Promised, At
    <3>2. QED
      BY <1>1, <1>2, <3>1, OneMoves DEF Endpoint
  <2>2. \A e : /\ LP!ConsumedForEndpoint(e) \in Nat
               /\ LP!ConsumedForEndpoint(e)' = LP!ConsumedForEndpoint(e)
                                              + (IF e = Endpoint(c) THEN 1 ELSE 0)
    BY <1>4, <1>5, Units
  <2>3. \A e \in Endpoints : wire[e] \in Nat /\ leaked[e] \in Nat
    BY DEF TransportInv, Types
  <2>4. ASSUME NEW e \in Endpoints
        PROVE  wire'[e] + Cardinality(Promised(e)') <= LP!ConsumedForEndpoint(e)' + leaked'[e]
    <3>1. wire[e] + Cardinality(Promised(e)) <= LP!ConsumedForEndpoint(e) + leaked[e]
      BY DEF TransportInv, Paid
    <3>2. CASE Endpoint(c) = e
      BY <1>4, <2>1, <2>2, <2>3, <3>1, <3>2
    <3>3. CASE Endpoint(c) # e
      BY <1>4, <2>1, <2>2, <2>3, <3>1, <3>3
    <3>4. QED
      BY <3>2, <3>3
  <2>5. QED
    BY <2>4 DEF Paid
<1>10. QED
  BY <1>7, <1>8, <1>9 DEF TransportInv

(* The request goes out: a promise is kept. *)
LEMMA TransmitInv ==
  ASSUME TransportInv, LP!LedgerInv', NEW c \in Callers, Transmit(c)
  PROVE  TransportInv'
<1>1. client \in [Callers -> ClientState] /\ client[c] \in ClientState
  BY DEF TransportInv, Types
<1>2. /\ client' \in [Callers -> ClientState]
      /\ \A d \in Callers \ {c} : client'[d] = client[d]
      /\ client'[c].pc = "wire" /\ client'[c].req = client[c].req
      /\ client'[c].outcome = client[c].outcome
  BY <1>1 DEF Transmit, Goto, ClientState
<1>3. /\ client[c].pc = "reserved" /\ client[c].req \in Requests
      /\ client[c].outcome = "none" /\ Endpoint(c) \in Endpoints
  BY ClientFacts DEF Transmit, At, TransportInv, Busy
<1>4. UNCHANGED <<log, caller, cache, leaked>>
  BY DEF Transmit, ledgerVars
<1>5. caller[c].at = "holding" /\ caller[c].ep = Endpoint(c)
  BY <1>3 DEF TransportInv, InStep, At
<1>6. Busy' /\ Answered' /\ InStep'
  BY <1>2, <1>3, <1>4, <1>5, Stands DEF Endpoint
<1>7. wire \in [Endpoints -> Nat] /\ wire' = [wire EXCEPT ![Endpoint(c)] = wire[Endpoint(c)] + 1]
  BY DEF Transmit, TransportInv, Types
<1>8. Types'
  BY <1>2, <1>3, <1>4, <1>7 DEF TransportInv, Types
<1>9. Paid'
  <2>1. ASSUME NEW e \in Endpoints
        PROVE  /\ Cardinality(Promised(e)) \in Nat
               /\ Cardinality(Promised(e)') =
                    Cardinality(Promised(e)) - (IF Endpoint(c) = e THEN 1 ELSE 0)
    <3>1. c \in Promised(e) <=> Endpoint(c) = e
      BY <1>3 DEF Promised, At
    <3>2. QED
      BY <1>1, <1>2, <3>1, OneMoves
  <2>2. \A e : LP!ConsumedForEndpoint(e)' = LP!ConsumedForEndpoint(e)
    BY <1>4, Units
  <2>3. ASSUME NEW e \in Endpoints
        PROVE  wire'[e] + Cardinality(Promised(e)') <= LP!ConsumedForEndpoint(e)' + leaked'[e]
    <3>1. wire[e] + Cardinality(Promised(e)) <= LP!ConsumedForEndpoint(e) + leaked[e]
      BY DEF TransportInv, Paid
    <3>2. CASE Endpoint(c) = e
      BY <1>4, <1>7, <2>1, <2>2, <3>1, <3>2
    <3>3. CASE Endpoint(c) # e
      BY <1>4, <1>7, <2>1, <2>2, <3>1, <3>3
    <3>4. QED
      BY <3>2, <3>3
  <2>4. QED
    BY <2>3 DEF Paid
<1>10. QED
  BY <1>6, <1>8, <1>9 DEF TransportInv

(* No answer: the unit stays, whether or not the request had gone out. *)
LEMMA TimeoutInv ==
  ASSUME TransportInv, LP!LedgerInv', NEW c \in Callers, Timeout(c)
  PROVE  TransportInv'
<1>1. client \in [Callers -> ClientState] /\ client[c] \in ClientState
  BY DEF TransportInv, Types
<1>2. client[c].pc \in {"reserved", "wire"} /\ UNCHANGED <<log, cache, wire, leaked>>
  BY DEF Timeout, At, Ledger!LeaveOpen
<1>3. /\ client' \in [Callers -> ClientState]
      /\ \A d \in Callers \ {c} : client'[d] = client[d]
      /\ client'[c].pc \in {"idle", "attempt"}
      /\ client'[c].req = client[c].req /\ client[c].req \in Requests
      /\ client'[c].pc = "attempt" => client'[c].outcome = "none"
  <2>1. "server" \in Outcomes /\ NextAttempt(c, "server")
    BY DEF Outcomes, Timeout
  <2>2. NoCapture \in Captures \cup {NoCapture}
    OBVIOUS
  <2>3. QED
    BY <1>2, <2>1, <2>2, EndsOrRepeats
<1>4. /\ \A d \in Callers \ {c} : caller'[d] = caller[d]
      /\ caller'[c].at = "idle"
  BY ClientFacts DEF Timeout, Ledger!LeaveOpen, Ledger!NoReservation, LP!TypeOK
<1>5. Busy' /\ Answered' /\ InStep'
  BY <1>3, <1>4, Stands
<1>6. Types'
  BY <1>2, <1>3 DEF TransportInv, Types
<1>7. Paid'
  <2>1. ASSUME NEW e \in Endpoints
        PROVE  /\ Cardinality(Promised(e)) \in Nat /\ Cardinality(Promised(e)') \in Nat
               /\ Cardinality(Promised(e)') <= Cardinality(Promised(e))
    BY <1>1, <1>3, OneMoves
  <2>2. \A e : LP!ConsumedForEndpoint(e)' = LP!ConsumedForEndpoint(e)
    BY <1>2, Units
  <2>3. ASSUME NEW e \in Endpoints
        PROVE  wire'[e] + Cardinality(Promised(e)') <= LP!ConsumedForEndpoint(e)' + leaked'[e]
    <3>1. wire[e] + Cardinality(Promised(e)) <= LP!ConsumedForEndpoint(e) + leaked[e]
      BY DEF TransportInv, Paid
    <3>2. wire[e] \in Nat /\ leaked[e] \in Nat /\ LP!ConsumedForEndpoint(e) \in Nat
      BY Units DEF TransportInv, Types
    <3>3. QED
      BY <1>2, <2>1, <2>2, <3>1, <3>2
  <2>4. QED
    BY <2>3 DEF Paid
<1>8. QED
  BY <1>5, <1>6, <1>7 DEF TransportInv

(* The sender fails: the unit goes back, and so does the promise, or the leak is *)
(* noted.                                                                         *)
LEMMA SendRaisesInv ==
  ASSUME TransportInv, LP!LedgerInv', NEW c \in Callers, SendRaises(c)
  PROVE  TransportInv'
<1>1. client \in [Callers -> ClientState] /\ client[c] \in ClientState
  BY DEF TransportInv, Types
<1>2. client[c].pc \in {"reserved", "wire"} /\ UNCHANGED <<cache, wire>>
  BY DEF SendRaises, At
<1>3. /\ client' \in [Callers -> ClientState]
      /\ \A d \in Callers \ {c} : client'[d] = client[d]
      /\ client'[c].pc = "idle"
      /\ client'[c].req = client[c].req /\ client[c].req \in Requests
  <2>1. "raised" \in Outcomes /\ Finish(c, "raised", NoCapture)
    BY DEF Outcomes, SendRaises
  <2>2. NoCapture \in Captures \cup {NoCapture}
    OBVIOUS
  <2>3. client'[c].pc = "idle"
    BY <1>1, <2>1 DEF Finish, ClientState
  <2>4. QED
    BY <1>2, <2>1, <2>2, <2>3, EndsOrRepeats
<1>4. /\ \A d \in Callers \ {c} : caller'[d] = caller[d]
      /\ caller'[c].at = "idle"
  BY ClientFacts DEF SendRaises, Ledger!ReleaseReservation, Ledger!NoReservation, LP!TypeOK
<1>5. Busy' /\ Answered' /\ InStep'
  BY <1>3, <1>4, Stands
<1>6. caller[c].ep = Endpoint(c) /\ Endpoint(c) \in Endpoints
  BY <1>2, ClientFacts DEF TransportInv, InStep, At
<1>7. /\ leaked \in [Endpoints -> Nat]
      /\ leaked' = IF client[c].pc = "wire"
                   THEN [leaked EXCEPT ![Endpoint(c)] = leaked[Endpoint(c)] + 1] ELSE leaked
  BY DEF SendRaises, At, TransportInv, Types
<1>8. Types'
  BY <1>2, <1>3, <1>6, <1>7 DEF TransportInv, Types
<1>9. Paid'
  <2>1. ASSUME NEW e \in Endpoints
        PROVE  /\ Cardinality(Promised(e)) \in Nat /\ Cardinality(Promised(e)') \in Nat
               /\ Cardinality(Promised(e)') =
                    Cardinality(Promised(e)) - (IF c \in Promised(e) THEN 1 ELSE 0)
    BY <1>1, <1>3, OneMoves
  <2>2. \A e : /\ LP!ConsumedForEndpoint(e) \in Nat
               /\ LP!ConsumedForEndpoint(e)' = LP!ConsumedForEndpoint(e)
                                              - (IF e = Endpoint(c) THEN 1 ELSE 0)
    BY <1>6, Units DEF SendRaises
  <2>3. ASSUME NEW e \in Endpoints
        PROVE  wire'[e] + Cardinality(Promised(e)') <= LP!ConsumedForEndpoint(e)' + leaked'[e]
    <3>1. wire[e] + Cardinality(Promised(e)) <= LP!ConsumedForEndpoint(e) + leaked[e]
      BY DEF TransportInv, Paid
    <3>2. wire[e] \in Nat /\ leaked[e] \in Nat
      BY DEF TransportInv, Types
    <3>3. CASE Endpoint(c) # e
      <4>1. leaked'[e] = leaked[e] /\ c \notin Promised(e)
        BY <1>6, <1>7, <3>3 DEF Promised
      <4>2. QED
        BY <1>2, <2>1, <2>2, <3>1, <3>2, <3>3, <4>1
    <3>4. CASE Endpoint(c) = e /\ client[c].pc = "wire"
      <4>1. leaked'[e] = leaked[e] + 1 /\ c \notin Promised(e)
        BY <1>6, <1>7, <3>4 DEF Promised, At
      <4>2. QED
        BY <1>2, <2>1, <2>2, <3>1, <3>2, <3>4, <4>1
    <3>5. CASE Endpoint(c) = e /\ client[c].pc = "reserved"
      <4>1. leaked'[e] = leaked[e] /\ c \in Promised(e)
        BY <1>6, <1>7, <3>5 DEF Promised, At
      <4>2. QED
        BY <1>2, <2>1, <2>2, <3>1, <3>2, <3>5, <4>1
    <3>6. QED
      BY <1>2, <3>3, <3>4, <3>5
  <2>4. QED
    BY <2>3 DEF Paid
<1>10. QED
  BY <1>5, <1>8, <1>9 DEF TransportInv

(* The answer arrives: the call's line converts the reservation, unit for unit. *)
LEMMA ReceiveInv ==
  ASSUME TransportInv, LP!LedgerInv', NEW c \in Callers, NEW reply \in Replies,
         Receive(c, reply)
  PROVE  TransportInv'
<1> DEFINE capture == [status |-> reply.status, body |-> reply.body, time |-> now]
<1>1. client \in [Callers -> ClientState] /\ client[c] \in ClientState
  BY DEF TransportInv, Types
<1>2. /\ client[c].pc = "wire" /\ client[c].req \in Requests /\ client[c].outcome = "none"
      /\ UNCHANGED <<cache, wire, leaked>>
  BY DEF Receive, At, TransportInv, Busy
<1>3. capture \in Captures
  BY ClientFacts DEF Captures, LP!TypeOK
<1>4. /\ client' \in [Callers -> ClientState]
      /\ \A d \in Callers \ {c} : client'[d] = client[d]
      /\ client'[c].pc = "reply" /\ client'[c].got = capture
      /\ client'[c].req = client[c].req /\ client'[c].outcome = client[c].outcome
  <2> HIDE DEF capture
  <2>1. client' = [client EXCEPT ![c] = [client[c] EXCEPT !.pc = "reply", !.got = capture]]
    BY DEF Receive, capture
  <2>2. QED
    BY <1>1, <1>3, <2>1 DEF ClientState
<1>5. /\ \A d \in Callers \ {c} : caller'[d] = caller[d]
      /\ caller'[c].at = "idle"
  BY ClientFacts DEF Receive, Ledger!RecordLiveCall, Ledger!NoReservation, LP!TypeOK
<1>6. Busy' /\ Answered' /\ InStep'
  BY <1>2, <1>3, <1>4, <1>5, Stands
<1>7. Types'
  BY <1>2, <1>4 DEF TransportInv, Types
<1>8. Paid'
  <2>1. \A e : Cardinality(Promised(e)') = Cardinality(Promised(e))
    <3>1. \A e : c \notin Promised(e)
      BY <1>2 DEF Promised, At
    <3>2. QED
      BY <1>1, <1>4, <3>1, OneMoves
  <2>2. \A e : LP!ConsumedForEndpoint(e)' = LP!ConsumedForEndpoint(e)
    BY Units DEF Receive
  <2>3. QED
    BY <1>2, <2>1, <2>2 DEF TransportInv, Paid
<1>9. QED
  BY <1>6, <1>7, <1>8 DEF TransportInv

(* The process dies; what it had reserved stays consumed. *)
LEMMA CrashInv ==
  ASSUME TransportInv, LP!LedgerInv', NEW c \in Callers, Crash(c)
  PROVE  TransportInv'
<1>1. client \in [Callers -> ClientState]
  BY DEF TransportInv, Types
<1>2. UNCHANGED <<log, cache, wire, leaked>>
  BY DEF Crash, Ledger!Crash, ledgerVars
<1>3. /\ client' \in [Callers -> ClientState]
      /\ \A d \in Callers \ {c} : client'[d] = client[d]
      /\ client'[c].pc = "idle"
  <2>1. Fresh("crashed") \in ClientState /\ Fresh("crashed").pc = "idle"
    BY DEF Fresh, ClientState, Outcomes
  <2>2. QED
    BY <1>1, <2>1 DEF Crash
<1>4. /\ \A d \in Callers \ {c} : caller'[d] = caller[d]
      /\ caller'[c].at = "idle"
  <2>1. caller \in [Callers -> LP!CallerState]
    BY ClientFacts DEF LP!TypeOK
  <2>2. QED
    BY <2>1 DEF Crash, Ledger!Crash, Ledger!NoReservation, ledgerVars
<1>5. Busy' /\ Answered' /\ InStep'
  BY <1>3, <1>4, Stands
<1>6. Types'
  BY <1>2, <1>3 DEF TransportInv, Types
<1>7. Paid'
  <2>1. ASSUME NEW e \in Endpoints
        PROVE  /\ Cardinality(Promised(e)) \in Nat /\ Cardinality(Promised(e)') \in Nat
               /\ Cardinality(Promised(e)') <= Cardinality(Promised(e))
    BY <1>1, <1>3, OneMoves
  <2>2. \A e : LP!ConsumedForEndpoint(e)' = LP!ConsumedForEndpoint(e)
    BY <1>2, Units
  <2>3. ASSUME NEW e \in Endpoints
        PROVE  wire'[e] + Cardinality(Promised(e)') <= LP!ConsumedForEndpoint(e)' + leaked'[e]
    <3>1. wire[e] + Cardinality(Promised(e)) <= LP!ConsumedForEndpoint(e) + leaked[e]
      BY DEF TransportInv, Paid
    <3>2. wire[e] \in Nat /\ leaked[e] \in Nat /\ LP!ConsumedForEndpoint(e) \in Nat
      BY Units DEF TransportInv, Types
    <3>3. QED
      BY <1>2, <2>1, <2>2, <3>1, <3>2
  <2>4. QED
    BY <2>3 DEF Paid
<1>8. QED
  BY <1>5, <1>6, <1>7 DEF TransportInv

(* The clock, and steps that change nothing. *)
LEMMA SilentInv ==
  ASSUME TransportInv, LP!LedgerInv', Tick \/ UNCHANGED vars
  PROVE  TransportInv'
<1>1. UNCHANGED <<log, caller, cache, client, wire, leaked>>
  BY DEF Tick, Ledger!Tick, vars
<1>2. Types' /\ Busy' /\ Answered' /\ InStep'
  BY <1>1 DEF TransportInv, Types, Busy, Answered, InStep, At, Endpoint
<1>3. \A e : Promised(e)' = Promised(e)
  BY <1>1 DEF Promised, At, Endpoint
<1>4. \A e : LP!ConsumedForEndpoint(e)' = LP!ConsumedForEndpoint(e)
  BY <1>1, LedgerConstants, LP!SameLog DEF TransportInv
<1>5. Paid'
  BY <1>1, <1>3, <1>4 DEF TransportInv, Paid
<1>6. QED
  BY <1>2, <1>5 DEF TransportInv

LEMMA TransportStep == TransportInv /\ [Next]_vars => TransportInv'
<1> SUFFICES ASSUME TransportInv, [Next]_vars PROVE TransportInv'
  OBVIOUS
<1>1. LP!LedgerInv'
  BY LedgerKept
<1>2. QED
  BY <1>1, BeginInv, PolicyInv, StopInv, HandleInv, CheckBudgetInv, ReserveInv, TransmitInv,
     TimeoutInv, SendRaisesInv, ReceiveInv, CrashInv, SilentInv DEF Next, Advance

LEMMA PaidNow ==
  ASSUME TransportInv, NEW e \in Endpoints
  PROVE  /\ wire[e] <= Ledger!ConsumedForEndpoint(e) + leaked[e]
         /\ wire[e] <= MaxEndpoint[e] + leaked[e]
<1>1. Promised(e) \in SUBSET Callers
  BY DEF Promised
<1>2. Cardinality(Promised(e)) \in Nat
  BY <1>1, PromisedFinite
<1>3. wire[e] \in Nat /\ leaked[e] \in Nat /\ LP!ConsumedForEndpoint(e) \in Nat
  <2>1. LP!ConsumedForEndpoint(e) \in Nat
    BY LedgerConstants, LP!CountTypes DEF TransportInv, LP!LedgerInv
  <2>2. QED
    BY <2>1 DEF TransportInv, Types
<1>4. wire[e] + Cardinality(Promised(e)) <= LP!ConsumedForEndpoint(e) + leaked[e]
  BY DEF TransportInv, Paid
<1>5. LP!ConsumedForEndpoint(e) <= MaxEndpoint[e] /\ MaxEndpoint[e] \in Nat
  BY LedgerConstants DEF TransportInv, LP!LedgerInv, LP!EndpointWithinLimit, LP!LedgerAssumption
<1>6. QED
  BY <1>2, <1>3, <1>4, <1>5, SameQueries

(* Every request that went out is paid for in the shared ledger, but for the  *)
(* units a sender failure released after the send: through retries, timeouts, *)
(* crashes and the appends of other processes.                                *)
THEOREM WirePaid == Spec => []WireIsPaid
<1>1. TransportInv => WireIsPaid
  BY PaidNow DEF WireIsPaid
<1>2. QED
  BY <1>1, TransportInit, TransportStep, PTL DEF Spec

(* The vendor sees no more requests of an endpoint than its limit and the units *)
(* released after a send: those releases are all that WireWithinLimit misses.   *)
THEOREM WireWithinLeaks ==
  Spec => [](\A e \in Endpoints : wire[e] <= MaxEndpoint[e] + leaked[e])
<1>1. TransportInv => \A e \in Endpoints : wire[e] <= MaxEndpoint[e] + leaked[e]
  BY PaidNow
<1>2. QED
  BY <1>1, TransportInit, TransportStep, PTL DEF Spec

-----------------------------------------------------------------------------
(* What a caller is handed. *)

\* A caller that was handed data holds a success answer of the vendor whose body
\* is indexed under its request.
Served ==
  \A c \in Callers : client[c].outcome \in {"hit", "success"} =>
    /\ client[c].req \in Requests
    /\ client[c].got \in Captures
    /\ IsSuccess(client[c].got)
    /\ Indexed(cache[client[c].req], client[c].got.body)

(* A step that forgets no body keeps it so, when the data it hands out is so. *)
LEMMA ServedStays ==
  ASSUME Served, NEW c \in Callers,
         \A q \in Requests : \A body : Indexed(cache[q], body) => Indexed(cache'[q], body),
         \A d \in Callers \ {c} : client'[d] = client[d],
         client'[c].outcome \in {"hit", "success"} =>
           /\ client'[c].req \in Requests
           /\ client'[c].got \in Captures
           /\ IsSuccess(client'[c].got)
           /\ Indexed(cache'[client'[c].req], client'[c].got.body)
  PROVE  Served'
<1> SUFFICES ASSUME NEW d \in Callers, client'[d].outcome \in {"hit", "success"}
             PROVE  /\ client'[d].req \in Requests
                    /\ client'[d].got \in Captures
                    /\ IsSuccess(client'[d].got)
                    /\ Indexed(cache'[client'[d].req], client'[d].got.body)
  BY DEF Served, IsSuccess, Indexed
<1>1. CASE d # c
  BY <1>1 DEF Served
<1>2. CASE d = c
  BY <1>2
<1>3. QED
  BY <1>1, <1>2

(* Steps that hand out nothing. *)
LEMMA ServedByOthers ==
  ASSUME TransportInv, Served, NEW c \in Callers, UNCHANGED cache,
         \/ Policy(c) \/ CheckBudget(c) \/ BudgetStop(c) \/ Reserve(c) \/ Transmit(c)
         \/ Timeout(c) \/ SendRaises(c) \/ StorageStop(c) \/ Crash(c)
         \/ \E reply \in Replies : Receive(c, reply)
  PROVE  Served'
<1>1. client \in [Callers -> ClientState] /\ client[c] \in ClientState
  BY DEF TransportInv, Types
<1>2. client[c].pc # "idle" => client[c].outcome = "none"
  BY DEF TransportInv, Busy, At
<1>3. \A d \in Callers \ {c} : client'[d] = client[d]
  <2>1. \A outcome, got : Finish(c, outcome, got) =>
          \A d \in Callers \ {c} : client'[d] = client[d]
    BY <1>1 DEF Finish
  <2>2. \A step : Goto(c, step) => \A d \in Callers \ {c} : client'[d] = client[d]
    BY <1>1 DEF Goto
  <2>3. NextAttempt(c, "server") => \A d \in Callers \ {c} : client'[d] = client[d]
    BY <1>1, <2>1 DEF NextAttempt
  <2>4. QED
    BY <1>1, <2>1, <2>2, <2>3
    DEF Policy, CheckBudget, BudgetStop, Reserve, Transmit, Timeout, SendRaises,
        StorageStop, Crash, Receive
<1>4. client'[c].outcome \notin {"hit", "success"}
  <2>1. \A outcome, got : Finish(c, outcome, got) => client'[c].outcome = outcome
    BY <1>1 DEF Finish, ClientState
  <2>2. \A step : Goto(c, step) => client'[c].outcome = client[c].outcome
    BY <1>1 DEF Goto, ClientState
  <2>3. NextAttempt(c, "server") /\ client[c].pc # "idle" =>
          client'[c].outcome \in {"none", "server"}
    <3>1. "server" \in Outcomes /\ NoCapture \in Captures \cup {NoCapture}
      BY DEF Outcomes
    <3>2. QED
      BY <3>1, EndsOrRepeats
  <2>4. CASE Policy(c) \/ CheckBudget(c) \/ Transmit(c)
    BY <1>2, <2>1, <2>2, <2>4 DEF Policy, CheckBudget, Transmit, At
  <2>5. CASE BudgetStop(c) \/ StorageStop(c) \/ SendRaises(c)
    BY <2>1, <2>5 DEF BudgetStop, StorageStop, SendRaises
  <2>6. CASE Timeout(c)
    BY <1>2, <2>3, <2>6 DEF Timeout, At
  <2>7. CASE Reserve(c)
    BY <1>1, <1>2, <2>7 DEF Reserve, ClientState, At
  <2>8. CASE \E reply \in Replies : Receive(c, reply)
    BY <1>1, <1>2, <2>8 DEF Receive, ClientState, At
  <2>9. CASE Crash(c)
    BY <1>1, <2>9 DEF Crash, Fresh
  <2>10. QED
    BY <2>4, <2>5, <2>6, <2>7, <2>8, <2>9
<1>5. QED
  BY <1>3, <1>4, ServedStays

(* A hit is a success of the index, and an answer is indexed before it is returned. *)
LEMMA ServedByBegin ==
  ASSUME TransportInv, Served, NEW c \in Callers, NEW r \in Requests,
         NEW force \in BOOLEAN, Begin(c, r, force)
  PROVE  Served'
<1>1. client \in [Callers -> ClientState]
  BY DEF TransportInv, Types
<1>2. UNCHANGED cache /\ \A d \in Callers \ {c} : client'[d] = client[d]
  BY <1>1 DEF Begin
<1>3. \/ /\ LatestSuccess(r) # NoCapture
         /\ client'[c].req = r /\ client'[c].got = LatestSuccess(r)
      \/ client'[c].outcome \in {"miss", "none"}
  BY <1>1 DEF Begin, Fresh
<1>4. QED
  BY <1>2, <1>3, HitFacts, ServedStays

LEMMA ServedByHandle ==
  ASSUME TransportInv, Served, NEW c \in Callers, Handle(c)
  PROVE  Served'
<1> DEFINE capture == [client[c].got EXCEPT !.time = now]
<1>1. /\ client \in [Callers -> ClientState] /\ client[c] \in ClientState
      /\ client[c].pc = "reply"
  BY DEF TransportInv, Types, Handle, At
<1>2. now \in Nat /\ client[c].got \in Captures /\ client[c].req \in Requests
  BY ClientFacts DEF Handle, At, TransportInv, Answered, LP!TypeOK
<1>3. capture \in Captures
  BY <1>2 DEF Captures
<1>4. cache' = StoreCapture(client[c].req, capture)
  BY DEF Handle
<1>5. /\ Indexed(cache'[client[c].req], capture.body)
      /\ \A q \in Requests : \A body : Indexed(cache[q], body) => Indexed(cache'[q], body)
  <2> HIDE DEF capture
  <2>1. QED
    BY <1>2, <1>3, <1>4, StoreFacts
<1>6. CASE Classify(capture) = "retryable"
  <2>1. "exhausted" \in Outcomes /\ NextAttempt(c, "exhausted")
    BY <1>6 DEF Outcomes, Handle
  <2>2. NoCapture \in Captures \cup {NoCapture}
    OBVIOUS
  <2>3. /\ client'[c].outcome \in {"none", "exhausted"}
        /\ \A d \in Callers \ {c} : client'[d] = client[d]
    BY <1>1, <2>1, <2>2, EndsOrRepeats
  <2>4. QED
    BY <1>5, <2>3, ServedStays
<1>7. CASE Classify(capture) # "retryable"
  <2>1. Finish(c, Classify(capture), capture)
    BY <1>7 DEF Handle
  <2>2. /\ Classify(capture) = "success" <=> IsSuccess(capture)
        /\ Classify(capture) # "hit"
    BY DEF Classify, IsSuccess, IsSplit
  <2> HIDE DEF capture
  <2>3. /\ \A d \in Callers \ {c} : client'[d] = client[d]
        /\ client'[c].outcome = Classify(capture)
        /\ client'[c].got = capture /\ client'[c].req = client[c].req
    BY <1>1, <2>1 DEF Finish, ClientState
  <2>4. QED
    BY <1>2, <1>3, <1>5, <2>2, <2>3, ServedStays
<1>8. QED
  BY <1>6, <1>7

LEMMA ServedStep == TransportInv /\ Served /\ [Next]_vars => Served'
<1> SUFFICES ASSUME TransportInv, Served, [Next]_vars PROVE Served'
  OBVIOUS
<1>1. ASSUME NEW c \in Callers,
             \/ Policy(c) \/ CheckBudget(c) \/ BudgetStop(c) \/ Reserve(c) \/ Transmit(c)
             \/ Timeout(c) \/ SendRaises(c) \/ StorageStop(c) \/ Crash(c)
             \/ \E reply \in Replies : Receive(c, reply)
      PROVE  Served'
  <2>1. UNCHANGED cache
    BY <1>1 DEF Policy, CheckBudget, BudgetStop, Reserve, Transmit, Timeout, SendRaises,
                StorageStop, Crash, Receive
  <2>2. QED
    BY <1>1, <2>1, ServedByOthers
<1>2. CASE Tick \/ UNCHANGED vars
  <2>1. UNCHANGED <<cache, client>>
    BY <1>2 DEF Tick, vars
  <2>2. QED
    BY <2>1 DEF Served
<1>3. QED
  BY <1>1, <1>2, ServedByBegin, ServedByHandle DEF Next, Advance

\* No success answer of the vendor has the same bytes as an error answer.
BodiesApart == \A a, b \in Replies : IsSuccess(a) /\ a.body = b.body => IsSuccess(b)

LEMMA ServedAlways == Spec => [](TransportInv /\ Served)
<1>1. Init => Served
  BY DEF Init, Served, Fresh
<1>2. QED
  BY <1>1, TransportInit, TransportStep, ServedStep, PTL DEF Spec

(* Data handed to a caller is a success answer of the vendor, never an error   *)
(* served as data, and its body is indexed under the request before it is      *)
(* returned.                                                                   *)
THEOREM ServedIsIndexed ==
  Spec => [](\A c \in Callers : client[c].outcome \in {"hit", "success"} =>
               /\ IsSuccess(client[c].got)
               /\ Indexed(cache[client[c].req], client[c].got.body))
<1>1. TransportInv /\ Served =>
        \A c \in Callers : client[c].outcome \in {"hit", "success"} =>
           /\ IsSuccess(client[c].got)
           /\ Indexed(cache[client[c].req], client[c].got.body)
  BY DEF Served
<1>2. QED
  BY <1>1, ServedAlways, PTL

(* When no success answer has the bytes of an error answer, the data can also be *)
(* replayed: the capture indexed for it is a success.  The cache tells captures  *)
(* apart by their bytes alone, so without this a success that repeats the bytes  *)
(* of an indexed error is returned and never found again.                        *)
THEOREM ServedReplays == BodiesApart /\ Spec => []ServedIsReplayable
<1> SUFFICES ASSUME BodiesApart PROVE Spec => []ServedIsReplayable
  OBVIOUS
<1>1. TransportInv /\ Served => ServedIsReplayable
  <2> SUFFICES ASSUME TransportInv, Served,
                      NEW c \in Callers, client[c].outcome \in {"hit", "success"}
               PROVE  \E i \in DOMAIN cache[client[c].req] :
                        /\ IsSuccess(cache[client[c].req][i])
                        /\ cache[client[c].req][i].body = client[c].got.body
    BY DEF ServedIsReplayable
  <2>1. PICK captures \in Seq(Captures) : captures = cache[client[c].req]
    BY DEF Served, TransportInv, Types
  <2>2. PICK got \in Captures : got = client[c].got /\ IsSuccess(got)
    BY DEF Served
  <2>3. PICK i \in DOMAIN captures : captures[i].body = got.body
    BY <2>1, <2>2 DEF Served, Indexed
  <2>4. PICK kept \in Captures : kept = captures[i]
    BY <2>1
  <2>5. PICK a \in Replies : got.body = a.body /\ got.status = a.status
    BY DEF Captures
  <2>6. PICK b \in Replies : kept.body = b.body /\ kept.status = b.status
    BY DEF Captures
  <2>7. IsSuccess(kept)
    <3>1. IsSuccess(a)
      BY <2>2, <2>5 DEF IsSuccess
    <3>2. a.body = b.body
      BY <2>3, <2>4, <2>5, <2>6
    <3>3. IsSuccess(b)
      BY <3>1, <3>2 DEF BodiesApart
    <3>4. QED
      BY <2>6, <3>3 DEF IsSuccess
  <2>8. QED
    BY <2>1, <2>2, <2>3, <2>4, <2>7
<1>2. QED
  BY <1>1, ServedAlways, PTL
=============================================================================

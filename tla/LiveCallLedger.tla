--------------------------- MODULE LiveCallLedger ---------------------------
(***************************************************************************)
(* The live-call ledger of the FactSet transport (factset/ledger.py): an   *)
(* append-only log under the cache root, shared by every agent process,    *)
(* from which budgets are computed.  A caller reserves one unit before it  *)
(* sends, under an advisory file lock; the reservation is then converted   *)
(* by the completed call, released, or left open by a timeout or a crash.  *)
(*                                                                         *)
(* A caller is a process.  Its in-process lock orders its own threads, so  *)
(* between processes only the file lock of the check-and-reserve excludes  *)
(* anything: the other appends may fall between a check and its append.    *)
(***************************************************************************)
EXTENDS Naturals, Sequences, FiniteSets

CONSTANTS Callers,      \* processes sharing the ledger
          Endpoints,    \* (api family, endpoint) pairs
          MaxDaily,     \* transport.max_live_calls_per_day
          MaxEndpoint,  \* max_live_requests of each endpoint
          DayLength,    \* clock ticks in one UTC day
          NoCaller,     \* the file lock is free
          NoEndpoint,   \* an idle caller's endpoint
          MaxTime,      \* bound: last clock tick
          MaxReleases   \* bound: released reservations

\* A live transport refuses a daily budget below one (config.py).
ASSUME LedgerAssumption == /\ MaxDaily \in Nat \ {0}
                           /\ MaxEndpoint \in [Endpoints -> Nat]
                           /\ DayLength \in Nat \ {0}
                           /\ MaxTime \in Nat
                           /\ MaxReleases \in Nat
                           /\ NoCaller \notin Callers
                           /\ IsFiniteSet(Callers)

VARIABLES log,      \* the lines of _ledger.jsonl, in append order
          now,      \* the UTC clock
          flock,    \* holder of the advisory lock on _ledger.lock
          caller    \* per process: where it stands with its reservation

vars == <<log, now, flock, caller>>

Events == {"live_reserved", "live_released", "live_call"}

\* rid 0 stands for a missing reservation id; the id the code builds ends in
\* the ordinal, which alone makes it unique.
Entry == [event : Events, ep : Endpoints, rid : Nat, time : Nat]

NoReservation == [at |-> "idle", ep |-> NoEndpoint, rid |-> 0]

CallerState ==
  {NoReservation} \cup
  [at : {"checked", "holding"}, ep : Endpoints, rid : Nat \ {0}]

Day(t) == t \div DayLength

-----------------------------------------------------------------------------
(* Queries: what a reader computes from the lines of the log.              *)

Lines(event) == {i \in DOMAIN log : log[i].event = event}

Settled(rid) == \E j \in DOMAIN log : /\ log[j].event \in {"live_call", "live_released"}
                                      /\ log[j].rid = rid

\* Reservations neither converted by a live call nor released.
OpenReservations == {i \in Lines("live_reserved") : ~ Settled(log[i].rid)}

\* The lines that count against a budget.
Units == Lines("live_call") \cup OpenReservations

UnitsOnDay(d) == {i \in Units : Day(log[i].time) = d}

UnitsOfEndpoint(e) == {i \in Units : log[i].ep = e}

ConsumedOnDay(d) == Cardinality(UnitsOnDay(d))

ConsumedForEndpoint(e) == Cardinality(UnitsOfEndpoint(e))

\* Mutants of CheckPasses: the daily budget is not looked at; the endpoint
\* limit is passed by one.
CheckPassesAnyDay(e) == ConsumedForEndpoint(e) < MaxEndpoint[e]

CheckPassesOneMore(e) == /\ ConsumedOnDay(Day(now)) < MaxDaily
                         /\ ConsumedForEndpoint(e) <= MaxEndpoint[e]

CheckPasses(e) == /\ ConsumedOnDay(Day(now)) < MaxDaily
                  /\ ConsumedForEndpoint(e) < MaxEndpoint[e]

OrdinalOfOpen == Cardinality(OpenReservations) + 1

NextOrdinal == Cardinality(Lines("live_reserved")) + 1

-----------------------------------------------------------------------------
(* Operations.                                                             *)

Line(event, e, rid) == [event |-> event, ep |-> e, rid |-> rid, time |-> now]

LockFree == flock = NoCaller

\* Mutant of Check: the file lock is not waited for.
CheckUnlocked(c, e) ==
  /\ caller[c].at = "idle"
  /\ CheckPasses(e)
  /\ flock' = c
  /\ caller' = [caller EXCEPT ![c] = [at |-> "checked", ep |-> e, rid |-> NextOrdinal]]
  /\ UNCHANGED <<log, now>>

\* First half of reserve_live_call: take the lock, read the log, check both
\* budgets, number the reservation.  A failed check raises with nothing kept.
Check(c, e) ==
  /\ caller[c].at = "idle"
  /\ LockFree
  /\ CheckPasses(e)
  /\ flock' = c
  /\ caller' = [caller EXCEPT ![c] = [at |-> "checked", ep |-> e, rid |-> NextOrdinal]]
  /\ UNCHANGED <<log, now>>

\* Second half: append the reservation, stamped with a second clock read.
Reserve(c) ==
  /\ caller[c].at = "checked"
  /\ log' = Append(log, Line("live_reserved", caller[c].ep, caller[c].rid))
  /\ caller' = [caller EXCEPT ![c].at = "holding"]
  /\ flock' = NoCaller
  /\ UNCHANGED now

\* The call completed: its line names the reservation it converts.
RecordLiveCall(c) ==
  /\ caller[c].at = "holding"
  /\ log' = Append(log, Line("live_call", caller[c].ep, caller[c].rid))
  /\ caller' = [caller EXCEPT ![c] = NoReservation]
  /\ UNCHANGED <<now, flock>>

ReleaseReservation(c) ==
  /\ caller[c].at = "holding"
  /\ Cardinality(Lines("live_released")) < MaxReleases
  /\ log' = Append(log, Line("live_released", caller[c].ep, caller[c].rid))
  /\ caller' = [caller EXCEPT ![c] = NoReservation]
  /\ UNCHANGED <<now, flock>>

\* A timeout: the caller moves on and the reservation stays consumed.
LeaveOpen(c) ==
  /\ caller[c].at = "holding"
  /\ caller' = [caller EXCEPT ![c] = NoReservation]
  /\ UNCHANGED <<log, now, flock>>

\* The process dies; the operating system drops its advisory lock.
Crash(c) ==
  /\ caller[c].at # "idle"
  /\ caller' = [caller EXCEPT ![c] = NoReservation]
  /\ flock' = IF flock = c THEN NoCaller ELSE flock
  /\ UNCHANGED <<log, now>>

Tick == /\ now < MaxTime
        /\ now' = now + 1
        /\ UNCHANGED <<log, flock, caller>>

Init == /\ log = <<>>
        /\ now = 0
        /\ flock = NoCaller
        /\ caller = [c \in Callers |-> NoReservation]

Next == \/ \E c \in Callers : \/ \E e \in Endpoints : Check(c, e)
                              \/ Reserve(c)
                              \/ RecordLiveCall(c)
                              \/ ReleaseReservation(c)
                              \/ LeaveOpen(c)
                              \/ Crash(c)
        \/ Tick

Spec == Init /\ [][Next]_vars

-----------------------------------------------------------------------------
(* Properties.                                                             *)

TypeOK == /\ log \in Seq(Entry)
          /\ now \in Nat
          /\ flock \in Callers \cup {NoCaller}
          /\ caller \in [Callers -> CallerState]

\* However the processes interleave, time out, fail or die, the units consumed
\* on an endpoint (completed calls plus open reservations) never pass its
\* configured limit: the promise of reserve_live_call (RT-FS010-1).
EndpointWithinLimit == \A e \in Endpoints : ConsumedForEndpoint(e) <= MaxEndpoint[e]

\* A day can end with more units than the daily budget only by calls that were
\* reserved before midnight and recorded after it, at most one per other
\* process: the daily check of reserve_live_call bounds everything else.
DailyOvershootBounded ==
  \A d \in 0 .. Day(MaxTime) : ConsumedOnDay(d) < MaxDaily + Cardinality(Callers)

\* A process waiting for its answer always owns one open reservation of its
\* own: no other process's line settles it, so its unit is counted once.
HeldReservationsOpen ==
  /\ \A c \in Callers : caller[c].at = "holding" =>
       Cardinality({i \in OpenReservations : log[i].rid = caller[c].rid}) = 1
  /\ \A c, d \in {h \in Callers : caller[h].at = "holding"} :
       caller[c].rid = caller[d].rid => c = d

\* The inductive strengthening of the two invariants above, in named parts.

\* Reservation ids are ordinals already handed out, and never handed out twice.
OrdinalsUnique ==
  /\ \A i \in DOMAIN log : log[i].rid \in 1 .. Cardinality(Lines("live_reserved"))
  /\ \A i, j \in Lines("live_reserved") : log[i].rid = log[j].rid => i = j

\* Between check and append the process still holds the lock, its ordinal is
\* still the next one and its endpoint still has a unit left.
CheckStillValid ==
  \A c \in Callers : caller[c].at = "checked" =>
    /\ flock = c
    /\ caller[c].rid = NextOrdinal
    /\ ConsumedForEndpoint(caller[c].ep) < MaxEndpoint[caller[c].ep]

\* A held reservation is an open line of the log, on the caller's endpoint.
HeldIsOpen ==
  \A c \in Callers : caller[c].at = "holding" =>
    \E i \in OpenReservations : /\ log[i].rid = caller[c].rid
                                /\ log[i].ep = caller[c].ep

HeldApart ==
  \A c, d \in {h \in Callers : caller[h].at = "holding"} :
    caller[c].rid = caller[d].rid => c = d

LedgerInv == /\ TypeOK
             /\ OrdinalsUnique
             /\ CheckStillValid
             /\ HeldIsOpen
             /\ HeldApart
             /\ EndpointWithinLimit

\* Processes that may still append a unit of day d: their check has passed, or
\* the reservation their call converts was made on another day.
MayAdd(d) ==
  {c \in Callers : \/ caller[c].at = "checked"
                   \/ /\ caller[c].at = "holding"
                      /\ \A i \in OpenReservations :
                           log[i].rid = caller[c].rid => Day(log[i].time) # d}

NoLineAhead == \A i \in DOMAIN log : Day(log[i].time) <= Day(now)

\* The units of today and those that may still come are fewer than the bound,
\* which no day before, closed to reservations, has passed either.
DailyInv ==
  /\ LedgerInv
  /\ NoLineAhead
  /\ ConsumedOnDay(Day(now)) + Cardinality(MayAdd(Day(now))) < MaxDaily + Cardinality(Callers)
  /\ \A d \in Nat : ConsumedOnDay(d) < MaxDaily + Cardinality(Callers)

\* The ledger implements the abstract budget: check-and-reserve is one Take.
Budget == INSTANCE QuotaBudget WITH used <- [e \in Endpoints |-> ConsumedForEndpoint(e)]

ImplementsBudget == Budget!Spec
=============================================================================

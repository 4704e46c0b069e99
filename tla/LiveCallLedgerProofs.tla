------------------------ MODULE LiveCallLedgerProofs ------------------------
(***************************************************************************)
(* Theorems about LiveCallLedger, for any number of processes, endpoints   *)
(* and budgets.  Every operation appends at most one line; the lemmas of   *)
(* the first part say how one more line changes the sets of lines that the *)
(* budget queries count, and the invariant is then proved action by action.*)
(***************************************************************************)
EXTENDS LiveCallLedger, TLAPS, FiniteSetTheorems

Appended(l) == log' = Append(log, l)

(* Appending a line leaves the others where they are. *)
LEMMA AppendLine ==
  ASSUME log \in Seq(Entry), NEW l \in Entry, Appended(l)
  PROVE  /\ Len(log) + 1 \notin DOMAIN log
         /\ DOMAIN log' = DOMAIN log \cup {Len(log) + 1}
         /\ \A i \in DOMAIN log : log'[i] = log[i] /\ log[i] \in Entry
         /\ log'[Len(log) + 1] = l
         /\ log' \in Seq(Entry)
  BY DEF Appended

(* The sets of lines are finite, so they have a number of elements. *)
LEMMA LinesFinite ==
  ASSUME log \in Seq(Entry)
  PROVE  /\ \A S \in SUBSET DOMAIN log : IsFiniteSet(S) /\ Cardinality(S) \in Nat
         /\ \A event : Lines(event) \in SUBSET DOMAIN log
         /\ OpenReservations \in SUBSET DOMAIN log
         /\ \A e : UnitsOfEndpoint(e) \in SUBSET DOMAIN log
<1>1. IsFiniteSet(DOMAIN log)
  BY FS_Interval
<1>2. \A S \in SUBSET DOMAIN log : IsFiniteSet(S) /\ Cardinality(S) \in Nat
  BY <1>1, FS_Subset, FS_CardinalityType
<1>3. QED
  BY <1>2 DEF Lines, OpenReservations, UnitsOfEndpoint, Units

(* What one more line does to the lines of each kind. *)
LEMMA AppendLines ==
  ASSUME log \in Seq(Entry), NEW l \in Entry, Appended(l), NEW event
  PROVE  Lines(event)' = IF l.event = event THEN Lines(event) \cup {Len(log) + 1}
                                            ELSE Lines(event)
<1>1. ASSUME NEW i \in DOMAIN log
      PROVE  i \in Lines(event)' <=> i \in Lines(event)
  BY <1>1, AppendLine DEF Lines
<1>2. Len(log) + 1 \in Lines(event)' <=> l.event = event
  BY AppendLine DEF Lines
<1>3. Lines(event)' \subseteq DOMAIN log \cup {Len(log) + 1}
  BY AppendLine DEF Lines
<1>4. Lines(event) \subseteq DOMAIN log /\ Len(log) + 1 \notin DOMAIN log
  BY AppendLine DEF Lines
<1>5. \A i : i \in Lines(event)' <=>
              i \in Lines(event) \/ (i = Len(log) + 1 /\ l.event = event)
  BY <1>1, <1>2, <1>3, <1>4
<1>6. CASE l.event = event
  BY <1>5, <1>6
<1>7. CASE l.event # event
  BY <1>5, <1>7
<1>8. QED
  BY <1>6, <1>7

(* What one more line settles: nothing, or the reservation it names. *)
LEMMA AppendSettles ==
  ASSUME log \in Seq(Entry), NEW l \in Entry, Appended(l), NEW rid
  PROVE  Settled(rid)' <=> \/ Settled(rid)
                           \/ l.event \in {"live_call", "live_released"} /\ l.rid = rid
  BY AppendLine DEF Settled

-----------------------------------------------------------------------------
(* A reservation with the next ordinal opens one unit on its endpoint. *)
LEMMA ReserveCounts ==
  ASSUME log \in Seq(Entry), OrdinalsUnique, NEW l \in Entry, Appended(l),
         l.event = "live_reserved", l.rid = NextOrdinal
  PROVE  /\ Cardinality(Lines("live_reserved"))' = Cardinality(Lines("live_reserved")) + 1
         /\ OpenReservations' = OpenReservations \cup {Len(log) + 1}
         /\ \A e : ConsumedForEndpoint(e)' =
                 IF e = l.ep THEN ConsumedForEndpoint(e) + 1 ELSE ConsumedForEndpoint(e)
<1> DEFINE n == Len(log) + 1
<1>1. /\ Lines("live_reserved")' = Lines("live_reserved") \cup {n}
      /\ Lines("live_call")' = Lines("live_call")
  BY AppendLines
<1>2. \A rid : Settled(rid)' <=> Settled(rid)
  BY AppendSettles
<1>3. ~ Settled(l.rid)
  <2>1. Cardinality(Lines("live_reserved")) \in Nat
    BY LinesFinite
  <2>2. QED
    BY <2>1 DEF Settled, OrdinalsUnique, NextOrdinal
<1>4. n \notin DOMAIN log /\ log'[n] = l /\ \A i \in DOMAIN log : log'[i] = log[i]
  BY AppendLine
<1>5. OpenReservations' = OpenReservations \cup {n}
  <2>1. Lines("live_reserved") \subseteq DOMAIN log
    BY LinesFinite
  <2>2. ASSUME NEW i \in Lines("live_reserved")'
        PROVE  ~ Settled(log[i].rid)' <=> i = n \/ ~ Settled(log[i].rid)
    BY <1>1, <1>2, <1>3, <1>4, <2>1, <2>2
  <2>3. QED
    BY <1>1, <1>2, <1>3, <1>4, <2>1, <2>2 DEF OpenReservations
<1>6. ASSUME NEW e
      PROVE  UnitsOfEndpoint(e)' = IF e = l.ep THEN UnitsOfEndpoint(e) \cup {n}
                                               ELSE UnitsOfEndpoint(e)
  <2>1. Units \subseteq DOMAIN log
    BY LinesFinite DEF Units
  <2>2. Units' = Units \cup {n}
    BY <1>1, <1>5 DEF Units
  <2>3. \A i : i \in UnitsOfEndpoint(e)' <=>
                 i \in UnitsOfEndpoint(e) \/ (i = n /\ e = l.ep)
    BY <1>4, <2>1, <2>2 DEF UnitsOfEndpoint
  <2>4. CASE e = l.ep
    BY <2>3, <2>4
  <2>5. CASE e # l.ep
    BY <2>3, <2>5
  <2>6. QED
    BY <2>4, <2>5
<1>7. Cardinality(Lines("live_reserved"))' = Cardinality(Lines("live_reserved")) + 1
  <2>1. IsFiniteSet(Lines("live_reserved")) /\ n \notin Lines("live_reserved")
    BY <1>4, LinesFinite
  <2>2. QED
    BY <1>1, <2>1, FS_AddElement
<1>8. ASSUME NEW e
      PROVE  ConsumedForEndpoint(e)' =
               IF e = l.ep THEN ConsumedForEndpoint(e) + 1 ELSE ConsumedForEndpoint(e)
  <2>1. IsFiniteSet(UnitsOfEndpoint(e)) /\ n \notin UnitsOfEndpoint(e)
    BY <1>4, LinesFinite
  <2>2. Cardinality(UnitsOfEndpoint(e) \cup {n}) = Cardinality(UnitsOfEndpoint(e)) + 1
    BY <2>1, FS_AddElement
  <2>3. QED
    BY <1>6, <2>2 DEF ConsumedForEndpoint
<1>9. QED
  BY <1>5, <1>7, <1>8

(* A line that settles an open reservation closes exactly that one; if it is a  *)
(* completed call it takes the unit over, if it is a release it frees it.       *)
LEMMA SettleCounts ==
  ASSUME log \in Seq(Entry), OrdinalsUnique, NEW l \in Entry, Appended(l),
         l.event \in {"live_call", "live_released"},
         NEW i \in OpenReservations, log[i].rid = l.rid, log[i].ep = l.ep
  PROVE  /\ NextOrdinal' = NextOrdinal
         /\ OpenReservations' = OpenReservations \ {i}
         /\ \A e : ConsumedForEndpoint(e)' =
                 IF e = l.ep /\ l.event = "live_released"
                 THEN ConsumedForEndpoint(e) - 1 ELSE ConsumedForEndpoint(e)
<1> DEFINE n == Len(log) + 1
<1>1. Lines("live_reserved")' = Lines("live_reserved")
  BY AppendLines
<1>2. \A rid : Settled(rid)' <=> Settled(rid) \/ rid = l.rid
  BY AppendSettles
<1>3. /\ n \notin DOMAIN log
      /\ log'[n] = l
      /\ \A j \in DOMAIN log : log'[j] = log[j]
      /\ i \in DOMAIN log
      /\ i \in Lines("live_reserved")
      /\ Lines("live_reserved") \subseteq DOMAIN log
      /\ i \notin Lines("live_call")
  BY AppendLine, LinesFinite DEF OpenReservations, Lines
<1>4. OpenReservations' = OpenReservations \ {i}
  <2>1. \A j \in Lines("live_reserved") : log[j].rid = l.rid <=> j = i
    BY <1>3 DEF OrdinalsUnique
  <2>2. QED
    BY <1>1, <1>2, <1>3, <2>1 DEF OpenReservations
<1>5. NextOrdinal' = NextOrdinal
  BY <1>1 DEF NextOrdinal
<1>6. Units \subseteq DOMAIN log /\ i \in Units
  BY LinesFinite DEF Units
<1>7. Units' = IF l.event = "live_call" THEN (Units \ {i}) \cup {n} ELSE Units \ {i}
  BY <1>3, <1>4, AppendLines DEF Units
<1>8. ASSUME NEW e
      PROVE  /\ IsFiniteSet(UnitsOfEndpoint(e))
             /\ IsFiniteSet(UnitsOfEndpoint(e) \ {i})
             /\ n \notin UnitsOfEndpoint(e)
             /\ i \in UnitsOfEndpoint(e) <=> e = l.ep
             /\ Cardinality(UnitsOfEndpoint(e)) \in Nat
  <2>1. IsFiniteSet(UnitsOfEndpoint(e)) /\ Cardinality(UnitsOfEndpoint(e)) \in Nat
    BY LinesFinite
  <2>2. QED
    BY <1>3, <1>6, <2>1, FS_RemoveElement DEF UnitsOfEndpoint
<1>9. ASSUME NEW e
      PROVE  ConsumedForEndpoint(e)' =
               IF e = l.ep /\ l.event = "live_released"
               THEN ConsumedForEndpoint(e) - 1 ELSE ConsumedForEndpoint(e)
  <2>1. CASE e # l.ep
    <3>1. UnitsOfEndpoint(e)' = UnitsOfEndpoint(e)
      BY <1>3, <1>6, <1>7, <2>1 DEF UnitsOfEndpoint
    <3>2. QED
      BY <2>1, <3>1 DEF ConsumedForEndpoint
  <2>2. CASE e = l.ep /\ l.event = "live_released"
    <3>1. UnitsOfEndpoint(e)' = UnitsOfEndpoint(e) \ {i}
      BY <1>3, <1>6, <1>7, <2>2 DEF UnitsOfEndpoint
    <3>2. Cardinality(UnitsOfEndpoint(e) \ {i}) = Cardinality(UnitsOfEndpoint(e)) - 1
      BY <1>8, <2>2, FS_RemoveElement
    <3>3. QED
      BY <2>2, <3>1, <3>2 DEF ConsumedForEndpoint
  <2>3. CASE e = l.ep /\ l.event = "live_call"
    <3>1. UnitsOfEndpoint(e)' = (UnitsOfEndpoint(e) \ {i}) \cup {n}
      BY <1>3, <1>6, <1>7, <2>3 DEF UnitsOfEndpoint
    <3>2. Cardinality(UnitsOfEndpoint(e) \ {i}) = Cardinality(UnitsOfEndpoint(e)) - 1
      BY <1>8, <2>3, FS_RemoveElement
    <3>3. Cardinality((UnitsOfEndpoint(e) \ {i}) \cup {n})
            = Cardinality(UnitsOfEndpoint(e) \ {i}) + 1
      BY <1>8, FS_AddElement
    <3>4. Cardinality(UnitsOfEndpoint(e)) \in Nat
      BY <1>8
    <3>5. Cardinality((UnitsOfEndpoint(e) \ {i}) \cup {n}) = Cardinality(UnitsOfEndpoint(e))
      BY <3>2, <3>3, <3>4
    <3>6. l.event # "live_released"
      BY <2>3
    <3>7. QED
      BY <3>1, <3>5, <3>6 DEF ConsumedForEndpoint
  <2>4. QED
    BY <2>1, <2>2, <2>3
<1>10. QED
  BY <1>4, <1>5, <1>9

-----------------------------------------------------------------------------
(* Types of what the operations append and of the counts. *)
LEMMA CallerFacts ==
  ASSUME TypeOK, NEW c \in Callers
  PROVE  /\ caller[c].at \in {"idle", "checked", "holding"}
         /\ caller[c].at # "idle" => /\ caller[c].ep \in Endpoints
                                     /\ caller[c].rid \in Nat \ {0}
                                     /\ \A event \in Events :
                                          Line(event, caller[c].ep, caller[c].rid) \in Entry
  BY DEF TypeOK, CallerState, NoReservation, Line, Entry

LEMMA CountTypes ==
  ASSUME TypeOK
  PROVE  /\ Cardinality(Lines("live_reserved")) \in Nat
         /\ NextOrdinal \in Nat
         /\ \A e : ConsumedForEndpoint(e) \in Nat
<1>1. /\ Cardinality(Lines("live_reserved")) \in Nat
      /\ \A e : ConsumedForEndpoint(e) \in Nat
  BY LinesFinite DEF TypeOK, ConsumedForEndpoint
<1>2. QED
  BY <1>1 DEF NextOrdinal

LEMMA InitInv == Init => LedgerInv
<1> SUFFICES ASSUME Init PROVE LedgerInv
  OBVIOUS
<1>1. TypeOK
  BY LedgerAssumption DEF Init, TypeOK, CallerState
<1>2. \A c \in Callers : caller[c].at = "idle"
  BY DEF Init, NoReservation
<1>3. DOMAIN log = {}
  BY DEF Init
<1>4. \A e : UnitsOfEndpoint(e) = {}
  BY <1>3 DEF UnitsOfEndpoint, Units, OpenReservations, Lines
<1>5. \A e : ConsumedForEndpoint(e) = 0
  BY <1>4, FS_EmptySet DEF ConsumedForEndpoint
<1>6. EndpointWithinLimit
  BY <1>5, LedgerAssumption DEF EndpointWithinLimit
<1>7. OrdinalsUnique
  BY <1>3 DEF OrdinalsUnique, Lines
<1>8. QED
  BY <1>1, <1>2, <1>6, <1>7 DEF LedgerInv, CheckStillValid, HeldIsOpen, HeldApart

(* Appending the checked reservation preserves the invariant. *)
LEMMA ReserveInv ==
  ASSUME LedgerInv, NEW c \in Callers, Reserve(c)
  PROVE  LedgerInv'
<1> DEFINE l == Line("live_reserved", caller[c].ep, caller[c].rid)
           n == Len(log) + 1
<1>1. /\ TypeOK /\ OrdinalsUnique /\ log \in Seq(Entry) /\ now \in Nat
      /\ caller \in [Callers -> CallerState]
      /\ caller[c].at = "checked" /\ caller[c].ep \in Endpoints
      /\ caller[c].rid \in Nat \ {0}
      /\ caller[c].rid = NextOrdinal /\ flock = c
      /\ ConsumedForEndpoint(caller[c].ep) < MaxEndpoint[caller[c].ep]
      /\ flock' = NoCaller /\ now' = now
      /\ caller' = [caller EXCEPT ![c].at = "holding"]
  BY CallerFacts DEF LedgerInv, Reserve, TypeOK, CheckStillValid
<1>2. l \in Entry /\ Appended(l) /\ l.event = "live_reserved"
      /\ l.rid = NextOrdinal /\ l.ep = caller[c].ep
  BY <1>1, CallerFacts DEF Reserve, Appended, Line, Events
<1>3. /\ Cardinality(Lines("live_reserved"))' = Cardinality(Lines("live_reserved")) + 1
      /\ OpenReservations' = OpenReservations \cup {n}
      /\ \A e : ConsumedForEndpoint(e)' =
              IF e = l.ep THEN ConsumedForEndpoint(e) + 1 ELSE ConsumedForEndpoint(e)
  BY <1>1, <1>2, ReserveCounts
<1>4. /\ n \notin DOMAIN log
      /\ DOMAIN log' = DOMAIN log \cup {n}
      /\ \A i \in DOMAIN log : log'[i] = log[i]
      /\ log'[n] = l
      /\ log' \in Seq(Entry)
      /\ Lines("live_reserved")' = Lines("live_reserved") \cup {n}
      /\ Lines("live_reserved") \subseteq DOMAIN log
      /\ OpenReservations \subseteq DOMAIN log
  BY <1>1, <1>2, AppendLine, AppendLines, LinesFinite
<1>5. /\ caller'[c].at = "holding" /\ caller'[c].ep = caller[c].ep
      /\ caller'[c].rid = caller[c].rid
      /\ \A d \in Callers \ {c} : caller'[d] = caller[d]
      /\ caller' \in [Callers -> CallerState]
  BY <1>1 DEF CallerState, NoReservation
<1>6. TypeOK'
  BY <1>1, <1>4, <1>5 DEF TypeOK
<1>7. \A d \in Callers \ {c} : caller[d].at # "checked"
  BY <1>1 DEF LedgerInv, CheckStillValid
<1>8. OrdinalsUnique'
  <2>1. Cardinality(Lines("live_reserved"))' = Cardinality(Lines("live_reserved")) + 1
        /\ Cardinality(Lines("live_reserved")) \in Nat
        /\ l.rid = Cardinality(Lines("live_reserved")) + 1
    BY <1>1, <1>2, <1>3, CountTypes DEF NextOrdinal
  <2>2. \A i \in DOMAIN log : log[i].rid \in 1 .. Cardinality(Lines("live_reserved"))
    BY <1>1 DEF OrdinalsUnique
  <2>3. \A i \in DOMAIN log' :
          log'[i].rid \in 1 .. Cardinality(Lines("live_reserved"))'
    BY <1>4, <2>1, <2>2
  <2>4. \A i, j \in Lines("live_reserved")' : log'[i].rid = log'[j].rid => i = j
    BY <1>1, <1>4, <2>1, <2>2 DEF OrdinalsUnique
  <2>5. QED
    BY <2>3, <2>4 DEF OrdinalsUnique
<1>9. CheckStillValid'
  BY <1>5, <1>7 DEF CheckStillValid
<1>10. HeldIsOpen'
  <2>1. ASSUME NEW d \in Callers, caller'[d].at = "holding", d # c
        PROVE  \E i \in OpenReservations' : /\ log'[i].rid = caller'[d].rid
                                            /\ log'[i].ep = caller'[d].ep
    BY <1>3, <1>4, <1>5, <2>1 DEF LedgerInv, HeldIsOpen
  <2>2. /\ n \in OpenReservations'
        /\ log'[n].rid = caller'[c].rid
        /\ log'[n].ep = caller'[c].ep
    BY <1>1, <1>2, <1>3, <1>4, <1>5
  <2>3. QED
    BY <2>1, <2>2 DEF HeldIsOpen
<1>11. HeldApart'
  <2>1. ASSUME NEW d \in Callers, caller[d].at = "holding"
        PROVE  caller[d].rid # caller[c].rid
    <3>1. PICK i \in OpenReservations : log[i].rid = caller[d].rid
      BY <2>1 DEF LedgerInv, HeldIsOpen
    <3>2. log[i].rid \in 1 .. Cardinality(Lines("live_reserved"))
      BY <1>1, <1>4, <3>1 DEF OrdinalsUnique
    <3>3. caller[c].rid = Cardinality(Lines("live_reserved")) + 1
          /\ Cardinality(Lines("live_reserved")) \in Nat
      BY <1>1, CountTypes DEF NextOrdinal
    <3>4. QED
      BY <3>1, <3>2, <3>3
  <2>2. QED
    BY <1>5, <2>1 DEF HeldApart, LedgerInv
<1>12. EndpointWithinLimit'
  <2>1. ASSUME NEW e \in Endpoints
        PROVE  ConsumedForEndpoint(e)' <= MaxEndpoint[e]
    <3>1. ConsumedForEndpoint(e) \in Nat /\ MaxEndpoint[e] \in Nat
      BY <1>1, CountTypes, LedgerAssumption
    <3>2. ConsumedForEndpoint(e) <= MaxEndpoint[e]
      BY DEF LedgerInv, EndpointWithinLimit
    <3>3. QED
      BY <1>1, <1>2, <1>3, <3>1, <3>2
  <2>2. QED
    BY <2>1 DEF EndpointWithinLimit
<1>13. QED
  BY <1>6, <1>8, <1>9, <1>10, <1>11, <1>12 DEF LedgerInv

(* Settling a held reservation, by its call or by a release, preserves it. *)
LEMMA SettleInv ==
  ASSUME LedgerInv, NEW c \in Callers, NEW event \in {"live_call", "live_released"},
         caller[c].at = "holding",
         log' = Append(log, Line(event, caller[c].ep, caller[c].rid)),
         caller' = [caller EXCEPT ![c] = NoReservation],
         UNCHANGED <<now, flock>>
  PROVE  LedgerInv'
<1> DEFINE l == Line(event, caller[c].ep, caller[c].rid)
           n == Len(log) + 1
<1>1. /\ TypeOK /\ OrdinalsUnique /\ log \in Seq(Entry)
      /\ caller \in [Callers -> CallerState]
  BY DEF LedgerInv, TypeOK
<1>2. l \in Entry /\ Appended(l) /\ l.event = event
      /\ l.rid = caller[c].rid /\ l.ep = caller[c].ep
  BY <1>1, CallerFacts DEF Appended, Line, Events
<1>3. PICK i \in OpenReservations : log[i].rid = l.rid /\ log[i].ep = l.ep
  BY <1>2 DEF LedgerInv, HeldIsOpen
<1>4. /\ NextOrdinal' = NextOrdinal
      /\ OpenReservations' = OpenReservations \ {i}
      /\ \A e : ConsumedForEndpoint(e)' =
              IF e = l.ep /\ l.event = "live_released"
              THEN ConsumedForEndpoint(e) - 1 ELSE ConsumedForEndpoint(e)
  BY <1>1, <1>2, <1>3, SettleCounts
<1>5. /\ n \notin DOMAIN log
      /\ DOMAIN log' = DOMAIN log \cup {n}
      /\ \A j \in DOMAIN log : log'[j] = log[j]
      /\ log'[n] = l
      /\ log' \in Seq(Entry)
      /\ Lines("live_reserved")' = Lines("live_reserved")
      /\ Lines("live_reserved") \subseteq DOMAIN log
      /\ OpenReservations \subseteq Lines("live_reserved")
  BY <1>1, <1>2, AppendLine, AppendLines, LinesFinite DEF OpenReservations
<1>6. /\ caller'[c] = NoReservation
      /\ \A d \in Callers \ {c} : caller'[d] = caller[d]
      /\ caller' \in [Callers -> CallerState]
  BY <1>1 DEF CallerState
<1>7. TypeOK'
  BY <1>1, <1>5, <1>6 DEF TypeOK
<1>8. OrdinalsUnique'
  <2>1. l.rid \in 1 .. Cardinality(Lines("live_reserved"))
    BY <1>1, <1>3, <1>5 DEF OrdinalsUnique
  <2>2. QED
    BY <1>1, <1>5, <2>1 DEF OrdinalsUnique
<1>9. ASSUME NEW e
      PROVE  ConsumedForEndpoint(e)' <= ConsumedForEndpoint(e)
             /\ ConsumedForEndpoint(e)' \in Int
             /\ ConsumedForEndpoint(e) \in Nat
  <2>1. ConsumedForEndpoint(e) \in Nat
    BY <1>1, CountTypes
  <2>2. QED
    BY <1>4, <2>1
<1>10. CheckStillValid'
  <2>1. ASSUME NEW d \in Callers, caller'[d].at = "checked"
        PROVE  /\ flock' = d
               /\ caller'[d].rid = NextOrdinal'
               /\ (ConsumedForEndpoint(caller[d].ep) < MaxEndpoint[caller[d].ep])'
    <3>1. d # c /\ caller'[d] = caller[d]
      BY <1>6, <2>1 DEF NoReservation
    <3>2. PICK e \in Endpoints : e = caller[d].ep
      BY <1>1, <2>1, <3>1, CallerFacts
    <3>3. /\ flock = d
          /\ caller[d].rid = NextOrdinal
          /\ ConsumedForEndpoint(e) < MaxEndpoint[e]
          /\ MaxEndpoint[e] \in Nat
      BY <2>1, <3>1, <3>2, LedgerAssumption DEF LedgerInv, CheckStillValid
    <3>4. ConsumedForEndpoint(e)' < MaxEndpoint[e]
      BY <1>9, <3>3
    <3>5. ConsumedForEndpoint(caller[d].ep)' = ConsumedForEndpoint(e)'
      BY <3>1, <3>2 DEF ConsumedForEndpoint, UnitsOfEndpoint
    <3>6. QED
      BY <1>4, <3>1, <3>2, <3>3, <3>4, <3>5
  <2>2. QED
    BY <2>1 DEF CheckStillValid
<1>11. HeldIsOpen' /\ HeldApart'
  <2>1. ASSUME NEW d \in Callers, caller'[d].at = "holding"
        PROVE  \E j \in OpenReservations' : /\ log'[j].rid = caller'[d].rid
                                            /\ log'[j].ep = caller'[d].ep
    <3>1. d # c /\ caller'[d] = caller[d]
      BY <1>6, <2>1 DEF NoReservation
    <3>2. caller[d].rid # caller[c].rid
      BY <2>1, <3>1 DEF LedgerInv, HeldApart
    <3>3. PICK j \in OpenReservations : /\ log[j].rid = caller[d].rid
                                        /\ log[j].ep = caller[d].ep
      BY <2>1, <3>1 DEF LedgerInv, HeldIsOpen
    <3>4. QED
      BY <1>2, <1>3, <1>4, <1>5, <3>1, <3>2, <3>3
  <2>2. HeldApart'
    BY <1>6 DEF HeldApart, LedgerInv, NoReservation
  <2>3. QED
    BY <2>1, <2>2 DEF HeldIsOpen
<1>12. EndpointWithinLimit'
  <2>1. ASSUME NEW e \in Endpoints
        PROVE  ConsumedForEndpoint(e)' <= MaxEndpoint[e]
    <3>1. ConsumedForEndpoint(e) <= MaxEndpoint[e] /\ MaxEndpoint[e] \in Nat
      BY LedgerAssumption DEF LedgerInv, EndpointWithinLimit
    <3>2. QED
      BY <1>9, <3>1
  <2>2. QED
    BY <2>1 DEF EndpointWithinLimit
<1>13. QED
  BY <1>7, <1>8, <1>10, <1>11, <1>12 DEF LedgerInv

(* Steps that leave the log alone keep every count. *)
LEMMA SameLog ==
  ASSUME UNCHANGED log
  PROVE  /\ \A event : Lines(event)' = Lines(event)
         /\ OpenReservations' = OpenReservations
         /\ NextOrdinal' = NextOrdinal
         /\ \A e : ConsumedForEndpoint(e)' = ConsumedForEndpoint(e)
<1>1. \A event : Lines(event)' = Lines(event)
  BY DEF Lines
<1>2. \A rid : Settled(rid)' <=> Settled(rid)
  BY DEF Settled
<1>3. OpenReservations' = OpenReservations
  BY <1>1, <1>2 DEF OpenReservations
<1>4. \A e : ConsumedForEndpoint(e)' = ConsumedForEndpoint(e)
  BY <1>1, <1>3 DEF ConsumedForEndpoint, UnitsOfEndpoint, Units
<1>5. QED
  BY <1>1, <1>3, <1>4 DEF NextOrdinal

(* Taking the lock with room left on both budgets preserves the invariant. *)
LEMMA CheckInv ==
  ASSUME LedgerInv, NEW c \in Callers, NEW e \in Endpoints, Check(c, e)
  PROVE  LedgerInv'
<1> DEFINE mine == [at |-> "checked", ep |-> e, rid |-> NextOrdinal]
<1>1. /\ TypeOK /\ UNCHANGED <<log, now>> /\ flock = NoCaller /\ flock' = c
      /\ caller' = [caller EXCEPT ![c] = mine]
      /\ ConsumedForEndpoint(e) < MaxEndpoint[e]
  BY DEF LedgerInv, Check, LockFree, CheckPasses
<1>2. NextOrdinal \in Nat \ {0}
  BY <1>1, CountTypes DEF NextOrdinal
<1>3. /\ caller'[c] = mine
      /\ \A d \in Callers \ {c} : caller'[d] = caller[d]
      /\ caller' \in [Callers -> CallerState]
  BY <1>1, <1>2 DEF TypeOK, CallerState
<1>4. TypeOK'
  BY <1>1, <1>3 DEF TypeOK
<1>5. OrdinalsUnique' /\ EndpointWithinLimit'
  BY <1>1, SameLog DEF LedgerInv, OrdinalsUnique, EndpointWithinLimit
<1>6. \A d \in Callers : caller[d].at # "checked"
  BY <1>1, LedgerAssumption DEF LedgerInv, CheckStillValid
<1>7. CheckStillValid'
  <2>1. ASSUME NEW d \in Callers, caller'[d].at = "checked"
        PROVE  /\ flock' = d
               /\ caller'[d].rid = NextOrdinal'
               /\ (ConsumedForEndpoint(caller[d].ep) < MaxEndpoint[caller[d].ep])'
    <3>1. d = c /\ caller'[d].ep = e
      BY <1>3, <1>6, <2>1
    <3>2. ConsumedForEndpoint(caller[d].ep)' = ConsumedForEndpoint(e)'
      BY <3>1 DEF ConsumedForEndpoint, UnitsOfEndpoint
    <3>3. QED
      BY <1>1, <1>3, <3>1, <3>2, SameLog
  <2>2. QED
    BY <2>1 DEF CheckStillValid
<1>8. HeldIsOpen' /\ HeldApart'
  BY <1>1, <1>3, SameLog DEF LedgerInv, HeldIsOpen, HeldApart
<1>9. QED
  BY <1>4, <1>5, <1>7, <1>8 DEF LedgerInv

(* A timeout or a death only forgets: the reservation stays in the log. *)
LEMMA ForgetInv ==
  ASSUME LedgerInv, NEW c \in Callers,
         caller' = [caller EXCEPT ![c] = NoReservation],
         flock' \in {flock, IF flock = c THEN NoCaller ELSE flock},
         UNCHANGED <<log, now>>
  PROVE  LedgerInv'
<1>1. TypeOK /\ caller \in [Callers -> CallerState]
  BY DEF LedgerInv, TypeOK
<1>2. /\ caller'[c] = NoReservation
      /\ \A d \in Callers \ {c} : caller'[d] = caller[d]
      /\ caller' \in [Callers -> CallerState]
  BY <1>1 DEF CallerState
<1>3. TypeOK'
  BY <1>1, <1>2 DEF TypeOK
<1>4. OrdinalsUnique' /\ EndpointWithinLimit'
  BY SameLog DEF LedgerInv, OrdinalsUnique, EndpointWithinLimit
<1>5. CheckStillValid'
  <2>1. ASSUME NEW d \in Callers, caller'[d].at = "checked"
        PROVE  /\ flock' = d
               /\ caller'[d].rid = NextOrdinal'
               /\ (ConsumedForEndpoint(caller[d].ep) < MaxEndpoint[caller[d].ep])'
    <3>1. d # c /\ caller'[d] = caller[d]
      BY <1>2, <2>1 DEF NoReservation
    <3>2. ConsumedForEndpoint(caller[d].ep)' = ConsumedForEndpoint(caller[d].ep)
      <4>1. PICK e \in Endpoints : e = caller[d].ep
        BY <1>1, <2>1, <3>1, CallerFacts
      <4>2. ConsumedForEndpoint(caller[d].ep)' = ConsumedForEndpoint(e)'
        BY <3>1, <4>1 DEF ConsumedForEndpoint, UnitsOfEndpoint
      <4>3. QED
        BY <4>1, <4>2, SameLog
    <3>3. QED
      BY <2>1, <3>1, <3>2, SameLog DEF LedgerInv, CheckStillValid
  <2>2. QED
    BY <2>1 DEF CheckStillValid
<1>6. HeldIsOpen' /\ HeldApart'
  BY <1>2, SameLog DEF LedgerInv, HeldIsOpen, HeldApart, NoReservation
<1>7. QED
  BY <1>3, <1>4, <1>5, <1>6 DEF LedgerInv

LEMMA StepInv == LedgerInv /\ [Next]_vars => LedgerInv'
<1> SUFFICES ASSUME LedgerInv, [Next]_vars PROVE LedgerInv'
  OBVIOUS
<1>1. ASSUME NEW c \in Callers, NEW e \in Endpoints, Check(c, e) PROVE LedgerInv'
  BY <1>1, CheckInv
<1>2. ASSUME NEW c \in Callers, Reserve(c) PROVE LedgerInv'
  BY <1>2, ReserveInv
<1>3. ASSUME NEW c \in Callers, RecordLiveCall(c) PROVE LedgerInv'
  BY <1>3, SettleInv DEF RecordLiveCall
<1>4. ASSUME NEW c \in Callers, ReleaseReservation(c) PROVE LedgerInv'
  BY <1>4, SettleInv DEF ReleaseReservation
<1>5. ASSUME NEW c \in Callers, LeaveOpen(c) PROVE LedgerInv'
  BY <1>5, ForgetInv DEF LeaveOpen
<1>6. ASSUME NEW c \in Callers, Crash(c) PROVE LedgerInv'
  BY <1>6, ForgetInv DEF Crash
<1>7. CASE Tick \/ UNCHANGED vars
  <2>1. UNCHANGED <<log, flock, caller>> /\ now' \in Nat
    BY <1>7 DEF Tick, vars, LedgerInv, TypeOK
  <2>2. TypeOK'
    BY <2>1 DEF LedgerInv, TypeOK
  <2>3. OrdinalsUnique' /\ EndpointWithinLimit' /\ HeldIsOpen' /\ HeldApart'
    BY <2>1, SameLog DEF LedgerInv, OrdinalsUnique, EndpointWithinLimit, HeldIsOpen, HeldApart
  <2>4. CheckStillValid'
    <3>1. \A d \in Callers :
            ConsumedForEndpoint(caller[d].ep)' = ConsumedForEndpoint(caller[d].ep)
      BY <2>1 DEF ConsumedForEndpoint, UnitsOfEndpoint, Units, OpenReservations, Lines, Settled
    <3>2. QED
      BY <2>1, <3>1, SameLog DEF LedgerInv, CheckStillValid
  <2>5. QED
    BY <2>2, <2>3, <2>4 DEF LedgerInv
<1>8. QED
  BY <1>1, <1>2, <1>3, <1>4, <1>5, <1>6, <1>7 DEF Next

-----------------------------------------------------------------------------
(* The log, the lock and every process's reservation agree in every reachable *)
(* state: the inductive invariant of the ledger.                              *)
THEOREM LedgerInvariant == Spec => []LedgerInv
  BY InitInv, StepInv, PTL DEF Spec

(* The variables keep their types. *)
THEOREM TypeCorrect == Spec => []TypeOK
<1>1. LedgerInv => TypeOK
  BY DEF LedgerInv
<1>2. QED
  BY <1>1, LedgerInvariant, PTL

(* No interleaving of processes, timeouts and deaths takes more units on an    *)
(* endpoint than its limit: the promise of reserve_live_call, for any number   *)
(* of processes and any limits.                                                *)
THEOREM EndpointBudgetHolds == Spec => []EndpointWithinLimit
<1>1. LedgerInv => EndpointWithinLimit
  BY DEF LedgerInv
<1>2. QED
  BY <1>1, LedgerInvariant, PTL

(* Every process waiting for an answer owns exactly one open reservation, and  *)
(* no two own the same: record_live_call always converts the caller's own unit.*)
THEOREM HeldReservations == Spec => []HeldReservationsOpen
<1>1. LedgerInv => HeldReservationsOpen
  <2> SUFFICES ASSUME LedgerInv PROVE HeldReservationsOpen
    OBVIOUS
  <2>1. ASSUME NEW c \in Callers, caller[c].at = "holding"
        PROVE  Cardinality({i \in OpenReservations : log[i].rid = caller[c].rid}) = 1
    <3>1. PICK i \in OpenReservations : log[i].rid = caller[c].rid
      BY <2>1 DEF LedgerInv, HeldIsOpen
    <3>2. {j \in OpenReservations : log[j].rid = caller[c].rid} = {i}
      BY <3>1 DEF LedgerInv, OrdinalsUnique, OpenReservations
    <3>3. QED
      BY <3>2, FS_Singleton
  <2>2. QED
    BY <2>1 DEF HeldReservationsOpen, LedgerInv, HeldApart
<1>2. QED
  BY <1>1, LedgerInvariant, PTL

-----------------------------------------------------------------------------
(* Refinement: what a step does to the units in use per endpoint. *)
UsedUnits == [e \in Endpoints |-> ConsumedForEndpoint(e)]

(* Appending a reservation takes one unit of its endpoint; settling it keeps   *)
(* the unit for a completed call and gives it back for a release.              *)
LEMMA ReserveUnits ==
  ASSUME LedgerInv, NEW c \in Callers, Reserve(c)
  PROVE  \A f : ConsumedForEndpoint(f)' =
              IF f = caller[c].ep THEN ConsumedForEndpoint(f) + 1 ELSE ConsumedForEndpoint(f)
<1> DEFINE l == Line("live_reserved", caller[c].ep, caller[c].rid)
<1>1. l \in Entry /\ Appended(l) /\ l.event = "live_reserved"
      /\ l.rid = NextOrdinal /\ l.ep = caller[c].ep
  BY CallerFacts DEF LedgerInv, CheckStillValid, Reserve, Appended, Line, Events
<1>2. QED
  BY <1>1, ReserveCounts DEF LedgerInv, TypeOK

LEMMA SettleUnits ==
  ASSUME LedgerInv, NEW c \in Callers, NEW event \in {"live_call", "live_released"},
         caller[c].at = "holding",
         log' = Append(log, Line(event, caller[c].ep, caller[c].rid))
  PROVE  /\ \A f : ConsumedForEndpoint(f)' =
                 IF f = caller[c].ep /\ event = "live_released"
                 THEN ConsumedForEndpoint(f) - 1 ELSE ConsumedForEndpoint(f)
         /\ ConsumedForEndpoint(caller[c].ep) > 0
<1> DEFINE l == Line(event, caller[c].ep, caller[c].rid)
           e == caller[c].ep
<1>1. l \in Entry /\ Appended(l) /\ l.event = event
      /\ l.rid = caller[c].rid /\ l.ep = e
  BY CallerFacts DEF LedgerInv, Appended, Line, Events
<1>2. PICK i \in OpenReservations : log[i].rid = l.rid /\ log[i].ep = l.ep
  BY <1>1 DEF LedgerInv, HeldIsOpen
<1>3. \A f : ConsumedForEndpoint(f)' = IF f = e /\ event = "live_released"
                                     THEN ConsumedForEndpoint(f) - 1
                                     ELSE ConsumedForEndpoint(f)
  BY <1>1, <1>2, SettleCounts DEF LedgerInv, TypeOK
<1>4. i \in UnitsOfEndpoint(e)
  BY <1>1, <1>2 DEF UnitsOfEndpoint, Units
<1>5. IsFiniteSet(UnitsOfEndpoint(e)) /\ Cardinality(UnitsOfEndpoint(e)) \in Nat
  BY LinesFinite DEF LedgerInv, TypeOK
<1>6. Cardinality(UnitsOfEndpoint(e)) # 0
  BY <1>4, <1>5, FS_EmptySet
<1>7. QED
  BY <1>3, <1>5, <1>6 DEF ConsumedForEndpoint

LEMMA ReserveTakes ==
  ASSUME LedgerInv, NEW c \in Callers, Reserve(c)
  PROVE  \E e \in Endpoints : Budget!Take(e)
<1>1. PICK e \in Endpoints : e = caller[c].ep
  BY CallerFacts DEF LedgerInv, Reserve
<1>2. ConsumedForEndpoint(e) < MaxEndpoint[e]
  BY <1>1 DEF LedgerInv, CheckStillValid, Reserve
<1>3. UsedUnits' = [UsedUnits EXCEPT ![e] = @ + 1]
  BY <1>1, ReserveUnits DEF UsedUnits
<1>4. QED
  BY <1>2, <1>3 DEF UsedUnits, Budget!Take

LEMMA SettleGivesBackOrKeeps ==
  ASSUME LedgerInv, NEW c \in Callers, NEW event \in {"live_call", "live_released"},
         caller[c].at = "holding",
         log' = Append(log, Line(event, caller[c].ep, caller[c].rid))
  PROVE  \/ event = "live_call" /\ UsedUnits' = UsedUnits
         \/ \E e \in Endpoints : Budget!GiveBack(e)
<1>1. PICK e \in Endpoints : e = caller[c].ep
  BY CallerFacts DEF LedgerInv
<1>2. CASE event = "live_call"
  BY <1>2, SettleUnits DEF UsedUnits
<1>3. CASE event = "live_released"
  <2>1. UsedUnits' = [UsedUnits EXCEPT ![e] = @ - 1]
    BY <1>1, <1>3, SettleUnits DEF UsedUnits
  <2>2. ConsumedForEndpoint(e) > 0
    BY <1>1, SettleUnits
  <2>3. QED
    BY <2>1, <2>2 DEF UsedUnits, Budget!GiveBack
<1>4. QED
  BY <1>2, <1>3

(* The ledger implements the abstract budget: appending a reservation takes a   *)
(* unit, a release gives one back, and no other step changes what is in use.    *)
THEOREM LedgerImplementsBudget == Spec => ImplementsBudget
<1>1. Init => Budget!Init
  <2> SUFFICES ASSUME Init PROVE Budget!Init
    OBVIOUS
  <2>1. \A e : UnitsOfEndpoint(e) = {}
    BY DEF Init, UnitsOfEndpoint, Units, OpenReservations, Lines
  <2>2. QED
    BY <2>1, FS_EmptySet DEF Budget!Init, ConsumedForEndpoint
<1>2. LedgerInv /\ [Next]_vars => [Budget!Next]_UsedUnits
  <2> SUFFICES ASSUME LedgerInv, [Next]_vars PROVE [Budget!Next]_UsedUnits
    OBVIOUS
  <2>1. ASSUME NEW c \in Callers, Reserve(c) PROVE Budget!Next
    BY <2>1, ReserveTakes DEF Budget!Next
  <2>2. ASSUME NEW c \in Callers, RecordLiveCall(c) \/ ReleaseReservation(c)
        PROVE  [Budget!Next]_UsedUnits
    BY <2>2, SettleGivesBackOrKeeps DEF Budget!Next, RecordLiveCall, ReleaseReservation
  <2>3. ASSUME UNCHANGED log PROVE UNCHANGED UsedUnits
    BY <2>3, SameLog DEF UsedUnits
  <2>4. QED
    BY <2>1, <2>2, <2>3 DEF Next, vars, Check, LeaveOpen, Crash, Tick
<1>3. QED
  BY <1>1, <1>2, LedgerInvariant, PTL DEF Spec, ImplementsBudget, Budget!Spec, UsedUnits

-----------------------------------------------------------------------------
(* The daily budget. *)

(* Days are natural numbers, and time does not run back over them. *)
LEMMA DayFacts ==
  ASSUME NEW t \in Nat
  PROVE  Day(t) \in Nat /\ Day(t) <= Day(t + 1)
  BY LedgerAssumption DEF Day

(* Sets of processes are no larger than the set of all of them. *)
LEMMA CallersBound ==
  /\ Cardinality(Callers) \in Nat
  /\ \A S \in SUBSET Callers : /\ IsFiniteSet(S)
                               /\ Cardinality(S) \in Nat
                               /\ Cardinality(S) <= Cardinality(Callers)
  BY LedgerAssumption, FS_Subset, FS_CardinalityType

(* The units of a day are finitely many. *)
LEMMA DayUnitsFinite ==
  ASSUME log \in Seq(Entry), NEW d
  PROVE  /\ UnitsOnDay(d) \subseteq DOMAIN log
         /\ IsFiniteSet(UnitsOnDay(d))
         /\ ConsumedOnDay(d) \in Nat
<1>1. UnitsOnDay(d) \in SUBSET DOMAIN log
  BY LinesFinite DEF UnitsOnDay, Units
<1>2. QED
  BY <1>1, LinesFinite DEF ConsumedOnDay

(* A new reservation adds one unit to the day of its line. *)
LEMMA ReserveDay ==
  ASSUME log \in Seq(Entry), OrdinalsUnique, NEW l \in Entry, Appended(l),
         l.event = "live_reserved", l.rid = NextOrdinal, NEW d
  PROVE  ConsumedOnDay(d)' = IF Day(l.time) = d THEN ConsumedOnDay(d) + 1
                                                ELSE ConsumedOnDay(d)
<1> DEFINE n == Len(log) + 1
<1>1. /\ n \notin DOMAIN log
      /\ log'[n] = l
      /\ \A i \in DOMAIN log : log'[i] = log[i]
  BY AppendLine
<1>2. Units \subseteq DOMAIN log
  BY LinesFinite DEF Units
<1>3. Units' = Units \cup {n}
  BY ReserveCounts, AppendLines DEF Units
<1>4. \A i : i \in UnitsOnDay(d)' <=> i \in UnitsOnDay(d) \/ (i = n /\ Day(l.time) = d)
  BY <1>1, <1>2, <1>3 DEF UnitsOnDay, Day
<1>5. n \notin UnitsOnDay(d) /\ IsFiniteSet(UnitsOnDay(d))
  BY <1>1, DayUnitsFinite
<1>6. Cardinality(UnitsOnDay(d) \cup {n}) = Cardinality(UnitsOnDay(d)) + 1
  BY <1>5, FS_AddElement
<1>7. CASE Day(l.time) = d
  <2>1. UnitsOnDay(d)' = UnitsOnDay(d) \cup {n}
    BY <1>4, <1>7
  <2>2. QED
    BY <1>6, <1>7, <2>1 DEF ConsumedOnDay
<1>8. CASE Day(l.time) # d
  <2>1. UnitsOnDay(d)' = UnitsOnDay(d)
    BY <1>4, <1>8
  <2>2. QED
    BY <1>8, <2>1 DEF ConsumedOnDay
<1>9. QED
  BY <1>7, <1>8

(* Settling a reservation adds a unit only to the day of the new line, and only *)
(* when the reservation was made on another day.                                *)
LEMMA SettleDay ==
  ASSUME log \in Seq(Entry), OrdinalsUnique, NEW l \in Entry, Appended(l),
         l.event \in {"live_call", "live_released"},
         NEW i \in OpenReservations, log[i].rid = l.rid, log[i].ep = l.ep, NEW d
  PROVE  /\ ConsumedOnDay(d) \in Nat /\ ConsumedOnDay(d)' \in Nat
         /\ ConsumedOnDay(d)' <= ConsumedOnDay(d) + 1
         /\ d # Day(l.time) \/ d = Day(log[i].time) => ConsumedOnDay(d)' <= ConsumedOnDay(d)
<1> DEFINE n == Len(log) + 1
           rest == UnitsOnDay(d) \ {i}
<1>1. /\ n \notin DOMAIN log
      /\ log'[n] = l
      /\ \A j \in DOMAIN log : log'[j] = log[j]
      /\ i \in DOMAIN log
      /\ i \notin Lines("live_call")
  BY AppendLine, LinesFinite DEF OpenReservations, Lines
<1>2. Units \subseteq DOMAIN log /\ i \in Units
  BY LinesFinite DEF Units
<1>3. Units' \subseteq (Units \ {i}) \cup {n}
  BY <1>1, SettleCounts, AppendLines DEF Units
<1>4. UnitsOnDay(d)' \subseteq IF Day(l.time) = d THEN rest \cup {n} ELSE rest
  BY <1>1, <1>2, <1>3 DEF UnitsOnDay, Day
<1>5. /\ IsFiniteSet(UnitsOnDay(d)) /\ ConsumedOnDay(d) \in Nat
      /\ IsFiniteSet(rest) /\ n \notin rest
  BY <1>1, DayUnitsFinite, FS_RemoveElement
<1>6. /\ Cardinality(rest) \in Nat
      /\ Cardinality(rest) = IF i \in UnitsOnDay(d) THEN ConsumedOnDay(d) - 1
                                                    ELSE ConsumedOnDay(d)
  BY <1>5, FS_RemoveElement, FS_CardinalityType DEF ConsumedOnDay
<1>7. IsFiniteSet(rest \cup {n}) /\ Cardinality(rest \cup {n}) = Cardinality(rest) + 1
  BY <1>5, FS_AddElement
<1>8. i \in UnitsOnDay(d) <=> d = Day(log[i].time)
  BY <1>2 DEF UnitsOnDay
<1>9. CASE Day(l.time) = d
  <2>1. UnitsOnDay(d)' \subseteq rest \cup {n}
    BY <1>4, <1>9
  <2>2. ConsumedOnDay(d)' \in Nat /\ ConsumedOnDay(d)' <= Cardinality(rest) + 1
    BY <1>7, <2>1, FS_Subset, FS_CardinalityType DEF ConsumedOnDay
  <2>3. QED
    BY <1>5, <1>6, <1>8, <1>9, <2>2
<1>10. CASE Day(l.time) # d
  <2>1. UnitsOnDay(d)' \subseteq rest
    BY <1>4, <1>10
  <2>2. ConsumedOnDay(d)' \in Nat /\ ConsumedOnDay(d)' <= Cardinality(rest)
    BY <1>5, <2>1, FS_Subset, FS_CardinalityType DEF ConsumedOnDay
  <2>3. QED
    BY <1>5, <1>6, <2>2
<1>11. QED
  BY <1>9, <1>10

(* Who may still add a unit to a day: never more than all the processes. *)
LEMMA MayAddBound ==
  ASSUME NEW d
  PROVE  /\ IsFiniteSet(MayAdd(d)) /\ Cardinality(MayAdd(d)) \in Nat
         /\ Cardinality(MayAdd(d)) <= Cardinality(Callers)
  BY CallersBound DEF MayAdd

(* One process fewer. *)
LEMMA OneFewer ==
  ASSUME NEW d, NEW c \in MayAdd(d), NEW S \in SUBSET (MayAdd(d) \ {c})
  PROVE  Cardinality(S) + 1 <= Cardinality(MayAdd(d))
<1>1. IsFiniteSet(MayAdd(d)) /\ Cardinality(MayAdd(d)) \in Nat
  BY MayAddBound
<1>2. IsFiniteSet(MayAdd(d) \ {c})
      /\ Cardinality(MayAdd(d) \ {c}) = Cardinality(MayAdd(d)) - 1
  BY <1>1, FS_RemoveElement
<1>3. Cardinality(S) \in Nat /\ Cardinality(S) <= Cardinality(MayAdd(d) \ {c})
  BY <1>2, FS_Subset, FS_CardinalityType
<1>4. QED
  BY <1>1, <1>2, <1>3

(* What a step that appends nothing leaves of the days. *)
LEMMA SameDays ==
  ASSUME UNCHANGED log
  PROVE  \A d : ConsumedOnDay(d)' = ConsumedOnDay(d)
<1>1. \A d : UnitsOnDay(d)' = UnitsOnDay(d)
  BY SameLog DEF UnitsOnDay, Units, Day
<1>2. QED
  BY <1>1 DEF ConsumedOnDay

LEMMA DailyInit == Init => DailyInv
<1> SUFFICES ASSUME Init PROVE DailyInv
  OBVIOUS
<1>1. log \in Seq(Entry) /\ DOMAIN log = {}
  BY DEF Init
<1>2. \A d : ConsumedOnDay(d) = 0
  <2>1. \A d : UnitsOnDay(d) = {}
    BY <1>1 DEF UnitsOnDay, Units, OpenReservations, Lines
  <2>2. QED
    BY <2>1, FS_EmptySet DEF ConsumedOnDay
<1>3. MayAdd(Day(now)) = {}
  BY DEF Init, MayAdd, NoReservation
<1>4. Cardinality(MayAdd(Day(now))) = 0
  BY <1>3, FS_EmptySet
<1>5. QED
  BY <1>1, <1>2, <1>4, InitInv, CallersBound, LedgerAssumption DEF DailyInv, NoLineAhead

LEMMA DailyCheck ==
  ASSUME DailyInv, NEW c \in Callers, NEW e \in Endpoints, Check(c, e)
  PROVE  DailyInv'
<1>1. /\ UNCHANGED <<log, now>> /\ Day(now)' = Day(now)
      /\ ConsumedOnDay(Day(now)) < MaxDaily
  BY DEF Check, CheckPasses, Day
<1>2. ConsumedOnDay(Day(now)) \in Nat
  BY DayUnitsFinite DEF DailyInv, LedgerInv, TypeOK
<1>3. ConsumedOnDay(Day(now))' = ConsumedOnDay(Day(now))
  BY <1>1, SameDays
<1>4. /\ Cardinality(MayAdd(Day(now)))' \in Nat
      /\ Cardinality(MayAdd(Day(now)))' <= Cardinality(Callers)
  BY CallersBound DEF MayAdd
<1>5. ConsumedOnDay(Day(now))' + Cardinality(MayAdd(Day(now)))'
        < MaxDaily + Cardinality(Callers)
  BY <1>1, <1>2, <1>3, <1>4, CallersBound, LedgerAssumption
<1>6. NoLineAhead'
  BY <1>1 DEF DailyInv, NoLineAhead, Day
<1>7. LedgerInv'
  BY CheckInv DEF DailyInv
<1>8. QED
  BY <1>1, <1>5, <1>6, <1>7, SameDays DEF DailyInv

LEMMA DailyReserve ==
  ASSUME DailyInv, NEW c \in Callers, Reserve(c)
  PROVE  DailyInv'
<1> DEFINE l == Line("live_reserved", caller[c].ep, caller[c].rid)
           n == Len(log) + 1
<1>0. PICK today \in Nat : today = Day(now)
  BY DayFacts DEF DailyInv, LedgerInv, TypeOK
<1>1. /\ TypeOK /\ OrdinalsUnique /\ log \in Seq(Entry) /\ now \in Nat
      /\ caller \in [Callers -> CallerState]
      /\ caller[c].at = "checked" /\ caller[c].rid = NextOrdinal
      /\ now' = now /\ Day(now) = today /\ Day(now)' = today
      /\ caller' = [caller EXCEPT ![c].at = "holding"]
  BY <1>0 DEF DailyInv, LedgerInv, Reserve, TypeOK, CheckStillValid, Day
<1>2. /\ l \in Entry /\ Appended(l) /\ l.event = "live_reserved"
      /\ l.rid = NextOrdinal /\ l.time = now
  BY <1>1, CallerFacts DEF Reserve, Appended, Line, Events
<1>3. \A d : ConsumedOnDay(d)' = IF today = d THEN ConsumedOnDay(d) + 1
                                              ELSE ConsumedOnDay(d)
  BY <1>1, <1>2, ReserveDay
<1>4. /\ n \notin DOMAIN log /\ log'[n] = l
      /\ DOMAIN log' = DOMAIN log \cup {n}
      /\ \A i \in DOMAIN log : log'[i] = log[i]
      /\ OpenReservations' = OpenReservations \cup {n}
      /\ OpenReservations \subseteq DOMAIN log
  BY <1>1, <1>2, AppendLine, ReserveCounts, LinesFinite
<1>5. /\ caller'[c].at = "holding" /\ caller'[c].rid = caller[c].rid
      /\ \A d \in Callers \ {c} : caller'[d] = caller[d]
  BY <1>1 DEF CallerState, NoReservation
<1>6. MayAdd(today)' \in SUBSET (MayAdd(today) \ {c})
  <2>1. c \notin MayAdd(today)'
    BY <1>1, <1>2, <1>4, <1>5 DEF MayAdd, Day
  <2>2. \A d \in Callers \ {c} : d \in MayAdd(today)' => d \in MayAdd(today)
    BY <1>4, <1>5 DEF MayAdd, Day
  <2>3. QED
    BY <2>1, <2>2 DEF MayAdd
<1>7. Cardinality(MayAdd(today)') + 1 <= Cardinality(MayAdd(today))
  <2>1. c \in MayAdd(today)
    BY <1>1 DEF MayAdd
  <2>2. QED
    BY <1>6, <2>1, OneFewer
<1>8. /\ ConsumedOnDay(today) \in Nat /\ Cardinality(MayAdd(today)) \in Nat
      /\ Cardinality(MayAdd(today)') \in Nat
  BY <1>1, <1>6, DayUnitsFinite, MayAddBound, CallersBound DEF MayAdd
<1>9. /\ ConsumedOnDay(today) + Cardinality(MayAdd(today)) < MaxDaily + Cardinality(Callers)
      /\ \A d \in Nat : ConsumedOnDay(d) < MaxDaily + Cardinality(Callers)
      /\ MaxDaily + Cardinality(Callers) \in Nat
  BY <1>1, CallersBound, LedgerAssumption DEF DailyInv
<1>10. ConsumedOnDay(today)' + Cardinality(MayAdd(today)') < MaxDaily + Cardinality(Callers)
  BY <1>3, <1>7, <1>8, <1>9
<1>11. \A d \in Nat : ConsumedOnDay(d)' < MaxDaily + Cardinality(Callers)
  <2>1. ConsumedOnDay(today)' \in Nat
    BY <1>3, <1>8
  <2>2. ConsumedOnDay(today)' < MaxDaily + Cardinality(Callers)
    BY <1>8, <1>9, <1>10, <2>1
  <2>3. QED
    BY <1>3, <1>9, <2>2
<1>12. NoLineAhead'
  <2>1. \A i \in DOMAIN log' : Day(log'[i].time) <= today
    BY <1>1, <1>2, <1>4, DayFacts DEF DailyInv, NoLineAhead
  <2>2. QED
    BY <1>1, <2>1 DEF NoLineAhead, Day
<1>13. LedgerInv'
  BY ReserveInv DEF DailyInv
<1>14. ConsumedOnDay(Day(now))' = ConsumedOnDay(today)'
       /\ MayAdd(Day(now))' = MayAdd(today)'
  BY <1>1 DEF ConsumedOnDay, UnitsOnDay, MayAdd, Day
<1>15. QED
  BY <1>10, <1>11, <1>12, <1>13, <1>14 DEF DailyInv

LEMMA DailySettle ==
  ASSUME DailyInv, NEW c \in Callers, NEW event \in {"live_call", "live_released"},
         caller[c].at = "holding",
         log' = Append(log, Line(event, caller[c].ep, caller[c].rid)),
         caller' = [caller EXCEPT ![c] = NoReservation],
         UNCHANGED <<now, flock>>
  PROVE  DailyInv'
<1> DEFINE l == Line(event, caller[c].ep, caller[c].rid)
           n == Len(log) + 1
<1>0. PICK today \in Nat : today = Day(now)
  BY DayFacts DEF DailyInv, LedgerInv, TypeOK
<1>1. /\ TypeOK /\ OrdinalsUnique /\ log \in Seq(Entry) /\ now \in Nat
      /\ caller \in [Callers -> CallerState]
      /\ now' = now /\ Day(now) = today /\ Day(now)' = today
  BY <1>0 DEF DailyInv, LedgerInv, TypeOK, Day
<1>2. /\ l \in Entry /\ Appended(l) /\ l.event = event /\ l.time = now
      /\ l.rid = caller[c].rid /\ l.ep = caller[c].ep
  BY <1>1, CallerFacts DEF Appended, Line, Events
<1>3. PICK i \in OpenReservations : log[i].rid = l.rid /\ log[i].ep = l.ep
  BY <1>2 DEF DailyInv, LedgerInv, HeldIsOpen
<1>4. \A d : /\ ConsumedOnDay(d) \in Nat /\ ConsumedOnDay(d)' \in Nat
             /\ ConsumedOnDay(d)' <= ConsumedOnDay(d) + 1
             /\ d # today \/ d = Day(log[i].time) => ConsumedOnDay(d)' <= ConsumedOnDay(d)
  BY <1>1, <1>2, <1>3, SettleDay
<1>5. /\ n \notin DOMAIN log /\ log'[n] = l
      /\ DOMAIN log' = DOMAIN log \cup {n}
      /\ \A j \in DOMAIN log : log'[j] = log[j]
      /\ OpenReservations' = OpenReservations \ {i}
      /\ OpenReservations \subseteq DOMAIN log
  BY <1>1, <1>2, <1>3, AppendLine, SettleCounts, LinesFinite
<1>6. /\ caller'[c] = NoReservation
      /\ \A d \in Callers \ {c} : caller'[d] = caller[d]
  BY <1>1
<1>7. MayAdd(today)' \in SUBSET (MayAdd(today) \ {c})
  <2>1. c \notin MayAdd(today)'
    BY <1>6 DEF MayAdd, NoReservation
  <2>2. ASSUME NEW d \in Callers \ {c}, d \in MayAdd(today)' PROVE d \in MayAdd(today)
    <3>1. caller[d].at = "holding" => caller[d].rid # log[i].rid
      BY <1>2, <1>3 DEF DailyInv, LedgerInv, HeldApart
    <3>2. QED
      BY <1>5, <1>6, <2>2, <3>1 DEF MayAdd, Day
  <2>3. QED
    BY <2>1, <2>2 DEF MayAdd
<1>8. c \in MayAdd(today) \/ Day(log[i].time) = today
  <2>1. \A j \in OpenReservations : log[j].rid = caller[c].rid => j = i
    BY <1>1, <1>2, <1>3 DEF OrdinalsUnique, OpenReservations
  <2>2. QED
    BY <2>1 DEF MayAdd
<1>9. /\ Cardinality(MayAdd(today)) \in Nat /\ Cardinality(MayAdd(today)') \in Nat
      /\ Cardinality(MayAdd(today)') <= Cardinality(MayAdd(today))
      /\ MaxDaily + Cardinality(Callers) \in Nat
  <2>1. IsFiniteSet(MayAdd(today)) /\ MayAdd(today)' \subseteq MayAdd(today)
    BY <1>7, MayAddBound
  <2>2. QED
    BY <2>1, FS_Subset, FS_CardinalityType, CallersBound, LedgerAssumption
<1>10. /\ ConsumedOnDay(today) + Cardinality(MayAdd(today)) < MaxDaily + Cardinality(Callers)
       /\ \A d \in Nat : ConsumedOnDay(d) < MaxDaily + Cardinality(Callers)
  BY <1>1 DEF DailyInv
<1>11. ConsumedOnDay(today)' + Cardinality(MayAdd(today)') < MaxDaily + Cardinality(Callers)
  <2>1. CASE c \in MayAdd(today)
    <3>1. Cardinality(MayAdd(today)') + 1 <= Cardinality(MayAdd(today))
      BY <1>7, <2>1, OneFewer
    <3>2. QED
      BY <1>4, <1>9, <1>10, <3>1
  <2>2. CASE Day(log[i].time) = today
    <3>1. ConsumedOnDay(today)' <= ConsumedOnDay(today)
      BY <1>4, <2>2
    <3>2. QED
      BY <1>4, <1>9, <1>10, <3>1
  <2>3. QED
    BY <1>8, <2>1, <2>2
<1>12. \A d \in Nat : ConsumedOnDay(d)' < MaxDaily + Cardinality(Callers)
  <2>1. ConsumedOnDay(today)' < MaxDaily + Cardinality(Callers)
    BY <1>4, <1>9, <1>11
  <2>2. ASSUME NEW d \in Nat, d # today
        PROVE  ConsumedOnDay(d)' < MaxDaily + Cardinality(Callers)
    <3>1. ConsumedOnDay(d)' <= ConsumedOnDay(d)
      BY <1>4, <2>2
    <3>2. QED
      BY <1>4, <1>9, <1>10, <3>1
  <2>3. QED
    BY <2>1, <2>2
<1>13. NoLineAhead'
  <2>1. Day(log'[n].time) = today
    BY <1>1, <1>2, <1>5
  <2>2. \A j \in DOMAIN log : Day(log'[j].time) <= today
    BY <1>1, <1>5 DEF DailyInv, NoLineAhead
  <2>3. \A j \in DOMAIN log' : Day(log'[j].time) <= today
    BY <1>5, <2>1, <2>2
  <2>4. QED
    BY <1>1, <2>3 DEF NoLineAhead, Day
<1>14. LedgerInv'
  BY SettleInv DEF DailyInv
<1>15. ConsumedOnDay(Day(now))' = ConsumedOnDay(today)'
       /\ MayAdd(Day(now))' = MayAdd(today)'
  BY <1>1 DEF ConsumedOnDay, UnitsOnDay, MayAdd, Day
<1>16. QED
  BY <1>11, <1>12, <1>13, <1>14, <1>15 DEF DailyInv

(* Giving up, dying and the passing of time append nothing.  A new day starts   *)
(* with no unit, and at most every process may bring one over midnight.         *)
LEMMA DailySilent ==
  ASSUME DailyInv, LedgerInv', UNCHANGED log, now' \in {now, now + 1},
         now' = now => \A c \in Callers : caller'[c] \in {caller[c], NoReservation},
         now' # now => UNCHANGED caller
  PROVE  DailyInv'
<1>1. now \in Nat /\ log \in Seq(Entry)
  BY DEF DailyInv, LedgerInv, TypeOK
<1>2. PICK today \in Nat, next \in Nat :
        /\ today = Day(now) /\ next = Day(now') /\ Day(now)' = next /\ today <= next
  <2>1. Day(now)' = Day(now')
    BY DEF Day
  <2>2. Day(now) \in Nat /\ Day(now + 1) \in Nat /\ Day(now) <= Day(now + 1)
    <3>1. now + 1 \in Nat
      BY <1>1
    <3>2. Day(now) \in Nat /\ Day(now) <= Day(now + 1)
      BY <1>1, DayFacts
    <3>3. Day(now + 1) \in Nat
      BY <3>1, DayFacts
    <3>4. QED
      BY <3>2, <3>3
  <2>3. Day(now') \in Nat /\ Day(now) <= Day(now')
    BY <2>2
  <2>4. QED
    BY <2>1, <2>2, <2>3
<1>3. \A d : ConsumedOnDay(d)' = ConsumedOnDay(d)
  BY SameDays
<1>4. \A i \in DOMAIN log : Day(log[i].time) \in Nat /\ Day(log[i].time) <= today
  <2>1. \A i \in DOMAIN log : log[i] \in Entry
    BY <1>1
  <2>2. \A i \in DOMAIN log : Day(log[i].time) \in Nat
    BY <2>1, DayFacts DEF Entry
  <2>3. QED
    BY <1>2, <2>2 DEF DailyInv, NoLineAhead
<1>5. NoLineAhead'
  <2>1. \A i \in DOMAIN log : Day(log[i].time) <= next
    BY <1>2, <1>4
  <2>2. QED
    BY <1>2, <2>1 DEF NoLineAhead, Day
<1>6. ConsumedOnDay(next)' + Cardinality(MayAdd(next)') < MaxDaily + Cardinality(Callers)
  <2>1. /\ Cardinality(MayAdd(next)') \in Nat
        /\ Cardinality(MayAdd(next)') <= Cardinality(Callers)
    <3>1. MayAdd(next)' \in SUBSET Callers
      BY DEF MayAdd
    <3>2. QED
      BY <3>1, CallersBound
  <2>2. CASE next = today
    <3>1. MayAdd(today)' \subseteq MayAdd(today)
      <4>1. ASSUME NEW c \in Callers, c \in MayAdd(today)' PROVE c \in MayAdd(today)
        <5>1. caller'[c] = caller[c]
          BY <4>1 DEF MayAdd, NoReservation
        <5>2. QED
          BY <4>1, <5>1, SameLog DEF MayAdd, Day
      <4>2. QED
        BY <4>1 DEF MayAdd
    <3>2. Cardinality(MayAdd(today)') <= Cardinality(MayAdd(today))
          /\ Cardinality(MayAdd(today)) \in Nat
      BY <3>1, MayAddBound, FS_Subset
    <3>3. ConsumedOnDay(today) + Cardinality(MayAdd(today)) < MaxDaily + Cardinality(Callers)
      BY <1>2 DEF DailyInv
    <3>4. ConsumedOnDay(today) \in Nat /\ ConsumedOnDay(today)' = ConsumedOnDay(today)
      BY <1>1, <1>3, DayUnitsFinite
    <3>5. QED
      BY <2>1, <2>2, <3>2, <3>3, <3>4, CallersBound, LedgerAssumption
  <2>3. CASE next # today
    <3>1. UnitsOnDay(next) = {}
      <4>1. \A i \in UnitsOnDay(next) : i \in DOMAIN log /\ Day(log[i].time) = next
        BY <1>1, DayUnitsFinite DEF UnitsOnDay
      <4>2. QED
        BY <1>2, <1>4, <2>3, <4>1
    <3>2. ConsumedOnDay(next)' = 0
      BY <1>3, <3>1, FS_EmptySet DEF ConsumedOnDay
    <3>3. QED
      BY <2>1, <3>2, CallersBound, LedgerAssumption
  <2>4. QED
    BY <2>2, <2>3
<1>7. ConsumedOnDay(Day(now))' = ConsumedOnDay(next)'
      /\ MayAdd(Day(now))' = MayAdd(next)'
  BY <1>2 DEF ConsumedOnDay, UnitsOnDay, MayAdd, Day
<1>9. QED
  BY <1>3, <1>5, <1>6, <1>7 DEF DailyInv

LEMMA DailyStep == DailyInv /\ [Next]_vars => DailyInv'
<1> SUFFICES ASSUME DailyInv, [Next]_vars PROVE DailyInv'
  OBVIOUS
<1>1. LedgerInv /\ LedgerInv' /\ caller \in [Callers -> CallerState]
  BY StepInv DEF DailyInv, LedgerInv, TypeOK
<1>2. ASSUME NEW c \in Callers, NEW e \in Endpoints, Check(c, e) PROVE DailyInv'
  BY <1>2, DailyCheck
<1>3. ASSUME NEW c \in Callers, Reserve(c) PROVE DailyInv'
  BY <1>3, DailyReserve
<1>4. ASSUME NEW c \in Callers, RecordLiveCall(c) PROVE DailyInv'
  BY <1>4, DailySettle DEF RecordLiveCall
<1>5. ASSUME NEW c \in Callers, ReleaseReservation(c) PROVE DailyInv'
  BY <1>5, DailySettle DEF ReleaseReservation
<1>6. ASSUME NEW c \in Callers, LeaveOpen(c) \/ Crash(c) PROVE DailyInv'
  <2>1. /\ UNCHANGED <<log, now>>
        /\ \A d \in Callers : caller'[d] \in {caller[d], NoReservation}
    BY <1>1, <1>6 DEF LeaveOpen, Crash
  <2>2. QED
    BY <1>1, <2>1, DailySilent
<1>7. CASE Tick
  <2>1. UNCHANGED <<log, caller>> /\ now' = now + 1
    BY <1>7 DEF Tick
  <2>2. QED
    BY <1>1, <2>1, DailySilent
<1>8. CASE UNCHANGED vars
  <2>1. UNCHANGED <<log, caller, now>>
    BY <1>8 DEF vars
  <2>2. QED
    BY <1>1, <2>1, DailySilent
<1>9. QED
  BY <1>2, <1>3, <1>4, <1>5, <1>6, <1>7, <1>8 DEF Next

(* Midnight is the only way past the daily budget: however many processes share *)
(* the ledger, no day ends with MaxDaily units and one for each of them, because *)
(* a process appends a unit to a later day only for a reservation it already     *)
(* holds.                                                                        *)
THEOREM DailyBudgetHolds == Spec => []DailyOvershootBounded
<1>1. DailyInv => DailyOvershootBounded
  BY DEF DailyInv, DailyOvershootBounded
<1>2. QED
  BY <1>1, DailyInit, DailyStep, PTL DEF Spec
=============================================================================

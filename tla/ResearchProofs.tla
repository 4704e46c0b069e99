--------------------------- MODULE ResearchProofs ----------------------------
(* Proofs about the inputs of a research run.  Of its targets, for every      *)
(* calendar and every accepted family: the grid is in order, trading days are *)
(* counted in order, and the windows of clean records share no time.  Of its  *)
(* features, for every store and every entry of the library: what was usable  *)
(* by the stamp of a feature gives the feature again.                         *)
EXTENDS MCResearch, FiniteSetTheorems, NaturalsInduction, WellFoundedInduction, TLAPS

-----------------------------------------------------------------------------
(* Days in order.                                                             *)

Days(S) == S \in SUBSET Nat /\ IsFiniteSet(S)
PlaceIn(S) == [x \in S |-> 1 + Cardinality({y \in S : y < x})]

LEMMA SortedIs == \A S : Sorted(S) = [n \in 1 .. Cardinality(S) |-> CHOOSE x \in S : PlaceIn(S)[x] = n]
  BY DEF Sorted, InOrder, PlaceIn

\* The days before a day are fewer than those before a later one.
LEMMA PlaceRises ==
  ASSUME NEW S, Days(S), NEW x \in S, NEW y \in S, x < y
  PROVE  PlaceIn(S)[x] < PlaceIn(S)[y]
<1> DEFINE A == {z \in S : z < x}
           B == {z \in S : z < y}
<1>0. S \subseteq Nat /\ x \in Nat /\ y \in Nat /\ IsFiniteSet(S)
  BY DEF Days
<1>1. IsFiniteSet(B) /\ Cardinality(B) \in Nat
  <2>1. B \in SUBSET S
    OBVIOUS
  <2> HIDE DEF B
  <2> QED
    BY <1>0, <2>1, FS_Subset, FS_CardinalityType
<1>2. A \in SUBSET B /\ x \in B /\ x \notin A
  <2>1. \A z \in S : z \in Nat
    BY <1>0
  <2>2. \A z \in S : z < x => z < y
    BY <1>0, <2>1
  <2>3. A \in SUBSET B
    BY <2>2
  <2>4. x \in B /\ ~ (x < x)
    BY <1>0
  <2> QED
    BY <2>3, <2>4
<1>3. IsFiniteSet(A) /\ Cardinality(A) \in Nat /\ Cardinality(A) <= Cardinality(B) /\ Cardinality(A) # Cardinality(B)
  <2> HIDE DEF A, B
  <2>1. IsFiniteSet(A) /\ Cardinality(A) <= Cardinality(B) /\ (Cardinality(B) = Cardinality(A) => B = A)
    BY <1>1, <1>2, FS_Subset
  <2> QED
    BY <1>2, <2>1, FS_CardinalityType
<1>4. PlaceIn(S)[x] = 1 + Cardinality(A) /\ PlaceIn(S)[y] = 1 + Cardinality(B)
  BY DEF PlaceIn
<1> HIDE DEF A, B
<1> QED
  BY <1>1, <1>3, <1>4

\* Every number from 1 is the place of a day.
LEMMA PlacesTaken ==
  ASSUME NEW S, Days(S)
  PROVE  PlaceIn(S) \in Surjection(S, 1 .. Cardinality(S))
<1> DEFINE n == Cardinality(S)
<1>0. IsFiniteSet(S) /\ n \in Nat
  BY FS_CardinalityType DEF Days
<1>1. IsFiniteSet(1 .. n) /\ Cardinality(1 .. n) = n
  <2> HIDE DEF n
  <2> QED
    BY <1>0, FS_Interval
<1>2. ASSUME NEW x \in S PROVE PlaceIn(S)[x] \in 1 .. n
  <2> DEFINE A == {y \in S : y < x}
  <2>1. A \in SUBSET S /\ x \notin A
    BY DEF Days
  <2>2. PlaceIn(S)[x] = 1 + Cardinality(A)
    BY DEF PlaceIn
  <2> HIDE DEF A
  <2>3. IsFiniteSet(A) /\ Cardinality(A) <= n /\ Cardinality(A) # n /\ Cardinality(A) \in Nat
    BY <1>0, <2>1, FS_Subset, FS_CardinalityType
  <2> HIDE DEF n
  <2> QED
    BY <1>0, <2>2, <2>3
<1>3. PlaceIn(S) \in [S -> 1 .. n]
  <2>1. PlaceIn(S) = [x \in S |-> PlaceIn(S)[x]]
    BY DEF PlaceIn
  <2> QED
    BY <1>2, <2>1
<1>4. ASSUME NEW x \in S, NEW y \in S, PlaceIn(S)[x] = PlaceIn(S)[y] PROVE x = y
  <2>1. x \in Nat /\ y \in Nat
    BY DEF Days
  <2>2. PlaceIn(S)[x] \in Int
    BY <1>0, <1>2
  <2>3. ~ (x < y) /\ ~ (y < x)
    BY <1>4, <2>2, PlaceRises
  <2> QED
    BY <2>1, <2>3
<1>5. PlaceIn(S) \in Injection(S, 1 .. n)
  BY <1>3, <1>4 DEF Injection, IsInjective
<1> HIDE DEF n
<1> QED
  BY <1>1, <1>5, FS_Injection DEF n

\* The members of a set of days, each once, the earlier before the later.
LEMMA SortedRises ==
  ASSUME NEW S, Days(S)
  PROVE  /\ Sorted(S) \in Seq(S)
         /\ \A i, j \in DOMAIN Sorted(S) : i < j => Sorted(S)[i] < Sorted(S)[j]
<1> DEFINE n == Cardinality(S)
           grid == Sorted(S)
<1>0. n \in Nat
  BY FS_CardinalityType DEF Days
<1>1. ASSUME NEW i \in 1 .. n PROVE grid[i] \in S /\ PlaceIn(S)[grid[i]] = i
  <2>1. \E x \in S : PlaceIn(S)[x] = i
    BY PlacesTaken DEF Surjection
  <2>2. grid[i] = CHOOSE x \in S : PlaceIn(S)[x] = i
    BY SortedIs
  <2> HIDE DEF grid
  <2> QED
    BY <2>1, <2>2
<1>2. grid = [i \in 1 .. n |-> grid[i]]
  <2>1. grid = [m \in 1 .. n |-> CHOOSE x \in S : PlaceIn(S)[x] = m]
    BY SortedIs
  <2> HIDE DEF grid, n
  <2> QED
    BY <2>1
<1>3. grid \in Seq(S) /\ DOMAIN grid = 1 .. n
  <2> HIDE DEF grid, n
  <2> QED
    BY <1>0, <1>1, <1>2
<1>4. ASSUME NEW i \in 1 .. n, NEW j \in 1 .. n, i < j PROVE grid[i] < grid[j]
  <2>0. grid[i] \in S /\ grid[j] \in S
    BY <1>1
  <2>1. grid[i] \in Nat /\ grid[j] \in Nat /\ i \in Int /\ j \in Int
    <3> HIDE DEF grid, n
    <3>1. i \in Int /\ j \in Int
      BY <1>0
    <3>2. \A x \in S : x \in Nat
      BY DEF Days
    <3> QED
      BY <2>0, <3>1, <3>2
  <2>2. grid[i] # grid[j]
    BY <1>1, <1>4, <2>1
  <2>3. ~ (grid[j] < grid[i])
    BY <1>1, <1>4, <2>1, PlaceRises
  <2> QED
    BY <2>1, <2>2, <2>3
<1> QED
  BY <1>3, <1>4

\* A grid of a calendar, whatever its rule: some of its days, in order.
LEMMA GridRises ==
  ASSUME NEW days, Days(days), NEW kind, NEW anchor
  PROVE  LET grid == RebalanceGrid(kind, days, anchor)
         IN  /\ grid \in Seq(days)
             /\ \A i, j \in DOMAIN grid : i < j => grid[i] < grid[j]
<1>1. ASSUME NEW S \in SUBSET days
      PROVE  /\ Sorted(S) \in Seq(days)
             /\ \A i, j \in DOMAIN Sorted(S) : i < j => Sorted(S)[i] < Sorted(S)[j]
  <2>1. Days(S)
    BY FS_Subset DEF Days
  <2>2. Sorted(S) \in Seq(S) /\ \A i, j \in DOMAIN Sorted(S) : i < j => Sorted(S)[i] < Sorted(S)[j]
    BY <2>1, SortedRises
  <2> QED
    BY <2>2
<1>2. \E S \in SUBSET days : RebalanceGrid(kind, days, anchor) = Sorted(S)
  <2>1. CASE kind = "month_end"
    <3> DEFINE S == {d \in days : \A e \in days : MonthOf(e) = MonthOf(d) => e <= d}
    <3>1. S \in SUBSET days /\ RebalanceGrid(kind, days, anchor) = Sorted(S)
      BY <2>1 DEF RebalanceGrid, MonthEndGrid
    <3> QED
      BY <3>1
  <2>2. CASE kind # "month_end"
    <3> DEFINE early == {d \in days : d % 7 <= anchor}
               S == {d \in early : \A e \in early : e \div 7 = d \div 7 => e <= d}
    <3>1. S \in SUBSET days /\ RebalanceGrid(kind, days, anchor) = Sorted(S)
      BY <2>2 DEF RebalanceGrid, WeeklyGrid
    <3> QED
      BY <3>1
  <2> QED
    BY <2>1, <2>2
<1> QED
  BY <1>1, <1>2

-----------------------------------------------------------------------------
(* Trading days, counted.                                                     *)

Between(days, d, e) == {x \in days : d < x /\ x <= e}

\* A shift goes forward over as many days as it was asked to.
LEMMA ShiftGoes ==
  ASSUME NEW days, NEW d, NEW n, ShiftTradingDays(days, d, n) # None
  PROVE  LET e == ShiftTradingDays(days, d, n)
         IN e \in days /\ e >= d /\ Cardinality(Between(days, d, e)) = n
<1> DEFINE later == {e \in days : e >= d /\ Cardinality(Between(days, d, e)) = n}
<1>1. ShiftTradingDays(days, d, n) = IF later = {} THEN None ELSE CHOOSE e \in later : TRUE
  BY DEF ShiftTradingDays, Between
<1>2. later # {} /\ ShiftTradingDays(days, d, n) = CHOOSE e \in later : TRUE
  BY <1>1
<1>3. ShiftTradingDays(days, d, n) \in later
  <2> HIDE DEF later
  <2> QED
    BY <1>2
<1> QED
  BY <1>3

\* A shift keeps days in order.
LEMMA ShiftKeepsOrder ==
  ASSUME NEW days, Days(days), NEW d \in Nat, NEW e \in Nat, d <= e, NEW n,
         ShiftTradingDays(days, d, n) # None, ShiftTradingDays(days, e, n) # None
  PROVE  ShiftTradingDays(days, d, n) <= ShiftTradingDays(days, e, n)
<1> DEFINE a == ShiftTradingDays(days, d, n)
           b == ShiftTradingDays(days, e, n)
           A == Between(days, d, a)
           B == Between(days, e, b)
<1>1. a \in days /\ a >= d /\ Cardinality(A) = n
  BY ShiftGoes
<1>2. b \in days /\ b >= e /\ Cardinality(B) = n
  BY ShiftGoes
<1>3. a \in Nat /\ b \in Nat
  BY <1>1, <1>2 DEF Days
<1> HIDE DEF a, b
<1>4. SUFFICES ASSUME b < a PROVE FALSE
  BY <1>3 DEF a, b
<1>5. B \in SUBSET A /\ a \in A /\ a \notin B
  <2>1. \A x \in days : x \in Nat
    BY DEF Days
  <2>2. \A x \in days : e < x /\ x <= b => d < x /\ x <= a
    BY <1>3, <1>4, <2>1
  <2>3. d < a /\ a <= a /\ ~ (a <= b)
    BY <1>2, <1>3, <1>4
  <2>4. B \in SUBSET A
    BY <2>2 DEF Between
  <2>5. a \in A /\ a \notin B
    BY <1>1, <2>3 DEF Between
  <2> QED
    BY <2>4, <2>5
<1>6. IsFiniteSet(A)
  <2>1. A \in SUBSET days
    BY DEF Between
  <2> HIDE DEF A
  <2> QED
    BY <2>1, FS_Subset DEF Days
<1> HIDE DEF A, B
<1>7. Cardinality(A) = Cardinality(B) => A = B
  BY <1>5, <1>6, FS_Subset
<1> QED
  BY <1>1, <1>2, <1>5, <1>7 DEF A, B

\* A shift of one day or more goes past the day.
LEMMA ShiftGoesPast ==
  ASSUME NEW days, Days(days), NEW d \in Nat, NEW n \in Nat, n > 0, ShiftTradingDays(days, d, n) # None
  PROVE  d < ShiftTradingDays(days, d, n)
<1> DEFINE e == ShiftTradingDays(days, d, n)
           S == Between(days, d, e)
<1>1. e \in days /\ e >= d /\ Cardinality(S) = n
  BY ShiftGoes
<1>2. e \in Nat
  BY <1>1 DEF Days
<1> HIDE DEF e
<1>3. S # {}
  <2> HIDE DEF S
  <2> QED
    BY <1>1, FS_EmptySet
<1>4. PICK x \in days : d < x /\ x <= e
  BY <1>3 DEF Between
<1>5. x \in Nat
  BY DEF Days
<1> QED
  BY <1>2, <1>4, <1>5 DEF e

\* Between a day and the next there is no other.
LEMMA NextDay ==
  ASSUME NEW days, Days(days), NEW d \in Nat, NEW n, n = 1, ShiftTradingDays(days, d, n) # None, NEW x \in days
  PROVE  ~ (d < x /\ x < ShiftTradingDays(days, d, n))
<1> DEFINE e == ShiftTradingDays(days, d, n)
           S == Between(days, d, e)
<1>1. e \in days /\ e >= d /\ Cardinality(S) = 1
  BY ShiftGoes
<1>2. x \in Nat /\ e \in Nat
  BY <1>1 DEF Days
<1>3. IsFiniteSet(S)
  <2>1. S \in SUBSET days
    BY DEF Between
  <2> HIDE DEF S
  <2> QED
    BY <2>1, FS_Subset DEF Days
<1> HIDE DEF e
<1>4. SUFFICES ASSUME d < x, x < e PROVE FALSE
  BY DEF e
<1>5. x \in S /\ e \in S /\ x # e
  BY <1>1, <1>2, <1>4 DEF Between
<1> HIDE DEF S
<1>6. PICK y : S = {y}
  BY <1>1, <1>3, FS_Singleton
<1> QED
  BY <1>5, <1>6

-----------------------------------------------------------------------------
(* Windows of one family.                                                     *)

\* What a family that was accepted is.
Family(spec) ==
  /\ spec.horizon \in DOMAIN HorizonFamily
  /\ spec.basis \in DOMAIN Bases
  /\ spec.overlap \in {"pooled_as_paper", "purged"}
  /\ spec.mode \in {"same_close", "one_day_lag", "t_plus_k_moc", "next_open"}
  /\ spec.mode = "t_plus_k_moc" /\ spec.k # None => spec.k \in Nat
  /\ ~ Refused(spec)

LEMMA FamilyCounts ==
  ASSUME NEW spec, Family(spec)
  PROVE  /\ Steps(spec) \in Nat \ {0}
         /\ ExecutionDayShift(spec) \in Nat
         /\ StartField(spec) = "open" => ExecutionDayShift(spec) = 1
<1>1. Steps(spec) \in Nat \ {0}
  BY DEF Family, Steps, HorizonFamily
<1>2. ~ Refused(spec)
  BY DEF Family
<1>3. IF spec.mode = "t_plus_k_moc" THEN spec.k # None /\ ~ (spec.k < 1) ELSE spec.k = None
  BY <1>2 DEF Refused
<1>4. StartField(spec) = IF spec.mode = "next_open" THEN "open" ELSE "close"
  BY <1>2 DEF Refused, ExecutionField
<1>5. ExecutionDayShift(spec) \in Nat
  BY <1>3 DEF Family, ExecutionDayShift
<1>6. StartField(spec) = "open" => ExecutionDayShift(spec) = 1
  BY <1>4 DEF ExecutionDayShift
<1> QED
  BY <1>1, <1>5, <1>6

\* The window of a grid point, written out.
LEMMA PointIs ==
  ASSUME NEW spec, Family(spec), NEW days, NEW grid, NEW i, PointTiming(spec, days, grid, i) # None
  PROVE  LET n == ExecutionDayShift(spec)
             p == PointTiming(spec, days, grid, i)
             start == ShiftTradingDays(days, grid[i], n)
             over == ShiftTradingDays(days, grid[i + Steps(spec)], n)
         IN  /\ ~ (i + Steps(spec) > Len(grid))
             /\ p.index = i /\ p.start = start
             /\ start # None /\ p.targetStart = Instant(start, StartField(spec))
             /\ StartField(spec) = EndField(spec) => over # None /\ p.targetEnd = Instant(over, EndField(spec))
             /\ StartField(spec) # EndField(spec) /\ spec.basis # "close_to_open" =>
                  /\ StartField(spec) = "open" /\ EndField(spec) = "close"
                  /\ p.targetEnd = Instant(grid[i + Steps(spec)], "close")
             /\ spec.basis = "close_to_open" =>
                  /\ over # None /\ ShiftTradingDays(days, over, 1) # None
                  /\ p.end = ShiftTradingDays(days, over, 1)
<1> DEFINE h == Steps(spec)
           shift(d) == IF d = None THEN None ELSE ShiftTradingDays(days, d, ExecutionDayShift(spec))
           end == IF StartField(spec) = EndField(spec) THEN shift(grid[i + h])
                  ELSE IF spec.basis = "open_to_close" THEN grid[i + h]
                  ELSE IF shift(grid[i + h]) = None THEN None
                  ELSE ShiftTradingDays(days, shift(grid[i + h]), 1)
           p == PointTiming(spec, days, grid, i)
<1>1. p = IF i + h > Len(grid) THEN None
          ELSE IF None \in {shift(grid[i]), shift(grid[i + 1]), end} THEN None
          ELSE [index |-> i, decision |-> grid[i], start |-> shift(grid[i]), end |-> end,
                targetStart |-> Instant(shift(grid[i]), StartField(spec)),
                targetEnd |-> Instant(end, EndField(spec)),
                holdingEnd |-> Instant(shift(grid[i + 1]), StartField(spec))]
  BY DEF PointTiming
<1>2. /\ StartField(spec) # EndField(spec) /\ spec.basis # "close_to_open" =>
           spec.basis = "open_to_close" /\ StartField(spec) = "open" /\ EndField(spec) = "close"
      /\ spec.basis = "close_to_open" => StartField(spec) # EndField(spec)
  BY DEF Family, StartField, EndField, Bases
<1> HIDE DEF h, p
<1>3. /\ ~ (i + h > Len(grid)) /\ None \notin {shift(grid[i]), shift(grid[i + 1]), end}
      /\ p.index = i /\ p.targetStart = Instant(shift(grid[i]), StartField(spec))
      /\ p.start = shift(grid[i]) /\ p.end = end /\ p.targetEnd = Instant(end, EndField(spec))
  <2>0. p # None
    BY DEF p
  <2> HIDE DEF shift, end
  <2> QED
    BY <1>1, <2>0
<1>4. shift(grid[i]) # None /\ end # None
  BY <1>3
<1>5. shift(grid[i]) = ShiftTradingDays(days, grid[i], ExecutionDayShift(spec))
  BY <1>4
<1>6. StartField(spec) = EndField(spec) => end = ShiftTradingDays(days, grid[i + h], ExecutionDayShift(spec))
  BY <1>4
<1>7. StartField(spec) # EndField(spec) /\ spec.basis # "close_to_open" => end = grid[i + h]
  BY <1>2
<1>8. spec.basis = "close_to_open" =>
        LET over == ShiftTradingDays(days, grid[i + h], ExecutionDayShift(spec))
        IN over # None /\ end = ShiftTradingDays(days, over, 1)
  BY <1>2, <1>4
<1> HIDE DEF shift, end
<1> QED
  BY <1>2, <1>3, <1>4, <1>5, <1>6, <1>7, <1>8 DEF h, p

\* Windows of grid points a horizon apart that run from a close to an open: no
\* day lies between the close at which the second starts and the open at which
\* the first ends.
LEMMA WindowsShareNight ==
  ASSUME NEW days, Days(days), NEW grid \in Seq(days),
         \A i, j \in DOMAIN grid : i < j => grid[i] < grid[j],
         NEW spec, Family(spec), spec.basis = "close_to_open",
         NEW i \in DOMAIN grid, NEW j \in DOMAIN grid, i + Steps(spec) <= j,
         PointTiming(spec, days, grid, i) # None, PointTiming(spec, days, grid, j) # None, NEW d \in days
  PROVE  ~ (PointTiming(spec, days, grid, j).start < d /\ d < PointTiming(spec, days, grid, i).end)
<1> DEFINE h == Steps(spec)
           n == ExecutionDayShift(spec)
           p == PointTiming(spec, days, grid, i)
           q == PointTiming(spec, days, grid, j)
           start == ShiftTradingDays(days, grid[j], n)
           over == ShiftTradingDays(days, grid[i + h], n)
<1>1. h \in Nat \ {0} /\ n \in Nat
  BY FamilyCounts
<1>2. over # None /\ ShiftTradingDays(days, over, 1) # None /\ p.end = ShiftTradingDays(days, over, 1)
  BY PointIs
<1>3. start # None /\ q.start = start
  BY PointIs
<1>4. Len(grid) \in Nat /\ DOMAIN grid = 1 .. Len(grid) /\ i \in Nat /\ j \in Nat
  OBVIOUS
<1> HIDE DEF h, n
<1>5. i + h \in DOMAIN grid /\ grid[i + h] \in days /\ grid[j] \in days
  BY <1>1, <1>4 DEF h
<1>6. \A x \in days : x \in Nat
  BY DEF Days
<1>7. grid[i + h] \in Nat /\ grid[j] \in Nat /\ grid[i + h] <= grid[j]
  <2>1. i + h < j \/ i + h = j
    BY <1>1, <1>4 DEF h
  <2>2. i + h < j => grid[i + h] < grid[j]
    BY <1>5
  <2>3. grid[i + h] \in Nat /\ grid[j] \in Nat
    BY <1>5, <1>6
  <2> QED
    BY <2>1, <2>2, <2>3
<1>8. over <= start
  BY <1>2, <1>3, <1>7, ShiftKeepsOrder
<1>9. over \in Nat /\ start \in Nat /\ d \in Nat
  BY <1>2, <1>3, <1>6, ShiftGoes
<1> HIDE DEF over, start
<1>10. ~ (over < d /\ d < ShiftTradingDays(days, over, 1))
  BY <1>2, <1>9, NextDay
<1> HIDE DEF p, q
<1>11. ~ (q.start < d /\ d < p.end)
  BY <1>2, <1>3, <1>8, <1>9, <1>10
<1> QED
  BY <1>11 DEF p, q

\* Windows of grid points a horizon apart follow one another, in instants.
LEMMA WindowsFollow ==
  ASSUME NEW days, Days(days), NEW grid \in Seq(days),
         \A i, j \in DOMAIN grid : i < j => grid[i] < grid[j],
         NEW spec, Family(spec), spec.basis # "close_to_open",
         NEW i \in DOMAIN grid, NEW j \in DOMAIN grid, i + Steps(spec) <= j,
         PointTiming(spec, days, grid, i) # None, PointTiming(spec, days, grid, j) # None
  PROVE  PointTiming(spec, days, grid, i).targetEnd <= PointTiming(spec, days, grid, j).targetStart
<1> DEFINE h == Steps(spec)
           n == ExecutionDayShift(spec)
           p == PointTiming(spec, days, grid, i)
           q == PointTiming(spec, days, grid, j)
           start == ShiftTradingDays(days, grid[j], n)
           over == ShiftTradingDays(days, grid[i + h], n)
<1>1. h \in Nat \ {0} /\ n \in Nat /\ (StartField(spec) = "open" => n = 1)
  BY FamilyCounts
<1>2. /\ StartField(spec) = EndField(spec) => over # None /\ p.targetEnd = Instant(over, EndField(spec))
      /\ StartField(spec) # EndField(spec) =>
           /\ StartField(spec) = "open" /\ EndField(spec) = "close"
           /\ p.targetEnd = Instant(grid[i + h], "close")
  BY PointIs
<1>3. start # None /\ q.targetStart = Instant(start, StartField(spec))
  BY PointIs
<1>4. Len(grid) \in Nat /\ DOMAIN grid = 1 .. Len(grid) /\ i \in Nat /\ j \in Nat
  OBVIOUS
<1> HIDE DEF h, n
<1>5. i + h \in DOMAIN grid /\ grid[i + h] \in days /\ grid[j] \in days
  BY <1>1, <1>4 DEF h
<1>6. \A x \in days : x \in Nat
  BY DEF Days
<1>7. grid[i + h] \in Nat /\ grid[j] \in Nat /\ grid[i + h] <= grid[j]
  <2>1. i + h < j \/ i + h = j
    BY <1>1, <1>4 DEF h
  <2>2. i + h < j => grid[i + h] < grid[j]
    BY <1>5
  <2>3. grid[i + h] \in Nat /\ grid[j] \in Nat
    BY <1>5, <1>6
  <2> QED
    BY <2>1, <2>2, <2>3
<1>8. start \in Nat
  BY <1>3, <1>6, ShiftGoes
<1>9. CASE StartField(spec) = EndField(spec)
  <2>1. over \in Nat /\ over <= start
    <3>1. over # None /\ start # None
      BY <1>2, <1>3, <1>9
    <3>2. over <= start
      BY <1>7, <3>1, ShiftKeepsOrder
    <3>3. over \in Nat
      BY <1>6, <3>1, ShiftGoes
    <3> QED
      BY <3>2, <3>3
  <2>2. p.targetEnd = Instant(over, StartField(spec))
    BY <1>2, <1>9
  <2> HIDE DEF over, start, p, q
  <2>3. p.targetEnd <= q.targetStart
    BY <1>3, <1>8, <2>1, <2>2 DEF Instant
  <2> QED
    BY <2>3 DEF p, q
<1>10. CASE StartField(spec) # EndField(spec)
  <2>1. grid[j] < start
    BY <1>1, <1>2, <1>3, <1>7, <1>10, ShiftGoesPast
  <2>2. p.targetEnd = Instant(grid[i + h], "close") /\ q.targetStart = Instant(start, "open")
    BY <1>2, <1>3, <1>10
  <2> HIDE DEF start, p, q
  <2>3. p.targetEnd <= q.targetStart
    BY <1>7, <1>8, <2>1, <2>2 DEF Instant
  <2> QED
    BY <2>3 DEF p, q
<1> QED
  BY <1>9, <1>10

-----------------------------------------------------------------------------
(* The records of a build.                                                    *)

\* A set of natural numbers that is not empty has a minimum.
LEMMA MinIn ==
  ASSUME NEW T \in SUBSET Nat, T # {}
  PROVE  Min(T) \in T /\ \A y \in T : Min(T) <= y
<1> DEFINE Below == OpToRel(<, Nat)
<1>1. IsWellFoundedOn(Below, Nat)
  BY NatLessThanWellFounded
<1>2. \A x, y \in Nat : y < x => <<y, x>> \in Below
  BY DEF OpToRel
<1> HIDE DEF Below
<1>3. PICK x \in T : \A y \in T : <<y, x>> \notin Below
  BY <1>1, WFMin
<1>4. ASSUME NEW y \in T PROVE x <= y
  <2>1. x \in Nat /\ y \in Nat
    OBVIOUS
  <2>2. ~ (y < x)
    BY <1>2, <1>3, <2>1
  <2>3. QED
    BY <2>1, <2>2
<1>5. \E m \in T : \A y \in T : m <= y
  BY <1>4
<1> QED
  BY <1>5, Zenon DEF Min

LEMMA WholePeriods ==
  ASSUME NEW a \in Int, NEW b \in Int, a < b, NEW h \in Nat \ {0}, a % h = 0, b % h = 0
  PROVE  a + h <= b
<1> DEFINE x == a \div h
           y == b \div h
<1>1. x \in Int /\ y \in Int /\ a = h * x /\ b = h * y
  OBVIOUS
<1> HIDE DEF x, y
<1>2. x < y
  BY <1>1
<1>3. y - x - 1 \in Nat
  BY <1>1, <1>2
<1>4. h * (y - x - 1) >= 0
  BY <1>3
<1>5. h * (y - x - 1) = h * y - h * x - h
  BY <1>1
<1> QED
  BY <1>1, <1>4, <1>5

\* What purging keeps is a horizon apart.
LEMMA RetainedApart ==
  ASSUME NEW candidates \in SUBSET Nat, NEW h \in Nat \ {0},
         NEW i \in PurgedRetention(candidates, h), NEW j \in PurgedRetention(candidates, h), i < j
  PROVE  i + h <= j
<1>1. i \in candidates /\ j \in candidates
  BY DEF PurgedRetention
<1>2. Min(candidates) \in Nat /\ i \in Nat /\ j \in Nat
  BY <1>1, MinIn
<1>3. CASE h > 1
  <2> DEFINE m == Min(candidates)
  <2>1. (i - m) % h = 0 /\ (j - m) % h = 0
    BY <1>3 DEF PurgedRetention
  <2>2. m \in Nat
    BY <1>2
  <2> HIDE DEF m
  <2>3. i - m \in Int /\ j - m \in Int /\ i - m < j - m
    BY <1>2, <2>2
  <2>4. i - m + h <= j - m
    BY <2>1, <2>3, WholePeriods
  <2> QED
    BY <1>2, <2>2, <2>4
<1>4. CASE h = 1
  BY <1>2, <1>4
<1> QED
  BY <1>3, <1>4

\* The records of a grid point carry its window and its place among the others.
LEMMA RowsOfPoint ==
  ASSUME NEW view, NEW spec, NEW point, NEW grid, NEW members, NEW groupOf, NEW overlap,
         NEW r \in BuildGridPoint(view, spec, point, grid, members, groupOf, overlap).records
  PROVE  r.point = point /\ r.overlap = overlap
<1>1. ASSUME NEW group, NEW outcome, NEW vol,
             r \in GridPointRows(view, spec, point, overlap, members, group, outcome, vol).records
      PROVE  r.point = point /\ r.overlap = overlap
  <2> DEFINE caps == [s \in DOMAIN vol |-> LookUp(view.cap, <<s, point.decision>>)]
             barred == [s \in DOMAIN vol |->
                          IF vol[s].why # "none" THEN vol[s].why
                          ELSE IF spec.weighting = "cap_weighted" /\ caps[s] = None THEN "missing_market_cap"
                          ELSE "none"]
             eligible == {s \in DOMAIN vol : barred[s] = "none"}
             stage == LabelStage(spec, [s \in eligible |-> outcome[s].value], [s \in eligible |-> group[s]],
                                 [s \in eligible |-> vol[s].sigma], [s \in eligible |-> caps[s]])
             label(s) == IF s \in eligible THEN stage.labels[s] ELSE 0
             moved(s) == LookUp(stage.transformed, s)
             record(s) ==
                [security |-> s, point |-> point, raw |-> outcome[s].value, delisted |-> outcome[s].delisted,
                 group |-> group[s], ineligible |-> barred[s], label |-> label(s),
                 transformed |-> moved(s), overlap |-> overlap]
             records == {record(s) : s \in DOMAIN vol}
             skips == IF members = {} THEN {Skip(point.decision, None, "empty_universe")}
                      ELSE {Skip(point.decision, s, outcome[s].why) : s \in members \ DOMAIN vol}
  <2>1. GridPointRows(view, spec, point, overlap, members, group, outcome, vol)
          = [records |-> records, skips |-> skips]
    BY DEF GridPointRows
  <2>2. r \in records
    <3> HIDE DEF records, skips
    <3> QED
      BY <1>1, <2>1
  <2>3. PICK s \in DOMAIN vol : r = record(s)
    <3> HIDE DEF record
    <3> QED
      BY <2>2
  <2> HIDE DEF caps, barred, eligible, stage, label, moved, records, skips
  <2> QED
    BY <2>3
<1>2. \E group, outcome, vol :
        r \in GridPointRows(view, spec, point, overlap, members, group, outcome, vol).records
  BY DEF BuildGridPoint
<1> QED
  BY <1>1, <1>2

\* The grid points of a build whose windows are realized, and their timing.
GridOf(view, spec) == RebalanceGrid(spec.grid, view.days, spec.anchor)
TimingAt(view, spec, i) == PointTiming(spec, view.days, GridOf(view, spec), i)
PointsIn(view, spec, window) ==
    [i \in {j \in DOMAIN GridOf(view, spec) : GridOf(view, spec)[j] \in window} |-> TimingAt(view, spec, i)]
Candidates(view, spec, asOf, window) ==
    {i \in DOMAIN PointsIn(view, spec, window) :
        WhyNotBuilt(spec, PointsIn(view, spec, window)[i], i, GridOf(view, spec), asOf) = "none"}

\* A record of a build is of a point of its grid that was retained; as the only
\* purged ones are, and a horizon of one step overlaps nothing, a clean one was
\* purged or has a horizon of one.
LEMMA RecordOf ==
  ASSUME NEW view, NEW spec, NEW asOf, NEW window, NEW universe, NEW groupOf,
         NEW r \in BuildTrainingExamples(view, spec, asOf, window, universe, groupOf).records
  PROVE  \E i \in Candidates(view, spec, asOf, window) :
           /\ spec.overlap = "purged" => i \in PurgedRetention(Candidates(view, spec, asOf, window), Steps(spec))
           /\ r.point = TimingAt(view, spec, i)
           /\ r.overlap.status = "clean" => ~ (Steps(spec) > 1) \/ spec.overlap # "pooled_as_paper"
<1> DEFINE grid == RebalanceGrid(spec.grid, view.days, spec.anchor)
           point == [i \in {j \in DOMAIN grid : grid[j] \in window} |-> PointTiming(spec, view.days, grid, i)]
           why == [i \in DOMAIN point |-> WhyNotBuilt(spec, point[i], i, grid, asOf)]
           candidates == {i \in DOMAIN why : why[i] = "none"}
           retained == IF spec.overlap = "purged" THEN PurgedRetention(candidates, Steps(spec)) ELSE candidates
           shared(i) == OverlapMetadata(i, Steps(spec), retained, spec.overlap, spec.embargo)
           built == [i \in retained |->
                       BuildGridPoint(view, spec, point[i], grid, universe[point[i].decision], groupOf, shared(i))]
<1>1. r \in BuildRetained(view, spec, universe, groupOf, grid, point, why, retained).records
  BY DEF BuildTrainingExamples, BuildOnGrid
<1>2. retained \subseteq candidates
  BY DEF PurgedRetention
<1>3. PICK i \in retained : r \in built[i].records
  <2>1. r \in Examples(built, grid, why, retained).records
    BY <1>1 DEF BuildRetained
  <2> HIDE DEF grid, point, why, retained, built
  <2> QED
    BY <2>1 DEF Examples
<1>4. r.point = point[i] /\ r.overlap = shared(i)
  <2>1. built[i] = BuildGridPoint(view, spec, point[i], grid, universe[point[i].decision], groupOf, shared(i))
    OBVIOUS
  <2> HIDE DEF grid, point, why, retained, built, shared
  <2>2. r \in BuildGridPoint(view, spec, point[i], grid, universe[point[i].decision], groupOf, shared(i)).records
    BY <1>3, <2>1
  <2> QED
    BY <2>2, RowsOfPoint
<1>5. i \in candidates
  BY <1>2
<1>6. i \in DOMAIN point /\ point[i] = PointTiming(spec, view.days, grid, i)
  <2>1. i \in DOMAIN point
    BY <1>5
  <2> QED
    BY <2>1
<1>7. r.overlap.status = "clean" => ~ (Steps(spec) > 1) \/ spec.overlap # "pooled_as_paper"
  <2>1. r.overlap.status = IF Steps(spec) > 1 /\ spec.overlap = "pooled_as_paper" THEN "overlap_permitted" ELSE "clean"
    <3>1. shared(i).status = IF Steps(spec) > 1 /\ spec.overlap = "pooled_as_paper" THEN "overlap_permitted" ELSE "clean"
      BY DEF OverlapMetadata
    <3> QED
      BY <1>4, <3>1
  <2> HIDE DEF shared
  <2> QED
    BY <2>1
<1>8. candidates = Candidates(view, spec, asOf, window)
  <2>1. candidates = {j \in DOMAIN point : WhyNotBuilt(spec, point[j], j, grid, asOf) = "none"}
    <3> HIDE DEF point
    <3> QED
      OBVIOUS
  <2>2. grid = GridOf(view, spec) /\ point = PointsIn(view, spec, window)
    BY DEF GridOf, PointsIn, TimingAt
  <2> HIDE DEF candidates, grid, point
  <2> QED
    BY <2>1, <2>2 DEF Candidates
<1>9. spec.overlap = "purged" => i \in PurgedRetention(candidates, Steps(spec))
  <2> HIDE DEF candidates
  <2> QED
    OBVIOUS
<1>10. point[i] = TimingAt(view, spec, i)
  BY <1>6 DEF TimingAt, GridOf
<1> HIDE DEF why, candidates, retained, shared, built, grid, point
<1> QED
  BY <1>4, <1>5, <1>7, <1>8, <1>9, <1>10

-----------------------------------------------------------------------------
(* Clean windows.                                                             *)

\* For every calendar, every market on it and every accepted family: of two
\* examples of one build, the window of the first, when it is called clean, is
\* over before that of a later one starts, or shares a night with it and no
\* session where windows run from a close to an open; whatever the execution
\* delay, the overlap policy, the grid and the days that are missing
\* (build_training_examples with _purged_retention and _point_timing).
THEOREM CleanWindowsFollow ==
  ASSUME NEW view, Days(view.days), NEW spec, Family(spec),
         NEW asOf, NEW window, NEW universe, NEW groupOf,
         NEW r \in BuildTrainingExamples(view, spec, asOf, window, universe, groupOf).records,
         NEW q \in BuildTrainingExamples(view, spec, asOf, window, universe, groupOf).records,
         r.overlap.status = "clean", r.point.index < q.point.index
  PROVE  OverBefore(spec, view.days, r.point, q.point)
<1> DEFINE grid == GridOf(view, spec)
           candidates == Candidates(view, spec, asOf, window)
           h == Steps(spec)
           timing(i) == TimingAt(view, spec, i)
<1>1. grid \in Seq(view.days) /\ \A i, j \in DOMAIN grid : i < j => grid[i] < grid[j]
  BY GridRises DEF GridOf
<1>2. PICK i \in candidates :
        /\ spec.overlap = "purged" => i \in PurgedRetention(candidates, h)
        /\ r.point = timing(i)
        /\ r.overlap.status = "clean" => ~ (h > 1) \/ spec.overlap # "pooled_as_paper"
  BY RecordOf
<1>3. PICK j \in candidates :
        /\ spec.overlap = "purged" => j \in PurgedRetention(candidates, h)
        /\ q.point = timing(j)
  BY RecordOf
<1>4. \A k \in candidates : k \in DOMAIN grid /\ timing(k) # None
  BY DEF Candidates, PointsIn, WhyNotBuilt
<1>5. timing(i).index = i /\ timing(j).index = j
  BY <1>4, PointIs DEF TimingAt
<1>6. i < j
  BY <1>2, <1>3, <1>5
<1>7. h \in Nat \ {0}
  BY FamilyCounts
<1> HIDE DEF grid, timing, h
<1>8. candidates \in SUBSET Nat /\ i \in Nat /\ j \in Nat
  <2>1. DOMAIN grid \in SUBSET Nat
    BY <1>1
  <2> QED
    BY <1>4, <2>1
<1> HIDE DEF candidates
<1>9. i + h <= j
  <2>1. CASE spec.overlap = "purged"
    BY <1>2, <1>3, <1>6, <1>7, <1>8, <2>1, RetainedApart
  <2>2. CASE spec.overlap = "pooled_as_paper"
    <3>1. h = 1
      BY <1>2, <1>7, <2>2
    <3> QED
      BY <1>6, <1>8, <3>1
  <2> QED
    BY <2>1, <2>2 DEF Family
<1>10. CASE spec.basis # "close_to_open"
  <2>1. timing(i).targetEnd <= timing(j).targetStart
    BY <1>1, <1>4, <1>9, <1>10, WindowsFollow DEF timing, h, TimingAt, grid
  <2> QED
    BY <1>2, <1>3, <2>1 DEF OverBefore
<1>11. CASE spec.basis = "close_to_open"
  <2>1. \A d \in view.days : ~ (timing(j).start < d /\ d < timing(i).end)
    BY <1>1, <1>4, <1>9, <1>11, WindowsShareNight DEF timing, h, TimingAt, grid
  <2> QED
    BY <1>2, <1>3, <1>11, <2>1 DEF OverBefore
<1> QED
  BY <1>10, <1>11

-----------------------------------------------------------------------------
(* The runs.                                                                  *)

\* The choices a version's sections may make, as far as windows depend on them.
ChoicesOf(config) ==
  /\ {"horizon", "mode", "overlap", "k", "basis"} \subseteq DOMAIN config
  /\ config.horizon \in {"1M", "3M", "1W", "4W"}
  /\ config.mode \in {"same_close", "one_day_lag", "t_plus_k_moc", "next_open"}
  /\ config.overlap \in {"pooled_as_paper", "purged"}
  /\ config.k = None \/ config.k \in Nat

LEMMA AcceptedFamily ==
  ASSUME NEW config, ChoicesOf(config), NEW basis \in {None} \cup DOMAIN Bases, FromConfig(config, basis) # None
  PROVE  Family(FromConfig(config, basis))
<1> DEFINE lag == Counted(config.lag)
           weeks == Counted(config.window)
           least == Counted(config.minWeeks)
           field == IF basis = None THEN DefaultBasis(config.mode) ELSE basis
           spec == FromConfig(config, basis)
<1>1. spec = [config EXCEPT !.lag = Counted(@), !.window = Counted(@), !.minWeeks = Counted(@), !.basis = field]
      /\ ~ Refused(spec)
  BY DEF FromConfig
<1>2. /\ spec.horizon = config.horizon /\ spec.mode = config.mode /\ spec.overlap = config.overlap
      /\ spec.k = config.k /\ spec.basis = field
  <2> DEFINE a == [config EXCEPT !.lag = Counted(@)]
             b == [a EXCEPT !.window = Counted(@)]
             c == [b EXCEPT !.minWeeks = Counted(@)]
  <2>1. {"horizon", "mode", "overlap", "k", "basis"} \subseteq DOMAIN config
    BY DEF ChoicesOf
  <2>2. DOMAIN a = DOMAIN config /\ DOMAIN b = DOMAIN config /\ DOMAIN c = DOMAIN config
    OBVIOUS
  <2>3. /\ a.horizon = config.horizon /\ a.mode = config.mode /\ a.overlap = config.overlap /\ a.k = config.k
    BY <2>1
  <2> HIDE DEF a
  <2>4. /\ b.horizon = config.horizon /\ b.mode = config.mode /\ b.overlap = config.overlap /\ b.k = config.k
    BY <2>1, <2>2, <2>3
  <2> HIDE DEF b
  <2>5. /\ c.horizon = config.horizon /\ c.mode = config.mode /\ c.overlap = config.overlap /\ c.k = config.k
    BY <2>1, <2>2, <2>4
  <2>6. spec = [c EXCEPT !.basis = field]
    BY <1>1 DEF a, b, c
  <2> HIDE DEF c, spec, field
  <2> QED
    BY <2>1, <2>2, <2>5, <2>6
<1>3. field \in DOMAIN Bases
  BY DEF DefaultBasis, Bases
<1>4. spec.horizon \in DOMAIN HorizonFamily
  BY <1>2 DEF ChoicesOf, HorizonFamily
<1> HIDE DEF spec, field
<1> QED
  BY <1>1, <1>2, <1>3, <1>4 DEF ChoicesOf, Family, spec

LEMMA ConfigChoices ==
  ASSUME NEW horizon \in {"1M", "3M", "1W", "4W"}, NEW group
  PROVE  ChoicesOf(Config(horizon, group))
  BY DEF Config, ChoicesOf

\* A choice stays one when other settings are made, or one of the same kind is.
LEMMA ChoicesKept ==
  ASSUME NEW c, ChoicesOf(c), NEW v
  PROVE  /\ ChoicesOf([c EXCEPT !.grid = v])
         /\ ChoicesOf([c EXCEPT !.rebalance = v])
         /\ ChoicesOf([c EXCEPT !.weighting = v])
         /\ ChoicesOf([c EXCEPT !.lag = v])
         /\ ChoicesOf([c EXCEPT !.vol = v])
         /\ ChoicesOf([c EXCEPT !.window = v])
         /\ ChoicesOf([c EXCEPT !.minWeeks = v])
         /\ ChoicesOf([c EXCEPT !.order = v])
         /\ ChoicesOf([c EXCEPT !.cellRank = v])
         /\ v \in {"pooled_as_paper", "purged"} => ChoicesOf([c EXCEPT !.overlap = v])
         /\ v \in {"same_close", "one_day_lag", "t_plus_k_moc", "next_open"} => ChoicesOf([c EXCEPT !.mode = v])
         /\ v \in Nat => ChoicesOf([c EXCEPT !.k = v])
<1>1. ChoicesOf([c EXCEPT !.grid = v]) /\ ChoicesOf([c EXCEPT !.rebalance = v])
  BY DEF ChoicesOf
<1>2. ChoicesOf([c EXCEPT !.weighting = v]) /\ ChoicesOf([c EXCEPT !.lag = v])
  BY DEF ChoicesOf
<1>3. ChoicesOf([c EXCEPT !.vol = v]) /\ ChoicesOf([c EXCEPT !.window = v])
  BY DEF ChoicesOf
<1>4. ChoicesOf([c EXCEPT !.minWeeks = v]) /\ ChoicesOf([c EXCEPT !.order = v])
  BY DEF ChoicesOf
<1>5. ChoicesOf([c EXCEPT !.cellRank = v])
  BY DEF ChoicesOf
<1>6. v \in {"pooled_as_paper", "purged"} => ChoicesOf([c EXCEPT !.overlap = v])
  BY DEF ChoicesOf
<1>7. v \in {"same_close", "one_day_lag", "t_plus_k_moc", "next_open"} => ChoicesOf([c EXCEPT !.mode = v])
  BY DEF ChoicesOf
<1>8. v \in Nat => ChoicesOf([c EXCEPT !.k = v])
  BY DEF ChoicesOf
<1> QED
  BY <1>1, <1>2, <1>3, <1>4, <1>5, <1>6, <1>7, <1>8

LEMMA WeeklyChoices == ASSUME NEW group PROVE ChoicesOf(Weekly(group))
<1> DEFINE a == Config("4W", group)
           b == [a EXCEPT !.grid = "weekly"]
           c == [b EXCEPT !.rebalance = "weekly"]
<1>1. Weekly(group) = [c EXCEPT !.overlap = "purged"]
  BY DEF Weekly
<1>2. ChoicesOf(a)
  BY ConfigChoices
<1> HIDE DEF a
<1>3. ChoicesOf(b)
  BY <1>2, ChoicesKept
<1> HIDE DEF b
<1>4. ChoicesOf(c)
  BY <1>3, ChoicesKept
<1> HIDE DEF c
<1>5. ChoicesOf([c EXCEPT !.overlap = "purged"])
  BY <1>4, ChoicesKept
<1> QED
  BY <1>1, <1>5 DEF a, b, c

LEMMA AllChoices == \A c \in Configs \cup WeeklyConfigs : ChoicesOf(c)
<1>1. ASSUME NEW group PROVE ChoicesOf([Config("3M", group) EXCEPT !.overlap = "purged", !.lag = [n |-> 3, unit |-> "m"]])
  <2> DEFINE a == Config("3M", group)
             b == [a EXCEPT !.overlap = "purged"]
             v == [n |-> 3, unit |-> "m"]
  <2>1. ChoicesOf(a)
    BY ConfigChoices
  <2> HIDE DEF a, v
  <2>2. ChoicesOf(b)
    BY <2>1, ChoicesKept
  <2> HIDE DEF b
  <2>3. ChoicesOf([b EXCEPT !.lag = v])
    BY <2>2, ChoicesKept
  <2> QED
    BY <2>3 DEF a, b, v
<1>2. ASSUME NEW group
      PROVE  ChoicesOf([Config("3M", group) EXCEPT !.overlap = "purged", !.mode = "next_open", !.cellRank = TRUE])
  <2> DEFINE a == Config("3M", group)
             b == [a EXCEPT !.overlap = "purged"]
             c == [b EXCEPT !.mode = "next_open"]
  <2>1. ChoicesOf(a)
    BY ConfigChoices
  <2> HIDE DEF a
  <2>2. ChoicesOf(b)
    BY <2>1, ChoicesKept
  <2> HIDE DEF b
  <2>3. ChoicesOf(c)
    BY <2>2, ChoicesKept
  <2> HIDE DEF c
  <2>4. ChoicesOf([c EXCEPT !.cellRank = TRUE])
    BY <2>3, ChoicesKept
  <2> QED
    BY <2>4 DEF a, b, c
<1>3. ASSUME NEW group
      PROVE  ChoicesOf([Weekly(group) EXCEPT !.weighting = "cap_weighted", !.overlap = "pooled_as_paper"])
  <2> DEFINE a == Weekly(group)
             b == [a EXCEPT !.weighting = "cap_weighted"]
  <2>1. ChoicesOf(a)
    BY WeeklyChoices
  <2> HIDE DEF a
  <2>2. ChoicesOf(b)
    BY <2>1, ChoicesKept
  <2> HIDE DEF b
  <2>3. ChoicesOf([b EXCEPT !.overlap = "pooled_as_paper"])
    BY <2>2, ChoicesKept
  <2> QED
    BY <2>3 DEF a, b
<1>4. ASSUME NEW group, NEW v, NEW w
      PROVE  ChoicesOf([Weekly(group) EXCEPT !.vol = "rolling_std", !.window = v, !.minWeeks = w,
                          !.order = "neutralize_first", !.mode = "t_plus_k_moc", !.k = 1])
  <2> DEFINE a == Weekly(group)
             b == [a EXCEPT !.vol = "rolling_std"]
             c == [b EXCEPT !.window = v]
             d == [c EXCEPT !.minWeeks = w]
             e == [d EXCEPT !.order = "neutralize_first"]
             f == [e EXCEPT !.mode = "t_plus_k_moc"]
  <2>1. ChoicesOf(a)
    BY WeeklyChoices
  <2> HIDE DEF a
  <2>2. ChoicesOf(b)
    BY <2>1, ChoicesKept
  <2> HIDE DEF b
  <2>3. ChoicesOf(c)
    BY <2>2, ChoicesKept
  <2> HIDE DEF c
  <2>4. ChoicesOf(d)
    BY <2>3, ChoicesKept
  <2> HIDE DEF d
  <2>5. ChoicesOf(e)
    BY <2>4, ChoicesKept
  <2> HIDE DEF e
  <2>6. ChoicesOf(f)
    BY <2>5, ChoicesKept
  <2> HIDE DEF f
  <2>7. ChoicesOf([f EXCEPT !.k = 1])
    BY <2>6, ChoicesKept
  <2> QED
    BY <2>7 DEF a, b, c, d, e, f
<1>5. ChoicesOf(Config("1M", "universe")) /\ ChoicesOf(Config("3M", "country_demeaned"))
  BY ConfigChoices
<1>6. ChoicesOf(Weekly("universe"))
  BY WeeklyChoices
<1>7. \A c \in Configs : ChoicesOf(c)
  <2>1. ChoicesOf([Config("3M", "universe") EXCEPT !.overlap = "purged", !.lag = [n |-> 3, unit |-> "m"]])
    BY <1>1
  <2>2. ChoicesOf([Config("3M", "neutralization_cell") EXCEPT !.overlap = "purged", !.mode = "next_open",
                     !.cellRank = TRUE])
    BY <1>2
  <2> QED
    BY <1>5, <2>1, <2>2, Zenon DEF Configs
<1>8. \A c \in WeeklyConfigs : ChoicesOf(c)
  <2>1. ChoicesOf([Weekly("country_demeaned") EXCEPT !.weighting = "cap_weighted", !.overlap = "pooled_as_paper"])
    BY <1>3
  <2>2. ChoicesOf([Weekly("sector_region_residual") EXCEPT !.vol = "rolling_std", !.window = [n |-> 3, unit |-> "w"],
                     !.minWeeks = [n |-> 2, unit |-> "w"], !.order = "neutralize_first", !.mode = "t_plus_k_moc",
                     !.k = 1])
    BY <1>4
  <2> QED
    BY <1>6, <2>1, <2>2, Zenon DEF WeeklyConfigs
<1> QED
  BY <1>7, <1>8

-----------------------------------------------------------------------------
LEMMA CalendarDays == \A w : Days(DaysOf(w))
<1> SUFFICES ASSUME NEW w PROVE Days(DaysOf(w))
  OBVIOUS
<1>1. \E n \in Nat : DaysOf(w) \subseteq 0 .. n
  <2>1. CASE w.spec.grid = "weekly"
    <3>1. DaysOf(w) \subseteq 0 .. 72
      BY <2>1 DEF DaysOf
    <3> QED
      BY <3>1
  <2>2. CASE w.spec.grid # "weekly"
    <3> DEFINE n == 30 * (Final + 4) + 29
    <3>1. n \in Nat /\ Final + 4 \in Nat
      BY MonthsAssumption
    <3>2. \A m \in 0 .. Final + 4, d \in 27 .. 29 : 30 * m + d \in 0 .. n
      BY <3>1
    <3>3. DaysOf(w) = {30 * m + d : m \in 0 .. Final + 4, d \in 27 .. 29}
      BY <2>2 DEF DaysOf, Calendar
    <3> HIDE DEF n
    <3>4. DaysOf(w) \subseteq 0 .. n
      BY <3>2, <3>3
    <3> QED
      BY <3>1, <3>4
  <2> QED
    BY <2>1, <2>2
<1>2. PICK n \in Nat : DaysOf(w) \subseteq 0 .. n
  BY <1>1
<1>3. IsFiniteSet(0 .. n)
  BY FS_Interval
<1> QED
  BY <1>2, <1>3, FS_Subset DEF Days

\* The inductive invariant: the family is one that was accepted, and what is
\* prepared for the longest run is a build for it on its market.
FamilyAccepted == Family(world.spec)
RecordsBuilt ==
  prep # None =>
    \E asOf, decisions : prep[Later].records = Built(world, asOf, decisions).records
TargetsInv == FamilyAccepted /\ RecordsBuilt

LEMMA TargetsInit == Init => TargetsInv
<1> SUFFICES ASSUME Init PROVE TargetsInv
  OBVIOUS
<1>1. \/ world.spec \in Families(Configs, {None})
      \/ world.spec \in Families(WeeklyConfigs, {None, "close_to_open"})
  BY DEF Init
<1>2. PICK c \in Configs \cup WeeklyConfigs, b \in {None, "close_to_open"} :
        world.spec = FromConfig(c, b) /\ FromConfig(c, b) # None
  BY <1>1 DEF Families
<1>3. b \in {None} \cup DOMAIN Bases
  BY DEF Bases
<1>4. Family(world.spec)
  BY <1>2, <1>3, AllChoices, AcceptedFamily
<1> QED
  BY <1>4 DEF Init, TargetsInv, FamilyAccepted, RecordsBuilt

LEMMA TargetsMade == ASSUME TargetsInv, MakeTargets PROVE TargetsInv'
<1>1. PICK asOf \in {2 * 41 + 1, 2 * 72} :
        prep' = [e \in {Later} |-> Built(world, asOf, {d \in DaysOf(world) : d >= 7})]
  BY DEF MakeTargets
<1>2. prep'[Later].records = Built(world, asOf, {d \in DaysOf(world) : d >= 7}).records /\ world' = world
  BY <1>1 DEF MakeTargets
<1> QED
  BY <1>2 DEF TargetsInv, FamilyAccepted, RecordsBuilt

LEMMA PreparedFrom ==
  ASSUME NEW w, NEW asOf, NEW last
  PROVE  \E decisions : Prepared(w, asOf, last).records = Built(w, asOf, decisions).records
  BY DEF Prepared

LEMMA TargetsAndPanelMade == ASSUME TargetsInv, MakeTargetsAndPanel PROVE TargetsInv'
<1>1. prep' = [e \in Endings |-> Prepared(world, Signal(e), Min({e, Final}))] /\ world' = world
  BY DEF MakeTargetsAndPanel
<1>2. Later \in Endings
  BY DEF Endings
<1>3. prep'[Later] = Prepared(world, Signal(Later), Min({Later, Final}))
  BY <1>1, <1>2
<1>4. PICK decisions : prep'[Later].records = Built(world, Signal(Later), decisions).records
  BY <1>3, PreparedFrom
<1>5. world' = world
  BY <1>1
<1> QED
  BY <1>4, <1>5 DEF TargetsInv, FamilyAccepted, RecordsBuilt

LEMMA TargetsKept == ASSUME TargetsInv, UNCHANGED <<world, prep>> PROVE TargetsInv'
  BY DEF TargetsInv, FamilyAccepted, RecordsBuilt

LEMMA TargetsStep == TargetsInv /\ [Next]_vars => TargetsInv'
<1> SUFFICES ASSUME TargetsInv, [Next]_vars PROVE TargetsInv'
  OBVIOUS
<1>1. CASE MakeTargets
  BY <1>1, TargetsMade
<1>2. CASE MakeTargetsAndPanel
  BY <1>2, TargetsAndPanelMade
<1>3. CASE ScoreMonth
  BY <1>3, TargetsKept DEF ScoreMonth
<1>4. CASE ComputeFeature
  BY <1>4, TargetsKept DEF ComputeFeature, Alone
<1>5. CASE BoostOnce
  BY <1>5, TargetsKept DEF BoostOnce, Alone
<1>6. CASE UNCHANGED vars
  BY <1>6, TargetsKept DEF vars
<1> QED
  BY <1>1, <1>2, <1>3, <1>4, <1>5, <1>6 DEF Next

LEMMA TargetsApart == TargetsInv => CleanWindowsApart
<1> SUFFICES ASSUME TargetsInv, prep # None,
                    NEW r \in prep[Later].records, NEW q \in prep[Later].records,
                    r.overlap.status = "clean", r.point.index < q.point.index
             PROVE  OverBefore(world.spec, DaysOf(world), r.point, q.point)
  BY DEF CleanWindowsApart
<1>1. PICK asOf, decisions : prep[Later].records = Built(world, asOf, decisions).records
  BY DEF TargetsInv, RecordsBuilt
<1> DEFINE view == View(world, asOf)
           universe == [d \in decisions |-> Alive(world, d)]
           groupOf == [x \in Names \X decisions |-> x[1] % 2]
<1>2. Built(world, asOf, decisions)
        = BuildTrainingExamples(view, world.spec, asOf, decisions, universe, groupOf)
  BY DEF Built
<1>3. view.days = DaysOf(world)
  BY DEF View, FromPit, FromRecords
<1> HIDE DEF view, universe, groupOf
<1>4. Days(view.days)
  BY <1>3, CalendarDays
<1>5. /\ r \in BuildTrainingExamples(view, world.spec, asOf, decisions, universe, groupOf).records
      /\ q \in BuildTrainingExamples(view, world.spec, asOf, decisions, universe, groupOf).records
  BY <1>1, <1>2
<1>6. Family(world.spec)
  BY DEF TargetsInv, FamilyAccepted
<1>7. OverBefore(world.spec, view.days, r.point, q.point)
  BY <1>4, <1>5, <1>6, CleanWindowsFollow
<1> QED
  BY <1>3, <1>7

\* In every run, whatever its market, securities and months: the windows of the
\* examples that are called clean share no session with a later one, and no time
\* at all but the night that windows from a close to an open may share
\* (build_training_examples, called by the target stage of the pipeline).
THEOREM RunWindowsApart == Spec => []CleanWindowsApart
  BY TargetsInit, TargetsStep, TargetsApart, PTL DEF Spec

-----------------------------------------------------------------------------
(* The stamps of features.                                                   *)

LEMMA FeatureMaxIs == \A S : F!Max(S) = Max(S)
  BY DEF F!Max, Max

\* A set of integers that is bounded and not empty has a maximum.
LEMMA BoundedMaxIn ==
  ASSUME NEW S \in SUBSET Int, S # {}, NEW top \in Int, \A x \in S : x <= top
  PROVE  Max(S) \in S /\ \A x \in S : x <= Max(S)
<1> DEFINE T == {top - x : x \in S}
<1>1. T \in SUBSET Nat /\ T # {}
  <2>1. \A x \in S : x \in Int /\ top - x \in Nat
    OBVIOUS
  <2> QED
    BY <2>1
<1>2. Min(T) \in T /\ \A y \in T : Min(T) <= y
  <2> HIDE DEF T
  <2> QED
    BY <1>1, MinIn
<1>3. PICK m \in S : \A x \in S : x <= m
  <2>1. PICK m \in S : Min(T) = top - m
    BY <1>2
  <2>2. \A x \in S : top - x \in T
    OBVIOUS
  <2>3. \A x \in S : top - m <= top - x
    BY <1>2, <2>1, <2>2
  <2>4. \A x \in S : x <= m
    BY <2>3
  <2> QED
    BY <2>4
<1>4. \E x \in S : \A y \in S : x >= y
  BY <1>3
<1>5. Max(S) \in S /\ \A y \in S : Max(S) >= y
  BY <1>4, Zenon DEF Max
<1> QED
  BY <1>5

\* Of finitely many rows there is one that no other was told after.
After(q, r) == r.known < q.known \/ (r.known = q.known /\ r.vintage < q.vintage)
LEMMA ToldLast ==
  ASSUME NEW Q, IsFiniteSet(Q), Q # {}, \A r \in Q : r.known \in Int /\ r.vintage \in Int
  PROVE  \E r \in Q : \A q \in Q : ~After(q, r)
<1> DEFINE later(r) == {q \in Q : After(q, r)}
           count == [r \in Q |-> Cardinality(later(r))]
           Below == OpToRel(<, Nat)
<1>1. \A r \in Q : IsFiniteSet(later(r)) /\ count[r] \in Nat
  <2> SUFFICES ASSUME NEW r \in Q PROVE IsFiniteSet(later(r)) /\ Cardinality(later(r)) \in Nat
    OBVIOUS
  <2>1. later(r) \in SUBSET Q
    OBVIOUS
  <2> HIDE DEF later
  <2> QED
    BY <2>1, FS_Subset, FS_CardinalityType
<1>2. PICK r \in Q : \A q \in Q : count[r] <= count[q]
  <2> DEFINE all == {count[q] : q \in Q}
  <2>1. all \in SUBSET Nat /\ all # {}
    BY <1>1
  <2>2. Min(all) \in all /\ \A y \in all : Min(all) <= y
    <3> HIDE DEF all
    <3> QED
      BY <2>1, MinIn
  <2> HIDE DEF count
  <2> QED
    BY <2>2
<1>3. ASSUME NEW q \in Q, After(q, r) PROVE FALSE
  <2>1. later(q) \in SUBSET later(r)
    BY <1>3 DEF After
  <2>2. q \in later(r) /\ q \notin later(q)
    BY <1>3 DEF After
  <2>3. count[r] = Cardinality(later(r)) /\ count[q] = Cardinality(later(q)) /\ count[r] <= count[q]
        /\ IsFiniteSet(later(r)) /\ count[r] \in Nat /\ count[q] \in Nat
    BY <1>1, <1>2
  <2> HIDE DEF count, later
  <2>4. Cardinality(later(q)) <= Cardinality(later(r))
        /\ (Cardinality(later(r)) = Cardinality(later(q)) => later(r) = later(q))
    BY <2>1, <2>3, FS_Subset
  <2>5. later(r) # later(q)
    BY <2>2
  <2> QED
    BY <2>3, <2>4, <2>5
<1> QED
  BY <1>3

\* The rows asked for that were known by a cutoff, and the latest of each event.
KnownBy(rows, S, metric, cut) ==
    {r \in rows : r.security \in S /\ (metric # None => r.metric = metric) /\ r.known <= cut}
Latest(table, known) ==
    {r \in known : \A q \in known : F!EventKey(table, q) = F!EventKey(table, r)
       => q.known < r.known \/ (q.known = r.known /\ q.vintage <= r.vintage)}
CutoffOf(ctx, table, at) == F!KnowledgeCutoff(ctx.pit, table, at, F!AppliedLag(ctx, table))

LEMMA FrameIs ==
  ASSUME NEW ctx, NEW table, NEW metric, NEW S, NEW at
  PROVE  F!Frame(ctx, table, metric, S, at)
           = LET known == KnownBy(ctx.pit.rows[table], S, metric, CutoffOf(ctx, table, at))
             IN IF ~F!Vintaged(table) THEN known ELSE Latest(table, known)
<1> DEFINE asked == {r \in ctx.pit.rows[table] : r.security \in S /\ (metric # None => r.metric = metric)}
           cut == CutoffOf(ctx, table, at)
<1>1. F!Knowable(asked, cut) = KnownBy(ctx.pit.rows[table], S, metric, cut)
  <2> HIDE DEF cut
  <2> QED
    BY DEF F!Knowable, KnownBy
<1> QED
  BY <1>1, Zenon DEF F!Frame, F!AsOfFrame, Latest, CutoffOf

\* What came before is not lost with what came after it: an event's rows are of
\* one security.
LEMMA EventOfOne ==
  ASSUME NEW table, F!Vintaged(table), NEW q, NEW r, F!EventKey(table, q) = F!EventKey(table, r)
  PROVE  q.security = r.security
<1>1. CASE table = "fundamentals"
  BY <1>1 DEF F!EventKey
<1>2. CASE table = "estimates"
  BY <1>2 DEF F!EventKey
<1> QED
  BY <1>1, <1>2 DEF F!Vintaged

\* A frame is the same without rows that a larger frame does not show.
LEMMA FrameKept ==
  ASSUME NEW ctx, NEW again, again.spec = ctx.spec, again.pit.lags = ctx.pit.lags,
         NEW table, NEW metric, NEW S, NEW T, T \subseteq S, NEW at,
         again.pit.rows[table] \subseteq ctx.pit.rows[table],
         F!Frame(ctx, table, metric, S, at) \subseteq again.pit.rows[table],
         F!Vintaged(table) => /\ IsFiniteSet(ctx.pit.rows[table])
                              /\ \A r \in ctx.pit.rows[table] : r.known \in Int /\ r.vintage \in Int
  PROVE  F!Frame(again, table, metric, T, at) = F!Frame(ctx, table, metric, T, at)
<1> DEFINE cut == CutoffOf(ctx, table, at)
           all == KnownBy(ctx.pit.rows[table], S, metric, cut)
           old == KnownBy(ctx.pit.rows[table], T, metric, cut)
           new == KnownBy(again.pit.rows[table], T, metric, cut)
<1>1. CutoffOf(again, table, at) = cut
  BY Zenon DEF CutoffOf, F!AppliedLag, F!KnowledgeCutoff, F!EffectiveLag
<1>2. /\ F!Frame(ctx, table, metric, S, at) = IF ~F!Vintaged(table) THEN all ELSE Latest(table, all)
      /\ F!Frame(ctx, table, metric, T, at) = IF ~F!Vintaged(table) THEN old ELSE Latest(table, old)
      /\ F!Frame(again, table, metric, T, at) = IF ~F!Vintaged(table) THEN new ELSE Latest(table, new)
  BY <1>1, FrameIs, Zenon
<1>3. /\ new \subseteq old /\ old \subseteq all /\ old \subseteq ctx.pit.rows[table]
      /\ \A r \in old : r \in again.pit.rows[table] => r \in new
      /\ \A q \in all, r \in old : q.security = r.security => q \in old
  BY DEF KnownBy
<1> HIDE DEF all, old, new, cut
<1>4. CASE ~F!Vintaged(table)
  <2>1. F!Frame(ctx, table, metric, S, at) = all
    BY <1>2, <1>4, Zenon
  <2>2. new = old
    BY <1>3, <2>1
  <2> QED
    BY <1>2, <1>4, <2>2, Zenon
<1>5. CASE F!Vintaged(table)
  <2>1. \A r \in Latest(table, old) : r \in Latest(table, all)
    BY <1>3, <1>5, EventOfOne DEF Latest
  <2>2. \A r \in Latest(table, old) : r \in new
    BY <1>2, <1>3, <1>5, <2>1 DEF Latest
  <2>3. \A r \in Latest(table, old) : r \in Latest(table, new)
    BY <1>3, <2>2 DEF Latest
  <2>4. ASSUME NEW r \in Latest(table, new), NEW q \in old, F!EventKey(table, q) = F!EventKey(table, r)
        PROVE  q.known < r.known \/ (q.known = r.known /\ q.vintage <= r.vintage)
    <3> DEFINE Q == {x \in old : F!EventKey(table, x) = F!EventKey(table, r)}
    <3>1. Q \in SUBSET ctx.pit.rows[table] /\ q \in Q
      BY <1>3, <2>4
    <3>2. IsFiniteSet(Q) /\ \A x \in Q : x.known \in Int /\ x.vintage \in Int
      <4> HIDE DEF Q
      <4> QED
        BY <1>5, <3>1, FS_Subset
    <3>3. PICK x \in Q : \A y \in Q : ~After(y, x)
      <4> HIDE DEF Q
      <4> QED
        BY <3>1, <3>2, ToldLast
    <3>4. \A y \in old : F!EventKey(table, y) = F!EventKey(table, x)
                           => y.known < x.known \/ (y.known = x.known /\ y.vintage <= x.vintage)
      <4> SUFFICES ASSUME NEW y \in old, F!EventKey(table, y) = F!EventKey(table, x)
                   PROVE  y.known < x.known \/ (y.known = x.known /\ y.vintage <= x.vintage)
        OBVIOUS
      <4>1. y \in Q /\ x \in Q
        OBVIOUS
      <4> HIDE DEF Q
      <4> QED
        BY <3>2, <3>3, <4>1 DEF After
    <3>5. x \in Latest(table, old) /\ F!EventKey(table, x) = F!EventKey(table, r)
      BY <3>4 DEF Latest
    <3>6. x.known < r.known \/ (x.known = r.known /\ x.vintage <= r.vintage)
      BY <2>2, <3>5 DEF Latest
    <3>7. r \in Q
      BY <1>3 DEF Latest
    <3> HIDE DEF Q
    <3> QED
      BY <3>1, <3>2, <3>3, <3>6, <3>7 DEF After
  <2>5. \A r \in Latest(table, new) : r \in Latest(table, old)
    BY <1>3, <2>4 DEF Latest
  <2>6. Latest(table, new) = Latest(table, old)
    BY <2>3, <2>5
  <2> QED
    BY <1>2, <1>5, <2>6, Zenon
<1> QED
  BY <1>4, <1>5

\* What a store holds of the tables that features read.
Tables == {"prices", "fundamentals", "estimates"}
Shelf(pit) ==
    /\ {"rows", "lags"} \subseteq DOMAIN pit /\ Tables \subseteq DOMAIN pit.rows
    /\ \A t \in Tables :
         /\ pit.lags[t] \in Nat
         /\ t # "prices" => IsFiniteSet(pit.rows[t])
         /\ \A r \in pit.rows[t] : r.known \in Int /\ (t # "prices" => r.vintage \in Int)

\* The fields that a feature declares, and that its kernel reads.
Declares(fields, tables, metric) ==
    /\ \A f \in fields : f[1] \in tables
    /\ \A t \in tables : \E f \in fields : f[1] = t /\ (t # "prices" => f[2] = metric)
Declared(e) ==
    \/ /\ e.id \in {"momentum_12_1", "reversal_1m", "size_neg_log_mcap", "volatility_60d", "adv_dollar_20d"}
       /\ Declares(e.fields, {"prices"}, "close")
    \/ e.id = "book_to_price" /\ Declares(e.fields, {"fundamentals", "prices"}, "BOOK_VALUE")
    \/ e.id = "earnings_yield" /\ Declares(e.fields, {"fundamentals", "prices"}, "EPS_WAD")
    \/ e.id = "eps_revision_3m" /\ Declares(e.fields, {"estimates"}, "EPS")
    \/ e.id = "asset_growth_1y" /\ Declares(e.fields, {"fundamentals"}, "TOT_ASSET")

LEMMA EntriesDeclare ==
  ASSUME NEW i \in DOMAIN F!Library
  PROVE  LET e == F!Library[i] IN Declared(e) /\ e.lag \in Nat /\ \A f \in e.fields : f[1] \in Tables
<1>1. i \in 1 .. 9
  BY DEF F!Library
<1>2. /\ F!Library[1] = F!Entry("momentum_12_1", {<<"prices", "close">>}, 0)
      /\ F!Library[2] = F!Entry("reversal_1m", {<<"prices", "close">>}, 0)
      /\ F!Library[3] = F!Entry("size_neg_log_mcap", {<<"prices", "mcap">>}, 0)
      /\ F!Library[4] = F!Entry("book_to_price", {<<"fundamentals", "BOOK_VALUE">>, <<"prices", "mcap">>}, 90)
      /\ F!Library[5] = F!Entry("earnings_yield", {<<"fundamentals", "EPS_WAD">>, <<"prices", "close">>}, 90)
      /\ F!Library[6] = F!Entry("eps_revision_3m", {<<"estimates", "EPS">>}, 0)
      /\ F!Library[7] = F!Entry("volatility_60d", {<<"prices", "close">>}, 0)
      /\ F!Library[8] = F!Entry("adv_dollar_20d", {<<"prices", "close">>, <<"prices", "volume">>}, 0)
      /\ F!Library[9] = F!Entry("asset_growth_1y", {<<"fundamentals", "TOT_ASSET">>}, 90)
  BY DEF F!Library
<1>3. /\ Declares({<<"prices", "close">>}, {"prices"}, "close")
      /\ Declares({<<"prices", "mcap">>}, {"prices"}, "close")
      /\ Declares({<<"prices", "close">>, <<"prices", "volume">>}, {"prices"}, "close")
      /\ Declares({<<"fundamentals", "BOOK_VALUE">>, <<"prices", "mcap">>}, {"fundamentals", "prices"}, "BOOK_VALUE")
      /\ Declares({<<"fundamentals", "EPS_WAD">>, <<"prices", "close">>}, {"fundamentals", "prices"}, "EPS_WAD")
      /\ Declares({<<"fundamentals", "TOT_ASSET">>}, {"fundamentals"}, "TOT_ASSET")
      /\ Declares({<<"estimates", "EPS">>}, {"estimates"}, "EPS")
  BY DEF Declares
<1>4. \A j \in 1 .. 9 : Declared(F!Library[j]) /\ F!Library[j].lag \in Nat
  <2>1. Declared(F!Library[1]) /\ F!Library[1].lag \in Nat
    <3>1. /\ F!Library[1].id = "momentum_12_1" /\ F!Library[1].lag = 0
          /\ F!Library[1].fields = {<<"prices", "close">>}
      BY <1>2 DEF F!Entry
    <3> QED
      BY <1>3, <3>1 DEF Declared
  <2>2. Declared(F!Library[2]) /\ F!Library[2].lag \in Nat
    <3>1. /\ F!Library[2].id = "reversal_1m" /\ F!Library[2].lag = 0
          /\ F!Library[2].fields = {<<"prices", "close">>}
      BY <1>2 DEF F!Entry
    <3> QED
      BY <1>3, <3>1 DEF Declared
  <2>3. Declared(F!Library[3]) /\ F!Library[3].lag \in Nat
    <3>1. /\ F!Library[3].id = "size_neg_log_mcap" /\ F!Library[3].lag = 0
          /\ F!Library[3].fields = {<<"prices", "mcap">>}
      BY <1>2 DEF F!Entry
    <3> QED
      BY <1>3, <3>1 DEF Declared
  <2>4. Declared(F!Library[4]) /\ F!Library[4].lag \in Nat
    <3>1. /\ F!Library[4].id = "book_to_price" /\ F!Library[4].lag = 90
          /\ F!Library[4].fields = {<<"fundamentals", "BOOK_VALUE">>, <<"prices", "mcap">>}
      BY <1>2 DEF F!Entry
    <3> QED
      BY <1>3, <3>1 DEF Declared
  <2>5. Declared(F!Library[5]) /\ F!Library[5].lag \in Nat
    <3>1. /\ F!Library[5].id = "earnings_yield" /\ F!Library[5].lag = 90
          /\ F!Library[5].fields = {<<"fundamentals", "EPS_WAD">>, <<"prices", "close">>}
      BY <1>2 DEF F!Entry
    <3> QED
      BY <1>3, <3>1 DEF Declared
  <2>6. Declared(F!Library[6]) /\ F!Library[6].lag \in Nat
    <3>1. /\ F!Library[6].id = "eps_revision_3m" /\ F!Library[6].lag = 0
          /\ F!Library[6].fields = {<<"estimates", "EPS">>}
      BY <1>2 DEF F!Entry
    <3> QED
      BY <1>3, <3>1 DEF Declared
  <2>7. Declared(F!Library[7]) /\ F!Library[7].lag \in Nat
    <3>1. /\ F!Library[7].id = "volatility_60d" /\ F!Library[7].lag = 0
          /\ F!Library[7].fields = {<<"prices", "close">>}
      BY <1>2 DEF F!Entry
    <3> QED
      BY <1>3, <3>1 DEF Declared
  <2>8. Declared(F!Library[8]) /\ F!Library[8].lag \in Nat
    <3>1. /\ F!Library[8].id = "adv_dollar_20d" /\ F!Library[8].lag = 0
          /\ F!Library[8].fields = {<<"prices", "close">>, <<"prices", "volume">>}
      BY <1>2 DEF F!Entry
    <3> QED
      BY <1>3, <3>1 DEF Declared
  <2>9. Declared(F!Library[9]) /\ F!Library[9].lag \in Nat
    <3>1. /\ F!Library[9].id = "asset_growth_1y" /\ F!Library[9].lag = 90
          /\ F!Library[9].fields = {<<"fundamentals", "TOT_ASSET">>}
      BY <1>2 DEF F!Entry
    <3> QED
      BY <1>3, <3>1 DEF Declared
  <2> QED
    BY <2>1, <2>2, <2>3, <2>4, <2>5, <2>6, <2>7, <2>8, <2>9
<1>5. \A f \in F!Library[i].fields : f[1] \in Tables
  BY <1>1, <1>4 DEF Declared, Declares, Tables
<1> QED
  BY <1>1, <1>4, <1>5

\* The lag that is applied to a table, and that a stamp carries.
LEMMA LagApplied ==
  ASSUME NEW ctx, Shelf(ctx.pit), ctx.spec.lag \in Nat, NEW t \in Tables
  PROVE  /\ F!StampLag(ctx, t) = F!EffectiveLag(ctx.pit, t, IF t = "prices" THEN None ELSE ctx.spec.lag)
         /\ F!StampLag(ctx, t) \in Int
<1>1. F!Vintaged(t) <=> t # "prices"
  BY DEF F!Vintaged, Tables
<1>2. \A l : F!EffectiveLag(ctx.pit, t, l) = F!Max({ctx.pit.lags[t], IF l = None THEN 0 ELSE l})
  BY DEF F!EffectiveLag
<1>3. F!StampLag(ctx, t) = F!EffectiveLag(ctx.pit, t, F!AppliedLag(ctx, t))
  BY DEF F!StampLag
<1>4. F!AppliedLag(ctx, t) = IF t # "prices" /\ ctx.spec.lag > 0 THEN ctx.spec.lag ELSE None
  BY <1>1 DEF F!AppliedLag
<1>5. F!StampLag(ctx, t) = F!EffectiveLag(ctx.pit, t, IF t = "prices" THEN None ELSE ctx.spec.lag)
  <2>1. CASE t = "prices"
    BY <1>3, <1>4, <2>1
  <2>2. CASE t # "prices" /\ ctx.spec.lag = 0
    BY <1>2, <1>3, <1>4, <2>2
  <2>3. CASE t # "prices" /\ ctx.spec.lag > 0
    BY <1>3, <1>4, <2>3
  <2> QED
    BY <2>1, <2>2, <2>3
<1>6. ASSUME NEW a \in Nat, NEW b \in Nat PROVE Max({a, b}) \in Int
  <2>1. {a, b} \in SUBSET Int /\ {a, b} # {} /\ a + b \in Int /\ \A x \in {a, b} : x <= a + b
    OBVIOUS
  <2>2. Max({a, b}) \in {a, b}
    BY <2>1, BoundedMaxIn
  <2> QED
    BY <2>2
<1>7. ctx.pit.lags[t] \in Nat
  BY DEF Shelf
<1>8. \A l : (IF l = None THEN 0 ELSE l) \in Nat => F!EffectiveLag(ctx.pit, t, l) \in Int
  BY <1>2, <1>6, <1>7, FeatureMaxIs
<1>9. (IF F!AppliedLag(ctx, t) = None THEN 0 ELSE F!AppliedLag(ctx, t)) \in Nat
  BY <1>4
<1> QED
  BY <1>3, <1>5, <1>8, <1>9

\* Two contexts in which what a feature reads of some securities is the same.
ReadsAlike(ctx, again, S) ==
    \A f \in ctx.spec.fields : \A at \in F!Instants(ctx, f[1]) :
      F!Frame(again, f[1], F!MetricOf(f), S, at) = F!Frame(ctx, f[1], F!MetricOf(f), S, at)

LEMMA FramesAlike ==
  ASSUME NEW ctx, NEW again, NEW S, ReadsAlike(ctx, again, S), NEW tables, NEW metric,
         Declares(ctx.spec.fields, tables, metric)
  PROVE  /\ "prices" \in tables => F!Frame(again, "prices", None, S, ctx.asOf) = F!Frame(ctx, "prices", None, S, ctx.asOf)
         /\ \A t \in tables \cap {"fundamentals", "estimates"} :
              \A at \in F!Instants(ctx, t) : F!Frame(again, t, metric, S, at) = F!Frame(ctx, t, metric, S, at)
<1>1. /\ \A f : f[1] = "prices" => F!MetricOf(f) = None
      /\ \A f : f[1] \in {"fundamentals", "estimates"} => F!MetricOf(f) = f[2]
  BY DEF F!MetricOf, F!MetricIds
<1>2. ctx.asOf \in F!Instants(ctx, "prices")
  BY DEF F!Instants
<1>3. ASSUME "prices" \in tables
      PROVE  F!Frame(again, "prices", None, S, ctx.asOf) = F!Frame(ctx, "prices", None, S, ctx.asOf)
  <2>1. PICK f \in ctx.spec.fields : f[1] = "prices"
    BY <1>3 DEF Declares
  <2> QED
    BY <1>1, <1>2, <2>1 DEF ReadsAlike
<1>4. ASSUME NEW t \in tables \cap {"fundamentals", "estimates"}, NEW at \in F!Instants(ctx, t)
      PROVE  F!Frame(again, t, metric, S, at) = F!Frame(ctx, t, metric, S, at)
  <2>1. PICK f \in ctx.spec.fields : f[1] = t /\ f[2] = metric
    BY <1>4 DEF Declares
  <2> QED
    BY <1>1, <1>4, <2>1 DEF ReadsAlike
<1> QED
  BY <1>3, <1>4

\* A kernel observes the same where the reads that were declared are the same.
LEMMA ObservedAlike ==
  ASSUME NEW ctx, NEW again, again.spec = ctx.spec, again.asOf = ctx.asOf, NEW s,
         ReadsAlike(ctx, again, {s}), Declared(ctx.spec)
  PROVE  F!Observe(again, s) = F!Observe(ctx, s)
<1>1. ctx.asOf \in F!Instants(ctx, "fundamentals") /\ ctx.asOf \in F!Instants(ctx, "estimates")
      /\ ctx.asOf - 2 * F!RevisionLookback \in F!Instants(ctx, "estimates")
  BY DEF F!Instants
<1>2. ASSUME F!Frame(again, "prices", None, {s}, ctx.asOf) = F!Frame(ctx, "prices", None, {s}, ctx.asOf)
      PROVE  F!Bars(again, s) = F!Bars(ctx, s)
  BY <1>2 DEF F!Bars
<1>3. ASSUME NEW metric,
             F!Frame(again, "fundamentals", metric, {s}, ctx.asOf) = F!Frame(ctx, "fundamentals", metric, {s}, ctx.asOf)
      PROVE  F!LatestFundamental(again, s, metric) = F!LatestFundamental(ctx, s, metric)
  <2>1. F!Frame(again, "fundamentals", metric, {s}, again.asOf) = F!Frame(ctx, "fundamentals", metric, {s}, ctx.asOf)
    BY <1>3
  <2> DEFINE newest(known) == CHOOSE r \in known : \A q \in known : q.period <= r.period
             answer(known, asOf) ==
               IF known = {} \/ F!DayOf(asOf) - newest(known).period > F!FundamentalMaxAge THEN None ELSE newest(known)
  <2>2. \A c : F!LatestFundamental(c, s, metric) = answer(F!Frame(c, "fundamentals", metric, {s}, c.asOf), c.asOf)
    BY Zenon DEF F!LatestFundamental
  <2> HIDE DEF answer
  <2> QED
    BY <2>1, <2>2
<1>4. CASE ctx.spec.id \in {"momentum_12_1", "reversal_1m", "size_neg_log_mcap", "volatility_60d", "adv_dollar_20d"}
  <2>1. F!Bars(again, s) = F!Bars(ctx, s)
    BY <1>2, <1>4, FramesAlike DEF Declared
  <2>2. F!Momentum(again, s) = F!Momentum(ctx, s) /\ F!Reversal(again, s) = F!Reversal(ctx, s)
    BY <2>1 DEF F!Momentum, F!Reversal
  <2>3. F!Size(again, s) = F!Size(ctx, s)
    BY <2>1, Zenon DEF F!Size
  <2>4. \A days, fields : F!Window(again, s, days, fields) = F!Window(ctx, s, days, fields)
    BY <2>1, Zenon DEF F!Window
  <2>5. F!Volatility(again, s) = F!Volatility(ctx, s)
    BY <2>4, Zenon DEF F!Volatility
  <2>6. F!AdvDollar(again, s) = F!AdvDollar(ctx, s)
    BY <2>4, Zenon DEF F!AdvDollar
  <2> HIDE DEF F!Observe
  <2> QED
    BY <1>4, <2>2, <2>3, <2>5, <2>6 DEF F!Observe
<1>5. CASE ctx.spec.id = "book_to_price"
  <2>1. /\ F!Bars(again, s) = F!Bars(ctx, s)
        /\ F!LatestFundamental(again, s, "BOOK_VALUE") = F!LatestFundamental(ctx, s, "BOOK_VALUE")
    BY <1>1, <1>2, <1>3, <1>5, FramesAlike DEF Declared
  <2>2. F!BookToPrice(again, s) = F!BookToPrice(ctx, s)
    BY <2>1, Zenon DEF F!BookToPrice, F!PerPrice
  <2> QED
    BY <1>5, <2>2 DEF F!Observe
<1>6. CASE ctx.spec.id = "earnings_yield"
  <2>1. /\ F!Bars(again, s) = F!Bars(ctx, s)
        /\ F!LatestFundamental(again, s, "EPS_WAD") = F!LatestFundamental(ctx, s, "EPS_WAD")
    BY <1>1, <1>2, <1>3, <1>6, FramesAlike DEF Declared
  <2>2. F!EarningsYield(again, s) = F!EarningsYield(ctx, s)
    BY <2>1, Zenon DEF F!EarningsYield, F!PerPrice
  <2> QED
    BY <1>6, <2>2 DEF F!Observe
<1>7. CASE ctx.spec.id = "eps_revision_3m"
  <2>1. \A at \in F!Instants(ctx, "estimates") :
          F!Frame(again, "estimates", "EPS", {s}, at) = F!Frame(ctx, "estimates", "EPS", {s}, at)
    BY <1>7, FramesAlike DEF Declared
  <2>2. F!EpsRevision(again, s) = F!EpsRevision(ctx, s)
    BY <1>1, <2>1, Zenon DEF F!EpsRevision
  <2> QED
    BY <1>7, <2>2 DEF F!Observe
<1>8. CASE ctx.spec.id = "asset_growth_1y"
  <2>1. F!Frame(again, "fundamentals", "TOT_ASSET", {s}, ctx.asOf)
          = F!Frame(ctx, "fundamentals", "TOT_ASSET", {s}, ctx.asOf)
    BY <1>1, <1>8, FramesAlike DEF Declared
  <2>2. F!AssetGrowth(again, s) = F!AssetGrowth(ctx, s)
    <3>1. F!LatestFundamental(again, s, "TOT_ASSET") = F!LatestFundamental(ctx, s, "TOT_ASSET")
      BY <1>3, <2>1
    <3>2. F!Frame(again, "fundamentals", "TOT_ASSET", {s}, again.asOf)
            = F!Frame(ctx, "fundamentals", "TOT_ASSET", {s}, ctx.asOf)
      BY <2>1
    <3> QED
      BY <3>1, <3>2, Zenon DEF F!AssetGrowth
  <2> QED
    BY <1>8, <2>2 DEF F!Observe
<1> QED
  BY <1>4, <1>5, <1>6, <1>7, <1>8 DEF Declared

\* The stamps of the rows that are read; none is later than the computation.
Stamped(ctx, S, f, at, x) ==
    \E r \in F!Frame(ctx, f[1], F!MetricOf(f), S, at) : x = r.known + 2 * F!StampLag(ctx, f[1])

LEMMA StampsAre ==
  ASSUME NEW ctx, NEW S, NEW x
  PROVE  x \in F!ReadStamps(ctx, S) <=> \E f \in ctx.spec.fields : \E at \in F!Instants(ctx, f[1]) : Stamped(ctx, S, f, at, x)
<1>1. \A f : (\E r \in F!ReadRows(ctx, f, S) : x = r.known + 2 * F!StampLag(ctx, f[1]))
             <=> \E at \in F!Instants(ctx, f[1]) : Stamped(ctx, S, f, at, x)
  BY DEF F!ReadRows, Stamped
<1>2. x \in F!ReadStamps(ctx, S)
        <=> \E f \in ctx.spec.fields : \E r \in F!ReadRows(ctx, f, S) : x = r.known + 2 * F!StampLag(ctx, f[1])
  BY DEF F!ReadStamps
<1> QED
  BY <1>1, <1>2, Zenon

LEMMA StampsInTime ==
  ASSUME NEW ctx, Shelf(ctx.pit), ctx.spec.lag \in Nat, \A f \in ctx.spec.fields : f[1] \in Tables,
         ctx.asOf \in Int, NEW S
  PROVE  \A x \in F!ReadStamps(ctx, S) : x \in Int /\ x <= ctx.asOf
<1> SUFFICES ASSUME NEW x \in F!ReadStamps(ctx, S) PROVE x \in Int /\ x <= ctx.asOf
  OBVIOUS
<1>0. PICK f \in ctx.spec.fields : \E at \in F!Instants(ctx, f[1]) : Stamped(ctx, S, f, at, x)
  BY StampsAre
<1>1. PICK at \in F!Instants(ctx, f[1]) : Stamped(ctx, S, f, at, x)
  BY <1>0
<1>2. PICK r \in F!Frame(ctx, f[1], F!MetricOf(f), S, at) : x = r.known + 2 * F!StampLag(ctx, f[1])
  BY <1>1 DEF Stamped
<1>3. at \in Int /\ at <= ctx.asOf
  BY DEF F!Instants, F!RevisionLookback
<1>4. r \in KnownBy(ctx.pit.rows[f[1]], S, F!MetricOf(f), CutoffOf(ctx, f[1], at))
  BY FrameIs DEF Latest
<1>5. r \in ctx.pit.rows[f[1]] /\ r.known <= CutoffOf(ctx, f[1], at)
  BY <1>4 DEF KnownBy
<1>6. CutoffOf(ctx, f[1], at) = at - 2 * F!StampLag(ctx, f[1])
  BY Zenon DEF CutoffOf, F!KnowledgeCutoff, F!StampLag
<1>7. F!StampLag(ctx, f[1]) \in Int /\ r.known \in Int
  BY <1>5, LagApplied DEF Shelf
<1> QED
  BY <1>2, <1>3, <1>5, <1>6, <1>7

\* The rows that were usable by an instant, under the lags of a feature.
UsableBy(pit, spec, stamp) ==
    [t \in DOMAIN pit.rows |->
       {r \in pit.rows[t] :
          r.known + 2 * F!EffectiveLag(pit, t, IF t = "prices" THEN None ELSE spec.lag) <= stamp}]

\* Where the rows that are read are there, a smaller store is read alike.
LEMMA ReadAgain ==
  ASSUME NEW ctx, Shelf(ctx.pit), \A f \in ctx.spec.fields : f[1] \in Tables,
         NEW again, again.spec = ctx.spec, again.pit.lags = ctx.pit.lags,
         \A t \in Tables : again.pit.rows[t] \subseteq ctx.pit.rows[t],
         NEW S, \A f \in ctx.spec.fields : \A at \in F!Instants(ctx, f[1]) :
                  F!Frame(ctx, f[1], F!MetricOf(f), S, at) \subseteq again.pit.rows[f[1]],
         NEW T, T \subseteq S
  PROVE  ReadsAlike(ctx, again, T)
<1> SUFFICES ASSUME NEW f \in ctx.spec.fields, NEW at \in F!Instants(ctx, f[1])
             PROVE  F!Frame(again, f[1], F!MetricOf(f), T, at) = F!Frame(ctx, f[1], F!MetricOf(f), T, at)
  BY DEF ReadsAlike
<1>1. F!Vintaged(f[1]) => /\ IsFiniteSet(ctx.pit.rows[f[1]])
                          /\ \A r \in ctx.pit.rows[f[1]] : r.known \in Int /\ r.vintage \in Int
  BY DEF Shelf, F!Vintaged
<1>2. /\ again.pit.rows[f[1]] \subseteq ctx.pit.rows[f[1]]
      /\ F!Frame(ctx, f[1], F!MetricOf(f), S, at) \subseteq again.pit.rows[f[1]]
  OBVIOUS
<1> QED
  BY <1>1, <1>2, FrameKept

\* Read alike, a cross-section is computed alike.
FeatureOf(ctx, S) == F!Compute(ctx, S, [s \in S |-> F!Observe(ctx, s)])
LEMMA ComputedAgain ==
  ASSUME NEW ctx, NEW again, again.spec = ctx.spec, again.asOf = ctx.asOf, again.pit.lags = ctx.pit.lags,
         NEW S, Declared(ctx.spec), \A T : T \subseteq S => ReadsAlike(ctx, again, T)
  PROVE  FeatureOf(again, S) = FeatureOf(ctx, S)
<1> DEFINE observed == [s \in S |-> F!Observe(ctx, s)]
<1>1. [s \in S |-> F!Observe(again, s)] = observed
  <2> SUFFICES ASSUME NEW s \in S PROVE F!Observe(again, s) = F!Observe(ctx, s)
    OBVIOUS
  <2>1. ReadsAlike(ctx, again, {s})
    OBVIOUS
  <2> QED
    BY <2>1, ObservedAlike
<1>2. F!ReadStamps(again, S) = F!ReadStamps(ctx, S)
  <2>1. \A t : F!Instants(again, t) = F!Instants(ctx, t)
    BY DEF F!Instants
  <2>2. \A t : F!StampLag(again, t) = F!StampLag(ctx, t)
    BY Zenon DEF F!StampLag, F!AppliedLag, F!EffectiveLag
  <2>3. \A f \in ctx.spec.fields : \A at \in F!Instants(ctx, f[1]) :
          F!Frame(again, f[1], F!MetricOf(f), S, at) = F!Frame(ctx, f[1], F!MetricOf(f), S, at)
    <3>1. ReadsAlike(ctx, again, S)
      OBVIOUS
    <3> QED
      BY <3>1, Zenon DEF ReadsAlike
  <2>4. ASSUME NEW x PROVE x \in F!ReadStamps(again, S) <=> x \in F!ReadStamps(ctx, S)
    <3>1. \A f \in ctx.spec.fields : \A at \in F!Instants(ctx, f[1]) : Stamped(again, S, f, at, x) <=> Stamped(ctx, S, f, at, x)
      BY <2>2, <2>3 DEF Stamped
    <3>2. x \in F!ReadStamps(again, S)
            <=> \E f \in again.spec.fields : \E at \in F!Instants(again, f[1]) : Stamped(again, S, f, at, x)
      BY StampsAre
    <3>3. x \in F!ReadStamps(ctx, S)
            <=> \E f \in ctx.spec.fields : \E at \in F!Instants(ctx, f[1]) : Stamped(ctx, S, f, at, x)
      BY StampsAre
    <3> QED
      BY <2>1, <3>1, <3>2, <3>3
  <2> QED
    BY <2>4
<1> HIDE DEF observed
<1>3. F!Compute(again, S, observed) = F!Compute(ctx, S, observed)
  BY <1>2, Zenon DEF F!Compute
<1> QED
  BY <1>1, <1>3 DEF observed, FeatureOf

\* What the engine makes of one feature of the library (FeatureEngine.compute):
\* for any store, the rows that were usable by the stamp of its cross-section give
\* the same cross-section again, and the stamp is no later than the computation.
THEOREM StampSuffices ==
  ASSUME NEW pit, Shelf(pit), NEW i \in DOMAIN F!Library, NEW asOf \in Int, NEW S,
         NEW ctx, ctx = [pit |-> pit, spec |-> F!Library[i], asOf |-> asOf],
         NEW result, result = FeatureOf(ctx, S), result.rows # {},
         NEW stamp, stamp = Max({r.known : r \in result.rows}),
         NEW again, again = [ctx EXCEPT !.pit = [pit EXCEPT !.rows = UsableBy(pit, ctx.spec, stamp)]]
  PROVE  FeatureOf(again, S) = result /\ stamp <= asOf
<1> DEFINE observed == [s \in S |-> F!Observe(ctx, s)]
           kept == {s \in S : observed[s] # None}
           stamps == F!ReadStamps(ctx, S)
<1>1. /\ ctx.pit = pit /\ ctx.spec = F!Library[i] /\ ctx.asOf = asOf
      /\ ctx.spec.lag \in Nat /\ Declared(ctx.spec) /\ \A f \in ctx.spec.fields : f[1] \in Tables
  BY EntriesDeclare
<1>2. /\ again.spec = ctx.spec /\ again.asOf = ctx.asOf /\ again.pit.lags = ctx.pit.lags
      /\ \A t \in Tables : again.pit.rows[t] = UsableBy(pit, ctx.spec, stamp)[t]
  <2>1. again.pit = [pit EXCEPT !.rows = UsableBy(pit, ctx.spec, stamp)]
        /\ again.spec = ctx.spec /\ again.asOf = ctx.asOf
    BY <1>1
  <2>2. again.pit.rows = UsableBy(pit, ctx.spec, stamp) /\ again.pit.lags = pit.lags
    BY <2>1 DEF Shelf
  <2> QED
    BY <1>1, <2>1, <2>2
<1>3. /\ kept # {} /\ stamps # {}
      /\ result.rows = {[security |-> s, value |-> observed[s].value, observed |-> observed[s].at,
                         known |-> F!Max(stamps)] : s \in kept}
  BY DEF F!Compute, FeatureOf
<1>4. stamps \in SUBSET Int /\ \A x \in stamps : x <= asOf
  BY <1>1, StampsInTime
<1>5. stamp = Max(stamps)
  <2>1. result.rows # {} /\ \A r \in result.rows : r.known = Max(stamps)
    <3> DEFINE latest == F!Max(stamps)
    <3>1. latest = Max(stamps)
      BY FeatureMaxIs
    <3> HIDE DEF observed, kept, stamps, latest
    <3>2. result.rows = {[security |-> s, value |-> observed[s].value, observed |-> observed[s].at,
                          known |-> latest] : s \in kept}
      BY <1>3 DEF latest
    <3>3. \A r \in result.rows : r.known = latest
      BY <3>2
    <3> QED
      BY <3>1, <3>3
  <2>2. Max(stamps) \in Int
    BY <1>3, <1>4, BoundedMaxIn
  <2>3. \A x \in Int : Max({x}) = x
    BY BoundedMaxIn
  <2>4. {r.known : r \in result.rows} = {Max(stamps)}
    BY <2>1
  <2> QED
    BY <2>2, <2>3, <2>4
<1>6. stamp \in stamps /\ \A x \in stamps : x <= stamp
  BY <1>3, <1>4, <1>5, BoundedMaxIn
<1>7. \A f \in ctx.spec.fields : \A at \in F!Instants(ctx, f[1]) :
        F!Frame(ctx, f[1], F!MetricOf(f), S, at) \subseteq again.pit.rows[f[1]]
  <2> SUFFICES ASSUME NEW f \in ctx.spec.fields, NEW at \in F!Instants(ctx, f[1]),
                      NEW r \in F!Frame(ctx, f[1], F!MetricOf(f), S, at)
               PROVE  r \in again.pit.rows[f[1]]
    OBVIOUS
  <2>1. r \in KnownBy(ctx.pit.rows[f[1]], S, F!MetricOf(f), CutoffOf(ctx, f[1], at))
    BY FrameIs DEF Latest
  <2>2. r \in pit.rows[f[1]]
    BY <1>1, <2>1 DEF KnownBy
  <2>3. r.known + 2 * F!StampLag(ctx, f[1]) <= stamp
    BY <1>6, StampsAre DEF Stamped
  <2>4. f[1] \in Tables /\ f[1] \in DOMAIN pit.rows
    BY <1>1 DEF Shelf
  <2>5. r \in UsableBy(pit, ctx.spec, stamp)[f[1]]
    BY <1>1, <2>2, <2>3, <2>4, LagApplied DEF UsableBy
  <2> QED
    BY <1>2, <2>4, <2>5
<1>8. \A t \in Tables : again.pit.rows[t] \subseteq ctx.pit.rows[t]
  <2>1. \A t \in Tables : UsableBy(pit, ctx.spec, stamp)[t] \subseteq pit.rows[t]
    BY DEF UsableBy, Shelf
  <2> QED
    BY <1>1, <1>2, <2>1
<1>9. \A T : T \subseteq S => ReadsAlike(ctx, again, T)
  BY <1>1, <1>2, <1>7, <1>8, ReadAgain
<1> HIDE DEF observed, stamps
<1>10. FeatureOf(again, S) = FeatureOf(ctx, S)
  BY <1>1, <1>2, <1>9, ComputedAgain
<1>11. stamp <= asOf
  BY <1>4, <1>6
<1> QED
  BY <1>10, <1>11

-----------------------------------------------------------------------------
(* The library is registered whole.                                          *)

\* The entries are nine, with nine ids, of fields that there are.
Names9 == <<"momentum_12_1", "reversal_1m", "size_neg_log_mcap", "book_to_price", "earnings_yield",
            "eps_revision_3m", "volatility_60d", "adv_dollar_20d", "asset_growth_1y">>

LEMMA EntriesStand ==
  /\ DOMAIN F!Library = 1 .. 9
  /\ \A i \in 1 .. 9 : LET e == F!Library[i] IN
       /\ F!Key(e) = <<Names9[i], 1>> /\ F!ValidSpec(e) /\ e.fields # {}
       /\ \A f \in e.fields : F!ValidField(f)
<1>1. DOMAIN F!Library = 1 .. 9
  BY DEF F!Library
<1>2. \A id, fields, lag : LET e == F!Entry(id, fields, lag) IN
        e.id = id /\ e.fields = fields /\ e.lag = lag /\ e.version = 1 /\ e.minCoverage = 5
  BY DEF F!Entry
<1>3. \A x \in {"close", "mcap", "volume"} : F!ValidField(<<"prices", x>>)
  BY DEF F!ValidField, F!Columns, F!MetricIds
<1>4. \A m \in {"BOOK_VALUE", "TOT_ASSET", "EPS_WAD"} : F!ValidField(<<"fundamentals", m>>)
  BY DEF F!ValidField, F!Columns, F!MetricIds
<1>5. F!ValidField(<<"estimates", "EPS">>)
  BY DEF F!ValidField, F!Columns, F!MetricIds
<1>6. ASSUME NEW i \in 1 .. 9
      PROVE  /\ F!Library[i].id = Names9[i] /\ F!Library[i].version = 1 /\ F!Library[i].minCoverage = 5
             /\ F!Library[i].lag \in Nat
  BY DEF F!Library, F!Entry, Names9
<1>7. ASSUME NEW i \in 1 .. 9
      PROVE  F!Library[i].fields # {} /\ \A f \in F!Library[i].fields : F!ValidField(f)
  <2>1. \E x \in {"close", "mcap", "volume"}, m \in {"BOOK_VALUE", "TOT_ASSET", "EPS_WAD"} :
          F!Library[i].fields \in {{<<"prices", x>>}, {<<"prices", x>>, <<"prices", "volume">>},
                                   {<<"fundamentals", m>>, <<"prices", x>>}, {<<"fundamentals", m>>}, {<<"estimates", "EPS">>}}
    BY DEF F!Library, F!Entry
  <2> QED
    BY <1>3, <1>4, <1>5, <2>1
<1>8. ASSUME NEW i \in 1 .. 9 PROVE F!Key(F!Library[i]) = <<Names9[i], 1>> /\ F!ValidSpec(F!Library[i])
  BY <1>6 DEF F!Key, F!ValidSpec
<1> QED
  BY <1>1, <1>7, <1>8

LEMMA NamesApart == \A i, j \in 1 .. 9 : Names9[i] = Names9[j] => i = j
  BY DEF Names9

LEMMA RegistryHas ==
  \A i \in DOMAIN F!Library : /\ F!Key(F!Library[i]) \in DOMAIN F!BuildDefaultRegistry.specs
                              /\ F!BuildDefaultRegistry.specs[F!Key(F!Library[i])] = F!Library[i]
<1> DEFINE keys == [i \in DOMAIN F!Library |-> F!Key(F!Library[i])]
           empty == F!EmptyRegistry
           full == F!Register(empty, F!Library)
           specs == [k \in {} \cup F!Range(keys) |->
                       IF k \in {} THEN empty.specs[k] ELSE CHOOSE e \in F!Range(F!Library) : F!Key(e) = k]
<1>1. empty.specs = <<>> /\ empty.refused = FALSE /\ empty.lists = <<>> /\ DOMAIN empty = {"specs", "lists", "refused"}
  BY DEF F!EmptyRegistry
<1>2. DOMAIN empty.specs = {} /\ DOMAIN empty.lists = {}
  BY <1>1
<1>3. F!IsInjective(keys)
  BY EntriesStand, NamesApart DEF F!IsInjective
<1>4. \A e \in F!Range(F!Library) : F!ValidSpec(e) /\ e.fields # {} /\ \A f \in e.fields : F!ValidField(f)
  BY EntriesStand DEF F!Range
<1>5. full = [empty EXCEPT !.specs = specs]
  <2> HIDE DEF empty
  <2> QED
  BY <1>1, <1>2, <1>3, <1>4 DEF F!Register
<1>6. full.specs = specs /\ full.refused = FALSE /\ full.lists = <<>> /\ DOMAIN full = {"specs", "lists", "refused"}
  <2> HIDE DEF empty, specs, full
  <2> QED
    BY <1>1, <1>5
<1>7. ASSUME NEW i \in DOMAIN F!Library PROVE keys[i] \in DOMAIN specs /\ specs[keys[i]] = F!Library[i]
  <2>1. keys[i] \in F!Range(keys) /\ F!Library[i] \in F!Range(F!Library)
    BY DEF F!Range
  <2>2. \A e \in F!Range(F!Library) : F!Key(e) = keys[i] => e = F!Library[i]
    BY EntriesStand, NamesApart DEF F!Range
  <2>3. (CHOOSE e \in F!Range(F!Library) : F!Key(e) = keys[i]) = F!Library[i]
    BY <2>1, <2>2
  <2> QED
    BY <2>1, <2>3
<1>8. F!BuildDefaultRegistry.specs = specs
  <2>1. keys # <<>> /\ F!Range(keys) \subseteq DOMAIN specs
    BY EntriesStand DEF F!Range
  <2> HIDE DEF specs, full
  <2> QED
    BY <1>3, <1>6, <2>1 DEF F!BuildDefaultRegistry, F!DefineList, full
<1> QED
  BY <1>7, <1>8

-----------------------------------------------------------------------------
(* The features of the run.                                                  *)

LEMMA FewFinite == \A S, a, b, c, d : S = {a, b, c, d} => IsFiniteSet(S)
<1>1. \A S, x : IsFiniteSet(S) => IsFiniteSet(S \cup {x})
  BY FS_AddElement
<1> TAKE S, a, b, c, d
<1>2. IsFiniteSet(((({} \cup {a}) \cup {b}) \cup {c}) \cup {d})
  BY <1>1, FS_EmptySet
<1>3. {a, b, c, d} = ((({} \cup {a}) \cup {b}) \cup {c}) \cup {d}
  OBVIOUS
<1> QED
  BY <1>2, <1>3

LEMMA StatementsStored ==
  IsFiniteSet(Statements) /\ \A r \in Statements : r.known \in Int /\ r.vintage \in Int
<1> DEFINE metrics == {"BOOK_VALUE", "EPS_WAD", "TOT_ASSET"}
           told == {<<460, 1, 30, 505>>, <<820, 1, 50, 865>>, <<820, 2, 70, 905>>, <<910, 1, 40, 915>>}
           row == [x \in metrics \X told |->
                     [security |-> 1, metric |-> x[1], period |-> x[2][1], vintage |-> x[2][2], value |-> x[2][3],
                      known |-> 2 * x[2][4]]]
<1>1. \A v \in told : v[2] \in Int /\ v[4] \in Int
  OBVIOUS
<1>2. IsFiniteSet(metrics \X told)
  <2>1. metrics = {"BOOK_VALUE", "EPS_WAD", "TOT_ASSET", "TOT_ASSET"}
    OBVIOUS
  <2>2. IsFiniteSet(metrics)
    <3> HIDE DEF metrics
    <3> QED
      BY <2>1, FewFinite
  <2>3. IsFiniteSet(told)
    <3> DEFINE a == <<460, 1, 30, 505>>
               b == <<820, 1, 50, 865>>
               c == <<820, 2, 70, 905>>
               d == <<910, 1, 40, 915>>
    <3>1. told = {a, b, c, d}
      OBVIOUS
    <3> HIDE DEF told, a, b, c, d
    <3> QED
      BY <3>1, FewFinite
  <2> HIDE DEF metrics, told
  <2> QED
    BY <2>2, <2>3, FS_Product
<1>3. row \in Surjection(metrics \X told, Statements)
  <2>1. \A r : r \in Statements <=> \E m \in metrics, v \in told :
          r = [security |-> 1, metric |-> m, period |-> v[1], vintage |-> v[2], value |-> v[3], known |-> 2 * v[4]]
    BY DEF Statements
  <2> HIDE DEF metrics, told
  <2>2. \A x \in metrics \X told : row[x] \in Statements
    BY <2>1
  <2>3. \A r \in Statements : \E x \in metrics \X told : row[x] = r
    <3> SUFFICES ASSUME NEW r \in Statements PROVE \E x \in metrics \X told : row[x] = r
      OBVIOUS
    <3>1. PICK m \in metrics, v \in told :
            r = [security |-> 1, metric |-> m, period |-> v[1], vintage |-> v[2], value |-> v[3], known |-> 2 * v[4]]
      BY <2>1
    <3>2. row[<<m, v>>] = r
      BY <3>1
    <3> QED
      BY <3>2
  <2> QED
    BY <2>2, <2>3 DEF Surjection
<1>4. IsFiniteSet(Statements)
  <2> HIDE DEF metrics, told, row
  <2> QED
    BY <1>2, <1>3, FS_Surjection
<1>5. ASSUME NEW r \in Statements PROVE r.known \in Int /\ r.vintage \in Int
  <2>1. PICK m \in metrics, v \in told :
          r = [security |-> 1, metric |-> m, period |-> v[1], vintage |-> v[2], value |-> v[3], known |-> 2 * v[4]]
    BY DEF Statements
  <2> HIDE DEF told, metrics
  <2> QED
    BY <1>1, <2>1
<1> QED
  BY <1>4, <1>5

LEMMA EstimatesStored ==
  IsFiniteSet(Estimates) /\ \A r \in Estimates : r.known \in Int /\ r.vintage \in Int
<1> DEFINE told == {<<1, 4, 880>>, <<2, 5, 905>>, <<3, 7, 990>>, <<4, 9, 999>>}
           row == [v \in told |->
                     [security |-> 1, metric |-> "EPS", vintage |-> v[1], value |-> v[2], known |-> 2 * v[3]]]
<1>1. \A v \in told : v[1] \in Int /\ v[3] \in Int
  OBVIOUS
<1>2. IsFiniteSet(told)
  <2> DEFINE a == <<1, 4, 880>>
             b == <<2, 5, 905>>
             c == <<3, 7, 990>>
             d == <<4, 9, 999>>
  <2>1. told = {a, b, c, d}
    OBVIOUS
  <2> HIDE DEF told, a, b, c, d
  <2> QED
    BY <2>1, FewFinite
<1>3. Estimates = {row[v] : v \in told}
  <2>1. Estimates
          = {[security |-> 1, metric |-> "EPS", vintage |-> v[1], value |-> v[2], known |-> 2 * v[3]] : v \in told}
    BY DEF Estimates
  <2> HIDE DEF told
  <2> QED
    BY <2>1
<1>4. row \in Surjection(told, Estimates)
  <2> HIDE DEF told
  <2> QED
    BY <1>3 DEF Surjection
<1>5. IsFiniteSet(Estimates)
  <2> HIDE DEF told, row
  <2> QED
    BY <1>2, <1>4, FS_Surjection
<1>6. \A v \in told : row[v].known \in Int /\ row[v].vintage \in Int
  <2> HIDE DEF told
  <2> QED
    BY <1>1
<1> HIDE DEF row, told
<1> QED
  BY <1>3, <1>5, <1>6

LEMMA StoresShelve == \A pit \in Stores : Shelf(pit)
<1>1. \A b \in Bars : b.known \in Int
  BY DEF Bars, Today
<1> SUFFICES ASSUME NEW pit \in Stores PROVE Shelf(pit)
  OBVIOUS
<1>2. /\ DOMAIN pit = {"rows", "lags"} /\ DOMAIN pit.rows = Tables
      /\ pit.rows["prices"] \subseteq Bars /\ pit.rows["fundamentals"] \subseteq Statements
      /\ pit.rows["estimates"] \subseteq Estimates
      /\ pit.lags["prices"] \in Nat /\ pit.lags["fundamentals"] \in Nat /\ pit.lags["estimates"] \in Nat
  BY DEF Stores, Tables
<1>3. IsFiniteSet(pit.rows["fundamentals"]) /\ IsFiniteSet(pit.rows["estimates"])
  BY <1>2, StatementsStored, EstimatesStored, FS_Subset
<1> QED
  BY <1>1, <1>2, <1>3, StatementsStored, EstimatesStored DEF Shelf, Tables

\* The feature of the run was computed from a store, by a key of the library.
FeatureInv ==
    feature # None =>
        \E pit \in Stores, key \in FeatureKeys, asOf \in Int :
            feature = [pit |-> pit, key |-> key, asOf |-> asOf, result |-> ComputeOne(pit, key, asOf)]

LEMMA FeatureInit == Init => FeatureInv
  BY DEF Init, FeatureInv

LEMMA FeatureStep == FeatureInv /\ [Next]_vars => FeatureInv'
<1> SUFFICES ASSUME FeatureInv, [Next]_vars PROVE FeatureInv'
  OBVIOUS
<1>1. CASE UNCHANGED feature
  BY <1>1 DEF FeatureInv
<1>2. CASE ComputeFeature
  <2>1. PICK pit \in Stores, key \in FeatureKeys, day \in {Today, Today - 8, Today - 90} :
          feature' = [pit |-> pit, key |-> key, asOf |-> 2 * day, result |-> ComputeOne(pit, key, 2 * day)]
    BY <1>2 DEF ComputeFeature
  <2>2. 2 * day \in Int
    BY DEF Today
  <2> QED
    BY <2>1, <2>2 DEF FeatureInv
<1>3. UNCHANGED feature \/ ComputeFeature
  BY DEF Next, MakeTargets, MakeTargetsAndPanel, ScoreMonth, BoostOnce, vars
<1> QED
  BY <1>1, <1>2, <1>3

\* The stamp of a feature of the library is late enough, in any store of the run.
LEMMA FeatureHolds == FeatureInv => FeatureStampHolds
<1> SUFFICES ASSUME FeatureInv, feature # None, feature.result.rows # {} PROVE FeatureStampHolds
  BY DEF FeatureStampHolds
<1>1. PICK pit \in Stores, key \in FeatureKeys, asOf \in Int :
        feature = [pit |-> pit, key |-> key, asOf |-> asOf, result |-> ComputeOne(pit, key, asOf)]
  BY DEF FeatureInv
<1>2. PICK i \in DOMAIN F!Library : key = F!Key(F!Library[i])
  BY DEF FeatureKeys
<1> DEFINE spec == F!BuildDefaultRegistry.specs[key]
           ctx == [pit |-> pit, spec |-> F!Library[i], asOf |-> asOf]
           result == ComputeOne(pit, key, asOf)
           stamp == Max({r.known : r \in result.rows})
           usable == UsableBy(pit, spec, stamp)
           again == ComputeOne([pit EXCEPT !.rows = usable], key, asOf)
<1>3. feature.pit = pit /\ feature.key = key /\ feature.asOf = asOf /\ feature.result = result
  BY <1>1
<1>4. spec = F!Library[i] /\ \A store : F!ContextOf(F!BuildDefaultRegistry, store, key, asOf)
                                          = [pit |-> store, spec |-> F!Library[i], asOf |-> asOf]
  BY <1>2, RegistryHas DEF F!ContextOf
<1>5. \A store : ComputeOne(store, key, asOf)
                   = FeatureOf([pit |-> store, spec |-> F!Library[i], asOf |-> asOf], {1, 2})
  BY <1>4, Zenon DEF ComputeOne, FeatureOf
<1>6. /\ result = FeatureOf(ctx, {1, 2})
      /\ again = FeatureOf([ctx EXCEPT !.pit = [pit EXCEPT !.rows = UsableBy(pit, ctx.spec, stamp)]], {1, 2})
  <2>1. [ctx EXCEPT !.pit = [pit EXCEPT !.rows = UsableBy(pit, ctx.spec, stamp)]]
          = [pit |-> [pit EXCEPT !.rows = usable], spec |-> F!Library[i], asOf |-> asOf]
    BY <1>4
  <2> QED
    BY <1>5, <2>1, Zenon
<1>7. again = result /\ stamp <= asOf
  <2>1. result.rows # {} /\ Shelf(pit)
    BY <1>3, StoresShelve
  <2> HIDE DEF again, result, ctx, stamp
  <2> QED
    BY <1>6, <2>1, StampSuffices DEF ctx, stamp
<1> HIDE DEF again, result, spec
<1>8. /\ stamp = Max({r.known : r \in feature.result.rows})
      /\ again = ComputeOne([feature.pit EXCEPT !.rows = UsableBy(feature.pit, F!BuildDefaultRegistry.specs[feature.key],
                                                                  Max({r.known : r \in feature.result.rows}))],
                            feature.key, feature.asOf)
  BY <1>3, Zenon DEF again, spec
<1> QED
  BY <1>3, <1>7, <1>8, Zenon DEF FeatureStampHolds, UsableBy

\* What the engine computes of one feature, at any time and in any store of the
\* run: the rows that were usable by its stamp, under the lag of the store and of
\* the feature, give the same values, and the stamp is not ahead of the time.
THEOREM FeatureStampsHold == Spec => []FeatureStampHolds
  BY FeatureInit, FeatureStep, FeatureHolds, PTL DEF Spec
=============================================================================

--------------------------- MODULE WalkForwardProofs ---------------------------
(* Proofs about WalkForward: training ends before the fit, on an even grid  *)
(* the embargo keeps training and testing apart, the leakage checks of the  *)
(* loop never fire, and a run that ends has accounted for every test row.   *)
EXTENDS WalkForward, FiniteSetTheorems, NaturalsInduction, WellFoundedInduction, TLAPS

-----------------------------------------------------------------------------
(* Training on the past.                                                   *)

FitAt(k) == FitTime(FoldAt(k))

\* Every fit record is stamped with the fit time of its fold and was trained
\* on what had ended by then.
FitsStamped == \A f \in fits : /\ f.fit = FitAt(f.fold)
                               /\ \A r \in f.rows : r.end <= f.fit

\* A fold is scored after it was fitted.
ScoredAfterFit == at = "score" => \E f \in fits : f.fold = fold

\* Every prediction carries the fit time of its fold, which was fitted.
PredictionsStamped ==
  \A p \in predictions : /\ p.fit = FitAt(p.fold)
                         /\ p.fit <= p.record.day
                         /\ \E f \in fits : f.fold = p.fold

PastInv == FitsStamped /\ ScoredAfterFit /\ PredictionsStamped

\* Fit times depend on the settings alone, which never change.
LEMMA FitAtFixed == ASSUME settings' = settings, NEW k PROVE FitAt(k)' = FitAt(k)
  BY DEF FitAt, FitTime, FoldAt, Fold, RefitDays, TestLo, Grid

LEMMA PastInit == Init => PastInv
  BY DEF Init, PastInv, FitsStamped, ScoredAfterFit, PredictionsStamped

\* What changes neither the fits nor the predictions, and does not start to
\* score, keeps the invariant.
LEMMA PastKept ==
  ASSUME PastInv, UNCHANGED <<settings, fits, predictions>>,
         at' # "score" \/ UNCHANGED <<at, fold>>
  PROVE  PastInv'
<1>1. FitsStamped' /\ PredictionsStamped'
  BY FitAtFixed DEF PastInv, FitsStamped, PredictionsStamped
<1>2. ScoredAfterFit'
  BY DEF PastInv, ScoredAfterFit
<1> QED
  BY <1>1, <1>2 DEF PastInv

LEMMA PastFit == ASSUME PastInv, Fit PROVE PastInv'
<1> DEFINE rows == {r \in Records : Retained(FoldAt(fold), r, FitAt(fold))}
           rec  == [fold |-> fold, fit |-> FitAt(fold), rows |-> rows]
<1>1. CASE Refuse("empty") \/ Refuse("leak")
  <2>1. UNCHANGED <<settings, fits, predictions>> /\ at' # "score"
    BY <1>1 DEF Refuse
  <2> QED
    BY <2>1, PastKept
<1>2. CASE /\ \A r \in rows : r.end <= FitAt(fold)
           /\ fits' = fits \cup {rec}
           /\ NextFold \/ UNCHANGED <<fold, skips>>
           /\ UNCHANGED <<settings, predictions, unscored>>
           /\ at' = "score" => fold' = fold
  <2>1. \A f \in fits' : f.fit = FitAt(f.fold) /\ \A r \in f.rows : r.end <= f.fit
    BY <1>2 DEF PastInv, FitsStamped
  <2>2. FitsStamped'
    BY <1>2, <2>1, FitAtFixed DEF FitsStamped
  <2>3. rec \in fits' /\ rec.fold = fold
    BY <1>2
  <2>4. ScoredAfterFit'
    BY <1>2, <2>3 DEF ScoredAfterFit
  <2>5. PredictionsStamped'
    BY <1>2, FitAtFixed DEF PastInv, PredictionsStamped
  <2> QED
    BY <2>2, <2>4, <2>5 DEF PastInv
<1>3. NextFold => at' # "score"
  BY DEF NextFold
<1> QED
  BY <1>1, <1>2, <1>3 DEF Fit, FitsWith, FitAt

LEMMA PastScore == ASSUME PastInv, Score PROVE PastInv'
<1> DEFINE day == Min(left)
<1>1. PICK r \in {q \in Records : q.day = day} :
        \/ predictions' = predictions \cup {[fold |-> fold, record |-> r, fit |-> FitAt(fold)]}
        \/ UNCHANGED predictions
  BY DEF Score, FitAt
<1>2. /\ at = "score" /\ FitAt(fold) <= day
      /\ UNCHANGED <<settings, fits>>
      /\ at' # "score" \/ UNCHANGED <<at, fold>>
  BY DEF Score, FitAt, DayDone, NextFold
<1>3. \A p \in predictions' : /\ p.fit = FitAt(p.fold)
                              /\ p.fit <= p.record.day
                              /\ \E f \in fits : f.fold = p.fold
  BY <1>1, <1>2 DEF PastInv, PredictionsStamped, ScoredAfterFit
<1>4. PredictionsStamped'
  BY <1>2, <1>3, FitAtFixed DEF PredictionsStamped
<1>5. FitsStamped' /\ ScoredAfterFit'
  BY <1>2, FitAtFixed DEF PastInv, FitsStamped, ScoredAfterFit
<1> QED
  BY <1>4, <1>5 DEF PastInv

LEMMA PastStep == PastInv /\ [Next]_vars => PastInv'
<1> SUFFICES ASSUME PastInv, [Next]_vars PROVE PastInv'
  OBVIOUS
<1>1. CASE Fit
  BY <1>1, PastFit
<1>2. CASE Score
  BY <1>2, PastScore
<1>3. CASE ScoreLeaks \/ ScoreRefused
  <2>1. UNCHANGED <<settings, fits, predictions>> /\ at' # "score"
    BY <1>3 DEF ScoreLeaks, ScoreRefused, Refuse
  <2> QED
    BY <2>1, PastKept
<1>4. CASE UNCHANGED vars
  BY <1>4, PastKept DEF vars
<1> QED
  BY <1>1, <1>2, <1>3, <1>4 DEF Next

\* For every calendar, horizon, delay, cadence, window and embargo, and every
\* model: a prediction is made with the fit of its fold, at or before its
\* decision, and nothing that model was trained on ends after the fit
\* (run_walk_forward, select_training_records; CI-006, CI-010).
THEOREM PastOnly == Spec => []TrainedOnThePast
<1>1. PastInv => TrainedOnThePast
  BY DEF PastInv, FitsStamped, PredictionsStamped, TrainedOnThePast
<1> QED
  BY PastInit, PastStep, <1>1, PTL DEF Spec

-----------------------------------------------------------------------------
(* The embargo on an even grid.                                            *)

\* Whole multiples of a positive gap.
LEMMA Multiples ==
  ASSUME NEW gap \in Int, gap > 0, NEW m \in Int, NEW n \in Int
  PROVE  /\ m * gap > n * gap => m * gap >= n * gap + gap
         /\ m >= n <=> m * gap >= n * gap
<1>1. m >= n => m * gap >= n * gap
  OBVIOUS
<1>2. m >= n + 1 => m * gap >= n * gap + gap
  OBVIOUS
<1>3. m * gap > n * gap => m >= n + 1
  OBVIOUS
<1> QED
  BY <1>1, <1>2, <1>3

\* The configured settings, which no step changes.
SettingsInv == settings \in Settings /\ Admissible(settings)

Gap == Grid[2] - Grid[1]

\* What even spacing says: the distance of two grid days is that of their
\* numbers, and so is the length of a return.
LEMMA EvenGrid ==
  ASSUME SettingsInv, Evenly
  PROVE  /\ \A i \in DOMAIN Grid : i \in Int /\ Grid[i] \in Int
         /\ Gap \in Int /\ Gap > 0
         /\ settings.delay \in Nat /\ settings.delay < Gap
         /\ settings.horizon \in Nat \ {0} /\ settings.embargo \in Nat
         /\ \A i, j \in DOMAIN Grid : Grid[j] - Grid[i] = (j - i) * Gap
         /\ \A i, j \in DOMAIN Grid : i < j => Grid[i] < Grid[j]
         /\ \A r \in Records : \E i \in DOMAIN Grid :
              /\ i + settings.horizon \in DOMAIN Grid
              /\ r.day = Grid[i]
              /\ r.start = Grid[i] + settings.delay
              /\ r.end = Grid[i + settings.horizon] + settings.delay
<1>1. /\ settings.calendar \in Calendars /\ settings.delay \in Nat /\ settings.embargo \in Nat
      /\ settings.horizon \in Nat \ {0} /\ settings.train \in Nat \ {0}
      /\ settings.test \in Nat \ {0}
  BY WalkForwardAssumption DEF SettingsInv, Settings
<1>2. /\ Grid \in Seq(Nat)
      /\ \A i, j \in DOMAIN Grid : i < j => Grid[i] < Grid[j]
  BY <1>1, WalkForwardAssumption DEF Grid
<1>3. Len(Grid) \in Nat /\ Len(Grid) >= 2 /\ DOMAIN Grid = 1 .. Len(Grid)
  BY <1>1, <1>2 DEF SettingsInv, Admissible, Grid
<1>4. Gap \in Int /\ Gap > 0
  BY <1>2, <1>3 DEF Gap
<1>5. /\ settings.delay < Gap
      /\ \A i, j \in DOMAIN Grid : Grid[j] - Grid[i] = (j - i) * Gap
      /\ \A i \in DOMAIN Grid : Shift(Grid[i]) \subseteq {Grid[i] + settings.delay}
  BY DEF Evenly, Gap
<1>6. ASSUME NEW r \in Records
      PROVE  \E i \in DOMAIN Grid : /\ i + settings.horizon \in DOMAIN Grid
                                    /\ r.day = Grid[i]
                                    /\ r.start = Grid[i] + settings.delay
                                    /\ r.end = Grid[i + settings.horizon] + settings.delay
  <2>1. PICK i \in 1 .. Len(Grid) - settings.horizon :
          r \in [day : {Grid[i]}, start : Shift(Grid[i]),
                 end : Shift(Grid[i + settings.horizon])]
    BY DEF Records
  <2>2. i \in DOMAIN Grid /\ i + settings.horizon \in DOMAIN Grid
    BY <1>1, <1>3
  <2> QED
    BY <1>5, <2>1, <2>2
<1>7. \A i \in DOMAIN Grid : i \in Int /\ Grid[i] \in Int
  BY <1>2, <1>3
<1> QED
  BY <1>1, <1>2, <1>4, <1>5, <1>6, <1>7

\* Different grid days are a gap apart or more.
LEMMA GridStep ==
  ASSUME SettingsInv, Evenly, NEW i \in DOMAIN Grid, NEW j \in DOMAIN Grid, Grid[i] < Grid[j]
  PROVE  Grid[i] + Gap <= Grid[j]
<1>1. /\ Gap \in Int /\ Gap > 0 /\ Grid[i] \in Int /\ Grid[j] \in Int
      /\ i \in Int /\ j \in Int /\ Grid[j] - Grid[i] = (j - i) * Gap
  BY EvenGrid
<1>2. (j - i) * Gap > 0 * Gap
  BY <1>1
<1> QED
  BY <1>1, <1>2, Multiples

\* The two cases of Separated: the training window lies before the test
\* window, where the purge decides, or after it, where the embargo does.
LEMMA ApartBefore ==
  ASSUME SettingsInv, Evenly, NEW f \in AllFolds, NEW r \in Records, NEW t \in Records,
         InTest(f, t), Retained(f, r, r.end), f.trainHi < f.testLo
  PROVE  r.end <= t.start
<1>1. PICK p \in DOMAIN Grid, q \in DOMAIN Grid : f.testLo = Grid[p] /\ f.testHi = Grid[q]
  BY DEF AllFolds, Fold
<1>2. PICK i \in DOMAIN Grid : /\ i + settings.horizon \in DOMAIN Grid
                               /\ r.day = Grid[i]
                               /\ r.start = Grid[i] + settings.delay
                               /\ r.end = Grid[i + settings.horizon] + settings.delay
  BY EvenGrid
<1>3. PICK j \in DOMAIN Grid : t.day = Grid[j] /\ t.start = Grid[j] + settings.delay
  BY EvenGrid
<1>4. PICK m \in DOMAIN Grid : f.trainHi = Grid[m]
  BY DEF AllFolds, Fold
<1>5. /\ Grid[i] \in Int /\ Grid[j] \in Int /\ Grid[p] \in Int /\ Grid[q] \in Int
      /\ Grid[m] \in Int /\ Grid[i + settings.horizon] \in Int
      /\ Gap \in Int /\ settings.delay \in Nat /\ settings.delay < Gap /\ i \in Int
  BY <1>1, <1>2, <1>3, <1>4, EvenGrid
<1>6. Grid[i] < Grid[p] /\ Grid[p] <= Grid[j] /\ Grid[j] <= Grid[q]
  <2>1. r.day <= f.trainHi
    BY DEF Retained
  <2>2. f.testLo <= t.day /\ t.day <= f.testHi
    BY DEF InTest
  <2> QED
    BY <1>1, <1>2, <1>3, <1>4, <1>5, <2>1, <2>2
<1>7. Grid[i] + Gap <= Grid[p]
  BY <1>6, GridStep
<1>8. CASE settings.purge = "off"
  <2>1. settings.horizon = 1
    BY <1>8 DEF SettingsInv, Admissible
  <2>2. Grid[i + 1] = Grid[i] + Gap
    <3>1. Grid[i + 1] - Grid[i] = ((i + 1) - i) * Gap
      BY <1>2, <2>1, EvenGrid
    <3>2. (i + 1) - i = 1 /\ 1 * Gap = Gap
      BY <1>5
    <3> QED
      BY <1>2, <1>5, <2>1, <3>1, <3>2
  <2> QED
    BY <1>2, <1>3, <1>5, <1>6, <1>7, <2>1, <2>2
<1>9. CASE settings.purge = "required"
  <2>1. r.end <= f.testLo \/ r.start >= f.testHi
    BY <1>1, <1>2, <1>5, <1>9 DEF Retained, Purged
  <2> QED
    BY <1>1, <1>2, <1>3, <1>5, <1>6, <1>7, <2>1
<1> QED
  BY <1>8, <1>9 DEF SettingsInv, Settings

LEMMA ApartAfter ==
  ASSUME SettingsInv, Evenly, NEW f \in AllFolds, NEW r \in Records, NEW t \in Records,
         InTest(f, t), Retained(f, r, r.end), f.testHi < f.trainLo,
         settings.horizon = 1 \/ settings.embargo >= 1
  PROVE  t.end <= r.start
<1> DEFINE h == settings.horizon
           d == settings.delay
           e == settings.embargo
<1>1. PICK q \in DOMAIN Grid, m \in DOMAIN Grid : f.testHi = Grid[q] /\ f.trainLo = Grid[m]
  BY DEF AllFolds, Fold
<1>2. PICK i \in DOMAIN Grid : /\ i + h \in DOMAIN Grid
                               /\ r.day = Grid[i]
                               /\ r.start = Grid[i] + d
                               /\ r.end = Grid[i + h] + d
  BY EvenGrid
<1>3. PICK j \in DOMAIN Grid : /\ j + h \in DOMAIN Grid
                               /\ t.day = Grid[j]
                               /\ t.end = Grid[j + h] + d
  BY EvenGrid
<1>4. /\ Grid[i] \in Int /\ Grid[j] \in Int /\ Grid[q] \in Int /\ Grid[m] \in Int
      /\ Grid[i + h] \in Int /\ Grid[j + h] \in Int
      /\ Gap \in Int /\ Gap > 0 /\ d \in Nat /\ d < Gap /\ h \in Nat \ {0} /\ e \in Nat
      /\ i \in Int /\ j \in Int /\ q \in Int
  BY <1>1, <1>2, <1>3, EvenGrid
<1>5. Grid[j] <= Grid[q] /\ Grid[q] < Grid[i]
  <2>1. f.trainLo <= r.day
    BY DEF Retained
  <2>2. t.day <= f.testHi
    BY DEF InTest
  <2> QED
    BY <1>1, <1>2, <1>3, <1>4, <2>1, <2>2
<1>6. /\ Grid[i] - Grid[q] = (i - q) * Gap
      /\ Grid[i + h] - Grid[i] = ((i + h) - i) * Gap
      /\ Grid[j + h] - Grid[j] = ((j + h) - j) * Gap
  BY <1>1, <1>2, <1>3, EvenGrid
<1>7. Grid[i + h] = Grid[i] + h * Gap /\ Grid[j + h] = Grid[j] + h * Gap
  <2>1. (i + h) - i = h /\ (j + h) - j = h /\ h * Gap \in Int
    BY <1>4
  <2>2. ((i + h) - i) * Gap = h * Gap /\ ((j + h) - j) * Gap = h * Gap
    BY <2>1
  <2>3. Grid[i + h] - Grid[i] = h * Gap /\ Grid[j + h] - Grid[j] = h * Gap
    BY <1>6, <2>2, Zenon
  <2>4. /\ Grid[i + h] \in Int /\ Grid[i] \in Int
        /\ Grid[j + h] \in Int /\ Grid[j] \in Int
    BY <1>4
  <2>5. \A a, b, c \in Int : a - b = c => a = b + c
    OBVIOUS
  <2>6. Grid[i + h] = Grid[i] + h * Gap
    BY <2>1, <2>3, <2>4, <2>5
  <2>7. Grid[j + h] = Grid[j] + h * Gap
    BY <2>1, <2>3, <2>4, <2>5
  <2> QED
    BY <2>6, <2>7
<1>8. Grid[i] - Grid[q] >= h * Gap
  <2>1. CASE h = 1
    BY <1>4, <1>5, <2>1, GridStep
  <2>2. CASE h > 1
    <3>1. h * Gap \in Int /\ h * Gap >= Gap
      BY <1>4, Multiples, 1 * Gap = Gap
    <3>2. r.end > f.testHi
      BY <1>1, <1>2, <1>4, <1>5, <1>7, <3>1
    <3>3. r.start >= f.testHi + e * (r.end - r.start)
      BY <1>1, <1>2, <1>4, <2>2, <3>2 DEF Retained, Embargoed
    <3>4. r.end - r.start = h * Gap
      BY <1>2, <1>4, <1>7, <3>1
    <3>5. e * (h * Gap) >= h * Gap
      <4>1. e >= 1
        BY <2>2, <1>4
      <4> QED
        BY <1>4, <3>1, <4>1
    <3>6. Grid[i] - Grid[q] + d >= h * Gap
      BY <1>1, <1>2, <1>4, <3>1, <3>3, <3>4, <3>5
    <3>7. SUFFICES ASSUME ~ (i - q >= h) PROVE FALSE
      BY <1>4, <1>6, Multiples
    <3>8. PICK k \in Int : k = i - q
      BY <1>4
    <3>9. k * Gap \in Int /\ h * Gap > k * Gap
      BY <1>4, <3>7, <3>8, Multiples
    <3>10. h * Gap >= k * Gap + Gap
      <4>1. h \in Int
        BY <1>4
      <4> QED
        BY <1>4, <3>9, <4>1, Multiples
    <3> QED
      BY <1>4, <1>6, <3>1, <3>6, <3>8, <3>9, <3>10
  <2> QED
    BY <1>4, <2>1, <2>2
<1> QED
  BY <1>2, <1>3, <1>4, <1>5, <1>7, <1>8

\* For every even grid, horizon, delay below a step, window and embargo of a
\* horizon or more: no retained training return shares a day with a tested
\* one, whichever window comes first (select_training_records; CI-015).
THEOREM EmbargoHolds == Spec => []EmbargoSeparates
<1>1. Init => SettingsInv
  BY DEF Init, SettingsInv
<1>2. SettingsInv /\ [Next]_vars => SettingsInv'
  <2> SUFFICES ASSUME SettingsInv, [Next]_vars PROVE settings' = settings
    BY DEF SettingsInv, Settings, Admissible
  <2> QED
    BY DEF Next, vars, Fit, FitsWith, Score, ScoreLeaks, ScoreRefused, Refuse
<1>3. ASSUME SettingsInv, Evenly, settings.horizon = 1 \/ settings.embargo >= 1
      PROVE  Separated
  <2> SUFFICES ASSUME NEW f \in AllFolds, NEW r \in Records, NEW t \in Records,
                      InTest(f, t), Retained(f, r, r.end)
               PROVE  Apart(r, t)
    BY DEF Separated
  <2>1. f.trainHi < f.testLo \/ f.testHi < f.trainLo
    BY <1>3, EvenGrid DEF AllFolds, Fold
  <2> QED
    BY <1>3, <2>1, ApartBefore, ApartAfter DEF Apart
<1>4. SettingsInv => EmbargoSeparates
  BY <1>3 DEF EmbargoSeparates
<1> QED
  BY <1>1, <1>2, <1>4, PTL DEF Spec

-----------------------------------------------------------------------------
(* Least and greatest days.                                                *)

\* Every set of natural numbers that is not empty has a least element ...
LEMMA NatMin ==
  ASSUME NEW T \in SUBSET Nat, T # {}
  PROVE  \E x \in T : \A y \in T : x <= y
<1> DEFINE Below == OpToRel(<, Nat)
<1>1. IsWellFoundedOn(Below, Nat)
  BY NatLessThanWellFounded
<1>2. \A x, y \in Nat : y < x => <<y, x>> \in Below
  BY DEF OpToRel
<1> HIDE DEF Below
<1>3. PICK x \in T : \A y \in T : <<y, x>> \notin Below
  BY <1>1, WFMin
<1>4. ASSUME NEW y \in T PROVE x <= y
  <2>1. x \in Nat /\ y \in Nat
    OBVIOUS
  <2>2. ~ (y < x)
    BY <1>2, <1>3, <2>1
  <2>3. QED
    BY <2>1, <2>2
<1>5. QED
  BY <1>4

\* ... and, below a bound, a greatest.
LEMMA BoundedMax ==
  ASSUME NEW n \in Nat, NEW T \in SUBSET (0 .. n), T # {}
  PROVE  \E x \in T : \A y \in T : y <= x
<1> DEFINE S == {m \in 0 .. n : n - m \in T}
<1>1. PICK t \in T : TRUE
  OBVIOUS
<1>2. n - t \in 0 .. n /\ n - (n - t) = t
  BY <1>1
<1>3. n - t \in S
  BY <1>1, <1>2
<1>4. PICK m \in S : \A k \in S : m <= k
  <2>1. S \in SUBSET Nat
    OBVIOUS
  <2>2. S # {}
    BY <1>3
  <2> HIDE DEF S
  <2>3. QED
    BY <2>1, <2>2, NatMin
<1>5. \A y \in T : n - y \in S
  <2>1. \A y \in T : n - y \in 0 .. n /\ n - (n - y) = y
    OBVIOUS
  <2>2. QED
    BY <2>1
<1>6. QED
  BY <1>4, <1>5

-----------------------------------------------------------------------------
(* The folds and their test rows.                                          *)

TestRows(k) == {r \in Records : InTest(FoldAt(k), r)}

TestDays(k) == {r.day : r \in TestRows(k)}

\* What the settings promise about the grid and the folds on it.
LEMMA GridFacts ==
  ASSUME SettingsInv
  PROVE  /\ Grid \in Seq(Nat) /\ Len(Grid) \in Nat /\ DOMAIN Grid = 1 .. Len(Grid)
         /\ \A i \in DOMAIN Grid : Grid[i] \in Nat
         /\ \A i, j \in DOMAIN Grid : i < j => Grid[i] < Grid[j]
         /\ Len(Days) \in Nat /\ DOMAIN Days = 1 .. Len(Days)
         /\ \A i \in DOMAIN Days : Days[i] \in Nat
         /\ \A i, j \in DOMAIN Days : i < j => Days[i] < Days[j]
         /\ settings.train \in Nat \ {0} /\ settings.test \in Nat \ {0}
         /\ settings.step \in Nat \ {0} /\ settings.refit \in Nat \ {0}
         /\ settings.horizon \in Nat \ {0} /\ settings.delay \in Nat
         /\ settings.train + settings.test <= Len(Grid)
<1>1. /\ settings.calendar \in Calendars
      /\ settings.train \in Nat \ {0} /\ settings.test \in Nat \ {0}
      /\ settings.step \in Nat \ {0} /\ settings.refit \in Nat \ {0}
      /\ settings.horizon \in Nat \ {0} /\ settings.delay \in Nat
  BY WalkForwardAssumption DEF SettingsInv, Settings
<1>2. /\ Grid \in Seq(Nat) /\ Days \in Seq(Nat)
      /\ \A i, j \in DOMAIN Grid : i < j => Grid[i] < Grid[j]
      /\ \A i, j \in DOMAIN Days : i < j => Days[i] < Days[j]
  BY <1>1, WalkForwardAssumption DEF Grid, Days
<1>3. settings.train + settings.test <= Len(Grid)
  BY <1>1, <1>2 DEF SettingsInv, Admissible, Grid
<1> QED
  BY <1>1, <1>2, <1>3

\* Test windows follow one another.
LEMMA TestLoSteps ==
  ASSUME SettingsInv, NEW k \in Nat \ {0}, NEW l \in Nat \ {0}
  PROVE  /\ TestLo(k) \in Nat /\ TestLo(k) >= k /\ TestLo(1) = settings.train + 1
         /\ k <= l => TestLo(k) <= TestLo(l)
         /\ k < l => TestLo(k) + settings.step <= TestLo(l)
<1>1. settings.train \in Nat \ {0} /\ settings.step \in Nat \ {0}
  BY GridFacts
<1>2. PICK a \in Nat : a = (k - 1) * settings.step
  BY <1>1
<1>3. PICK b \in Nat : b = (l - 1) * settings.step
  BY <1>1
<1>4. a >= k - 1
  BY <1>1, <1>2
<1>5. k <= l => a <= b
  BY <1>1, <1>2, <1>3
<1>6. k < l => a + settings.step <= b
  BY <1>1, <1>2, <1>3
<1>7. TestLo(k) = settings.train + 1 + a /\ TestLo(l) = settings.train + 1 + b
  BY <1>2, <1>3 DEF TestLo
<1>8. TestLo(1) = settings.train + 1
  BY <1>1 DEF TestLo
<1> QED
  BY <1>1, <1>4, <1>5, <1>6, <1>7, <1>8

\* The folds that fit on the grid are the first FoldCount, one at least.
LEMMA FoldsCounted ==
  ASSUME SettingsInv
  PROVE  /\ FoldCount \in Nat /\ FoldCount >= 1
         /\ \A k \in 1 .. FoldCount : TestLo(k) + settings.test - 1 <= Len(Grid)
<1> DEFINE Fits(k) == TestLo(k) + settings.test - 1 <= Len(Grid)
           S == {k \in 1 .. Len(Grid) : Fits(k)}
<1>1. settings.test \in Nat \ {0} /\ Len(Grid) \in Nat
      /\ settings.train \in Nat \ {0} /\ settings.train + settings.test <= Len(Grid)
  BY GridFacts
<1>2. \A k \in 1 .. Len(Grid) : k \in Nat \ {0} /\ TestLo(k) \in Nat
  BY <1>1, TestLoSteps
<1>3. 1 \in S
  <2>1. 1 \in 1 .. Len(Grid)
    BY <1>1
  <2>2. TestLo(1) = settings.train + 1
    BY <1>2, <2>1, TestLoSteps
  <2> QED
    BY <1>1, <2>1, <2>2
<1>4. ASSUME NEW k \in 1 .. Len(Grid), NEW l \in 1 .. Len(Grid), k <= l, Fits(l) PROVE Fits(k)
  <2>1. TestLo(k) \in Nat /\ TestLo(l) \in Nat /\ k \in Nat \ {0} /\ l \in Nat \ {0}
    BY <1>2
  <2>2. TestLo(k) <= TestLo(l)
    BY <1>4, <2>1, TestLoSteps
  <2> QED
    BY <1>1, <1>4, <2>1, <2>2
<1>5. PICK m \in S : \A k \in S : k <= m
  <2>1. S \in SUBSET (0 .. Len(Grid)) /\ S # {}
    BY <1>3
  <2> HIDE DEF S
  <2> QED
    BY <1>1, <2>1, BoundedMax
<1>6. S = 1 .. m
  <2>1. m \in 1 .. Len(Grid) /\ Fits(m)
    OBVIOUS
  <2>2. \A k \in 1 .. m : k \in 1 .. Len(Grid) /\ k <= m
    BY <1>1, <2>1
  <2>3. \A k \in 1 .. m : k \in S
    BY <1>4, <2>1, <2>2
  <2>4. \A k \in S : k \in 1 .. m
    BY <1>5
  <2> QED
    BY <2>3, <2>4
<1>7. FoldCount = m
  <2>1. m \in Int /\ m >= 1
    BY <1>3, <1>5
  <2>2. Cardinality(1 .. m) = m
    BY <2>1, FS_Interval
  <2> QED
    BY <1>6, <2>2 DEF FoldCount
<1> QED
  BY <1>3, <1>5, <1>6, <1>7

\* The test window of a fold lies on the grid.
LEMMA FoldOnGrid ==
  ASSUME SettingsInv, NEW k \in 1 .. FoldCount
  PROVE  /\ TestLo(k) \in DOMAIN Grid /\ TestLo(k) + settings.test - 1 \in DOMAIN Grid
         /\ FoldAt(k).testLo = Grid[TestLo(k)]
         /\ FoldAt(k).testHi = Grid[TestLo(k) + settings.test - 1]
         /\ FoldAt(k).testLo \in Nat /\ FoldAt(k).testHi \in Nat
<1>1. k \in Nat \ {0} /\ TestLo(k) + settings.test - 1 <= Len(Grid)
  BY FoldsCounted
<1>2. TestLo(k) \in Nat /\ TestLo(k) >= k
  BY <1>1, TestLoSteps
<1>3. /\ settings.test \in Nat \ {0} /\ Len(Grid) \in Nat /\ DOMAIN Grid = 1 .. Len(Grid)
      /\ \A i \in DOMAIN Grid : Grid[i] \in Nat
  BY GridFacts
<1>4. TestLo(k) \in DOMAIN Grid /\ TestLo(k) + settings.test - 1 \in DOMAIN Grid
  BY <1>1, <1>2, <1>3
<1>5. /\ FoldAt(k).testLo = Grid[TestLo(k)]
      /\ FoldAt(k).testHi = Grid[TestLo(k) + settings.test - 1]
  BY DEF FoldAt, Fold
<1> QED
  BY <1>3, <1>4, <1>5

\* A grid day has one record at most.
LEMMA OneRecord ==
  ASSUME SettingsInv, NEW r \in Records, NEW t \in Records, r.day = t.day
  PROVE  r = t
<1>1. PICK i \in 1 .. Len(Grid) - settings.horizon :
        r \in [day : {Grid[i]}, start : Shift(Grid[i]), end : Shift(Grid[i + settings.horizon])]
  BY DEF Records
<1>2. PICK j \in 1 .. Len(Grid) - settings.horizon :
        t \in [day : {Grid[j]}, start : Shift(Grid[j]), end : Shift(Grid[j + settings.horizon])]
  BY DEF Records
<1>3. i \in DOMAIN Grid /\ j \in DOMAIN Grid
  BY GridFacts
<1>4. i = j
  <2>1. Grid[i] = Grid[j] /\ i \in Nat /\ j \in Nat /\ Grid[i] \in Nat /\ Grid[j] \in Nat
    <3>1. r.day = Grid[i] /\ t.day = Grid[j]
      BY <1>1, <1>2
    <3>2. DOMAIN Grid = 1 .. Len(Grid) /\ \A n \in DOMAIN Grid : Grid[n] \in Nat
      BY GridFacts
    <3>3. i \in Nat /\ j \in Nat
      BY <1>3, <3>2
    <3>4. Grid[i] = Grid[j]
      BY <3>1
    <3> QED
      BY <1>3, <3>2, <3>3, <3>4
  <2>2. ~ (i < j) /\ ~ (j < i)
    BY <1>3, <2>1, GridFacts
  <2> QED
    BY <2>1, <2>2
<1>5. \A day : \A x, y \in Shift(day) : x = y
  <2> SUFFICES ASSUME NEW day, NEW x \in Shift(day), NEW y \in Shift(day) PROVE x = y
    OBVIOUS
  <2>1. PICK a \in 1 .. Len(Days) - settings.delay : Days[a] = day /\ x = Days[a + settings.delay]
    BY DEF Shift
  <2>2. PICK b \in 1 .. Len(Days) - settings.delay : Days[b] = day /\ y = Days[b + settings.delay]
    BY DEF Shift
  <2>3. /\ Len(Days) \in Nat /\ DOMAIN Days = 1 .. Len(Days) /\ settings.delay \in Nat
        /\ \A n \in DOMAIN Days : Days[n] \in Nat
    BY GridFacts
  <2>4. a \in DOMAIN Days /\ b \in DOMAIN Days /\ a \in Nat /\ b \in Nat
    BY <2>3
  <2>5. Days[a] \in Nat /\ Days[a] = Days[b]
    BY <2>1, <2>2, <2>3, <2>4
  <2>6. (a < b => Days[a] < Days[b]) /\ (b < a => Days[b] < Days[a])
    BY <2>4, GridFacts
  <2>7. ~ (a < b) /\ ~ (b < a)
    BY <2>5, <2>6
  <2>8. a = b
    BY <2>4, <2>7
  <2> QED
    BY <2>1, <2>2, <2>8
<1> QED
  BY <1>1, <1>2, <1>4, <1>5

\* Days are natural numbers.
LEMMA RecordDays ==
  ASSUME SettingsInv, NEW r \in Records
  PROVE  r.day \in Nat /\ r.end \in Nat
<1>1. PICK i \in 1 .. Len(Grid) - settings.horizon :
        r \in [day : {Grid[i]}, start : Shift(Grid[i]), end : Shift(Grid[i + settings.horizon])]
  BY DEF Records
<1>2. i \in DOMAIN Grid /\ Grid[i] \in Nat
  BY GridFacts
<1>3. \A day : Shift(day) \in SUBSET Nat
  <2> SUFFICES ASSUME NEW day, NEW n \in {j \in 1 .. Len(Days) - settings.delay : Days[j] = day}
               PROVE  Days[n + settings.delay] \in Nat
    BY DEF Shift
  <2>1. /\ Len(Days) \in Nat /\ DOMAIN Days = 1 .. Len(Days) /\ settings.delay \in Nat
        /\ n \in 1 .. Len(Days) - settings.delay
    BY GridFacts
  <2>2. n + settings.delay \in DOMAIN Days
    BY <2>1
  <2> QED
    BY <2>2, GridFacts
<1> QED
  BY <1>1, <1>2, <1>3

\* The clock never fits a fold after its first test day.
LEMMA FitBeforeTest ==
  ASSUME SettingsInv, NEW k \in 1 .. FoldCount
  PROVE  FitAt(k) \in Nat /\ FitAt(k) <= FoldAt(k).testLo
<1> DEFINE lo == FoldAt(k).testLo
           T == {d \in RefitDays : d <= lo}
<1>1. lo \in Nat /\ lo = Grid[TestLo(k)] /\ TestLo(k) \in DOMAIN Grid
  BY FoldOnGrid
<1>2. /\ DOMAIN Grid = 1 .. Len(Grid) /\ Len(Grid) \in Nat
      /\ \A i \in DOMAIN Grid : Grid[i] \in Nat
      /\ \A i, j \in DOMAIN Grid : i < j => Grid[i] < Grid[j]
      /\ settings.refit \in Nat \ {0}
  BY GridFacts
<1>3. RefitDays \in SUBSET Nat
  BY <1>2 DEF RefitDays
<1>4. 1 \in DOMAIN Grid /\ Grid[1] \in RefitDays
  <2>1. 1 \in DOMAIN Grid
    BY <1>1, <1>2
  <2>2. (1 - 1) % settings.refit = 0
    BY <1>2
  <2> QED
    BY <2>1, <2>2 DEF RefitDays
<1>5. Grid[1] <= lo
  <2>1. TestLo(k) = 1 \/ 1 < TestLo(k)
    BY <1>1, <1>2
  <2> QED
    BY <1>1, <1>2, <1>4, <2>1
<1>6. T \in SUBSET (0 .. lo) /\ T # {}
  <2>1. Grid[1] \in T
    BY <1>4, <1>5
  <2>2. \A d \in T : d \in Nat /\ d <= lo
    BY <1>3
  <2>3. \A d \in T : d \in 0 .. lo
    BY <1>1, <2>2
  <2> QED
    BY <2>1, <2>3
<1>7. PICK m \in T : \A d \in T : d <= m
  <2> HIDE DEF T, lo
  <2> QED
    BY <1>1, <1>6, BoundedMax
<1>8. Max(T) \in T
  <2>1. \A d \in T : m >= d
    BY <1>3, <1>7
  <2> QED
    BY <2>1 DEF Max
<1> QED
  BY <1>3, <1>8 DEF FitAt, FitTime

-----------------------------------------------------------------------------
(* The loop.                                                               *)

\* Where the loop is: at a fold there is, past the last, or refused.
Running == at \in {"fit", "score"}

AtAFold == /\ Running => fold \in 1 .. FoldCount
           /\ at = "done" => fold = FoldCount + 1
           /\ at \in {"fit", "score", "done", "empty", "model"}

\* The days left to score are test days of the fold.
LeftToScore == at = "score" => left # {} /\ left \subseteq TestDays(fold)

\* The test days of a fold that the loop has still to come to.
Ahead(k) == IF k < fold THEN {}
            ELSE IF k = fold /\ at = "score" THEN left ELSE TestDays(k)

Behind(k) == {r \in TestRows(k) : r.day \notin Ahead(k)}

Scored(k) == {p.record : p \in {q \in predictions : q.fold = k}}

Omitted(k) == {u.record : u \in {v \in unscored : v.fold = k}}

\* What is behind the loop is scored or omitted, what is ahead is neither,
\* and the folds behind it without a test row are those skipped.
Accounted ==
  \A k \in 1 .. FoldCount : /\ Scored(k) \cup Omitted(k) = Behind(k)
                            /\ Scored(k) \cap Omitted(k) = {}
                            /\ k \in skips <=> k < fold /\ TestRows(k) = {}

\* Nothing is scored or omitted outside of the test window of its fold.
InWindow == \A p \in predictions \cup unscored : /\ p.fold \in 1 .. FoldCount
                                                 /\ p.record \in TestRows(p.fold)

LoopInv == /\ SettingsInv
           /\ AtAFold
           /\ LeftToScore
           /\ Running \/ at = "done" => Accounted
           /\ InWindow

\* Folds and test rows depend on the settings alone, which never change.
LEMMA FoldsFixed ==
  ASSUME settings' = settings
  PROVE  /\ SettingsInv' <=> SettingsInv
         /\ FoldCount' = FoldCount
         /\ \A k : TestRows(k)' = TestRows(k) /\ TestDays(k)' = TestDays(k)
<1>1. SettingsInv' <=> SettingsInv
  BY DEF SettingsInv, Settings, Admissible
<1>2. FoldCount' = FoldCount
  BY DEF FoldCount, TestLo, Grid
<1>3. \A k : TestRows(k)' = TestRows(k)
  BY DEF TestRows, Records, Shift, InTest, FoldAt, Fold, TestLo, Grid, Days
<1>4. \A k : TestDays(k)' = TestDays(k)
  BY <1>3 DEF TestDays
<1> QED
  BY <1>1, <1>2, <1>3, <1>4

LEMMA LoopInit == Init => LoopInv
<1> SUFFICES ASSUME Init PROVE LoopInv
  OBVIOUS
<1>1. SettingsInv
  BY DEF Init, SettingsInv
<1>2. AtAFold /\ LeftToScore
  BY <1>1, FoldsCounted DEF Init, AtAFold, LeftToScore, Running
<1>3. \A k \in 1 .. FoldCount : Behind(k) = {} /\ ~ (k < fold)
  BY <1>1, FoldsCounted DEF Init, Behind, Ahead, TestDays
<1>4. Accounted /\ InWindow
  BY <1>3 DEF Init, Accounted, InWindow, Scored, Omitted
<1> QED
  BY <1>1, <1>2, <1>4 DEF LoopInv

\* A refused run makes no more promises than it kept.
LEMMA LoopRefused ==
  ASSUME LoopInv, NEW why \in {"empty", "model"}, Refuse(why)
  PROVE  LoopInv'
<1>1. /\ at' = why
      /\ UNCHANGED <<settings, predictions, unscored>>
  BY DEF Refuse
<1>2. InWindow'
  BY <1>1, FoldsFixed DEF LoopInv, InWindow
<1> QED
  BY <1>1, <1>2, FoldsFixed DEF LoopInv, AtAFold, LeftToScore, Running

\* After the last test day of a fold comes the next fold, or the end.
LEMMA NextFoldAt ==
  ASSUME LoopInv, Running, NextFold, settings' = settings
  PROVE  /\ AtAFold' /\ LeftToScore'
         /\ fold' = fold + 1 /\ at' # "score"
<1>1. fold \in 1 .. FoldCount /\ FoldCount \in Nat
  BY FoldsCounted DEF LoopInv, AtAFold
<1>2. /\ fold' = fold + 1
      /\ at' = IF fold = FoldCount THEN "done" ELSE "fit"
  BY DEF NextFold
<1>3. AtAFold'
  BY <1>1, <1>2, FoldsFixed DEF AtAFold, Running
<1> QED
  BY <1>2, <1>3 DEF LeftToScore

LEMMA LoopFit == ASSUME LoopInv, Fit PROVE LoopInv'
<1> DEFINE rows == {r \in Records : Retained(FoldAt(fold), r, FitTime(FoldAt(fold)))}
<1>1. /\ at = "fit" /\ Running /\ SettingsInv /\ Accounted /\ InWindow
      /\ fold \in 1 .. FoldCount /\ FoldCount \in Nat
  BY FoldsCounted DEF Fit, FitsWith, LoopInv, AtAFold, Running
<1>2. \A r \in rows : r.end <= FitTime(FoldAt(fold))
  BY DEF Retained
<1>3. CASE Refuse("empty")
  BY <1>3, LoopRefused
<1>4. CASE /\ left' = TestDays(fold)
           /\ UNCHANGED <<settings, predictions, unscored>>
           /\ \/ TestDays(fold) = {} /\ skips' = skips \cup {fold} /\ NextFold
              \/ TestDays(fold) # {} /\ UNCHANGED <<fold, skips>> /\ at' = "score"
  <2>1. AtAFold' /\ LeftToScore'
    <3>1. CASE TestDays(fold) = {}
      BY <1>1, <1>4, <3>1, NextFoldAt
    <3>2. CASE TestDays(fold) # {}
      BY <1>1, <1>4, <3>2, FoldsFixed DEF AtAFold, LeftToScore, Running
    <3> QED
      BY <3>1, <3>2
  <2>2. ASSUME NEW k \in 1 .. FoldCount PROVE Ahead(k)' = Ahead(k)
    <3>1. CASE TestDays(fold) = {}
      <4>1. fold' = fold + 1 /\ at' # "score"
        BY <1>1, <1>4, <3>1, NextFoldAt
      <4>2. k < fold \/ k = fold \/ k > fold
        BY <1>1
      <4> QED
        BY <1>1, <1>4, <3>1, <4>1, <4>2, FoldsFixed DEF Ahead
    <3>2. CASE TestDays(fold) # {}
      BY <1>1, <1>4, <3>2, FoldsFixed DEF Ahead
    <3> QED
      BY <3>1, <3>2
  <2>3. ASSUME NEW k \in 1 .. FoldCount
        PROVE  /\ Behind(k)' = Behind(k) /\ Scored(k)' = Scored(k) /\ Omitted(k)' = Omitted(k)
               /\ TestRows(k)' = TestRows(k)
    BY <1>4, <2>2, FoldsFixed DEF Behind, Scored, Omitted
  <2>4. ASSUME NEW k \in 1 .. FoldCount
        PROVE  (k \in skips /\ k < fold) \/ (k = fold /\ k \in skips') <=> k < fold' /\ TestRows(k) = {}
    <3>1. TestDays(fold) = {} <=> TestRows(fold) = {}
      BY DEF TestDays
    <3>2. k \in skips <=> k < fold /\ TestRows(k) = {}
      BY <1>1 DEF Accounted
    <3>3. CASE TestDays(fold) = {}
      <4>1. fold' = fold + 1 /\ skips' = skips \cup {fold}
        BY <1>1, <1>4, <3>3, NextFoldAt
      <4>2. k < fold + 1 <=> k < fold \/ k = fold
        BY <1>1
      <4> QED
        BY <3>1, <3>2, <3>3, <4>1, <4>2
    <3>4. CASE TestDays(fold) # {}
      <4>1. ~ (fold < fold)
        BY <1>1
      <4> QED
        BY <1>4, <3>1, <3>2, <3>4, <4>1
    <3> QED
      BY <3>3, <3>4
  <2>5. ASSUME NEW k \in 1 .. FoldCount
        PROVE  k \in skips' <=> (k \in skips /\ k < fold) \/ (k = fold /\ k \in skips')
    BY <1>1, <1>4 DEF Accounted
  <2>6. Accounted'
    <3>1. \A k \in 1 .. FoldCount : /\ Scored(k)' \cup Omitted(k)' = Behind(k)'
                                    /\ Scored(k)' \cap Omitted(k)' = {}
                                    /\ k \in skips' <=> k < fold' /\ TestRows(k)' = {}
      BY <1>1, <2>3, <2>4, <2>5 DEF Accounted
    <3> QED
      BY <1>4, <3>1, FoldsFixed DEF Accounted
  <2>7. InWindow'
    BY <1>1, <1>4, FoldsFixed DEF InWindow
  <2> QED
    BY <1>1, <1>4, <2>1, <2>6, <2>7, FoldsFixed DEF LoopInv
<1>5. \/ Refuse("empty")
      \/ \E r \in rows : r.end > FitTime(FoldAt(fold))
      \/ /\ left' = {r.day : r \in {q \in Records : InTest(FoldAt(fold), q)}}
         /\ UNCHANGED <<settings, predictions, unscored>>
         /\ \/ left' = {} /\ skips' = skips \cup {fold} /\ NextFold
            \/ left' # {} /\ UNCHANGED <<fold, skips>> /\ at' = "score"
  BY DEF Fit, FitsWith
<1>6. TestDays(fold) = {r.day : r \in {q \in Records : InTest(FoldAt(fold), q)}}
  BY DEF TestDays, TestRows
<1>7. ~ \E r \in rows : r.end > FitTime(FoldAt(fold))
  <2>1. FitTime(FoldAt(fold)) \in Nat
    BY <1>1, FitBeforeTest DEF FitAt
  <2>2. \A r \in rows : r.end \in Nat
    BY <1>1, RecordDays
  <2> QED
    BY <1>2, <2>1, <2>2
<1> QED
  BY <1>3, <1>4, <1>5, <1>6, <1>7

\* The next day to score is a test day of the fold, with one record.
LEMMA NextDay ==
  ASSUME LoopInv, at = "score"
  PROVE  /\ Min(left) \in left /\ Min(left) \in Nat
         /\ FoldAt(fold).testLo <= Min(left)
         /\ \A r \in Records : r.day = Min(left) => r \in TestRows(fold)
<1>1. left # {} /\ left \subseteq TestDays(fold) /\ SettingsInv
  BY DEF LoopInv, LeftToScore
<1>2. left \in SUBSET Nat
  BY <1>1, RecordDays DEF TestDays, TestRows
<1>3. Min(left) \in left
  <2>1. \E m \in left : \A d \in left : m <= d
    BY <1>1, <1>2, NatMin
  <2> QED
    BY <2>1 DEF Min
<1>4. PICK t \in TestRows(fold) : t.day = Min(left)
  BY <1>1, <1>3 DEF TestDays
<1>5. \A r \in Records : r.day = Min(left) => r \in TestRows(fold)
  BY <1>1, <1>4, OneRecord DEF TestRows
<1> QED
  BY <1>2, <1>3, <1>4, <1>5 DEF TestRows, InTest

LEMMA LoopScore == ASSUME LoopInv, Score PROVE LoopInv'
<1>1. /\ at = "score" /\ Running /\ SettingsInv /\ Accounted /\ InWindow
      /\ fold \in 1 .. FoldCount /\ FoldCount \in Nat
      /\ left # {} /\ left \subseteq TestDays(fold)
  BY FoldsCounted DEF Score, LoopInv, AtAFold, LeftToScore, Running
<1>2. PICK day \in left : day = Min(left)
  BY <1>1, NextDay
<1>3. PICK r \in Records :
        /\ r.day = day
        /\ \/ /\ predictions' = predictions \cup
                   {[fold |-> fold, record |-> r, fit |-> FitTime(FoldAt(fold))]}
              /\ UNCHANGED unscored
           \/ /\ unscored' = unscored \cup {[fold |-> fold, record |-> r]}
              /\ UNCHANGED predictions
  BY <1>2 DEF Score
<1>4. UNCHANGED <<settings, skips>> /\ DayDone(Min(left))
  BY DEF Score
<1>5. /\ left' = left \ {day}
      /\ \/ left = {day} /\ NextFold
         \/ left # {day} /\ UNCHANGED <<at, fold>>
  BY <1>2, <1>4 DEF DayDone
<1>6. r \in TestRows(fold)
  BY <1>1, <1>2, <1>3, NextDay
<1>7. AtAFold' /\ LeftToScore'
  <2>1. CASE NextFold
    BY <1>1, <1>4, <1>5, <2>1, NextFoldAt
  <2>2. CASE left # {day} /\ UNCHANGED <<at, fold>>
    BY <1>1, <1>2, <1>4, <1>5, <2>2, FoldsFixed DEF LoopInv, AtAFold, LeftToScore, Running
  <2> QED
    BY <1>5, <2>1, <2>2
<1>8. ASSUME NEW k \in 1 .. FoldCount
      PROVE  Ahead(k)' = IF k = fold THEN Ahead(k) \ {day} ELSE Ahead(k)
  <2>1. k < fold \/ k = fold \/ k > fold
    BY <1>1
  <2>2. CASE left = {day} /\ NextFold
    <3>1. fold' = fold + 1 /\ at' # "score"
      BY <1>1, <1>4, <2>2, NextFoldAt
    <3>2. TestDays(k)' = TestDays(k)
      BY <1>4, FoldsFixed
    <3>3. CASE k < fold
      BY <1>1, <3>1, <3>3 DEF Ahead
    <3>4. CASE k = fold
      BY <1>1, <2>2, <3>1, <3>4 DEF Ahead
    <3>5. CASE k > fold
      BY <1>1, <3>1, <3>2, <3>5 DEF Ahead
    <3> QED
      BY <2>1, <3>3, <3>4, <3>5
  <2>3. CASE UNCHANGED <<at, fold>>
    BY <1>1, <1>4, <1>5, <2>1, <2>3, FoldsFixed DEF Ahead
  <2> QED
    BY <1>5, <2>2, <2>3
<1>9. PICK now \in 1 .. FoldCount : now = fold
  BY <1>1
<1>10. ASSUME NEW k \in 1 .. FoldCount
       PROVE  Behind(k)' = IF k = now THEN Behind(k) \cup {r} ELSE Behind(k)
  <2>1. TestRows(k)' = TestRows(k)
    BY <1>4, FoldsFixed
  <2>2. CASE k = now
    <3>1. Ahead(k) = left /\ Ahead(k)' = left \ {day}
      <4>1. k = fold /\ ~ (k < fold)
        BY <1>1, <1>9, <2>2
      <4>2. Ahead(k) = left
        BY <1>1, <4>1 DEF Ahead
      <4> QED
        BY <1>8, <4>1, <4>2
    <3>2. \A q \in TestRows(k) : q.day = day => q = r
      BY <1>1, <1>3, OneRecord DEF TestRows
    <3>3. r \in TestRows(k)
      BY <1>6, <1>9, <2>2
    <3>4. \A q : q \in Behind(k)' <=> q \in TestRows(k) /\ (q.day \notin left \/ q.day = day)
      BY <2>1, <3>1 DEF Behind
    <3>5. \A q : q \in Behind(k) <=> q \in TestRows(k) /\ q.day \notin left
      BY <3>1 DEF Behind
    <3>6. \A q : q \in Behind(k)' <=> q \in Behind(k) \/ q = r
      BY <1>3, <3>2, <3>3, <3>4, <3>5
    <3> QED
      BY <2>2, <3>6
  <2>3. CASE k # now
    BY <1>8, <1>9, <2>1, <2>3 DEF Behind
  <2> QED
    BY <2>2, <2>3
<1>11. r \notin Behind(now)
  BY <1>1, <1>2, <1>3, <1>9 DEF Behind, Ahead
<1>12. ASSUME NEW k \in 1 .. FoldCount
       PROVE  \/ /\ Scored(k)' = IF k = now THEN Scored(k) \cup {r} ELSE Scored(k)
                 /\ Omitted(k)' = Omitted(k)
              \/ /\ Omitted(k)' = IF k = now THEN Omitted(k) \cup {r} ELSE Omitted(k)
                 /\ Scored(k)' = Scored(k)
  <2>1. CASE /\ predictions' = predictions \cup
                  {[fold |-> now, record |-> r, fit |-> FitTime(FoldAt(now))]}
             /\ UNCHANGED unscored
    <3>1. \A x : x \in Scored(k)' <=> x \in Scored(k) \/ (k = now /\ x = r)
      <4>1. PICK new : new = [fold |-> now, record |-> r, fit |-> FitTime(FoldAt(now))]
        OBVIOUS
      <4>2. new.fold = now /\ new.record = r /\ predictions' = predictions \cup {new}
        BY <2>1, <4>1
      <4>3. \A x : x \in Scored(k) <=> \E p \in predictions : p.fold = k /\ p.record = x
        BY DEF Scored
      <4>4. \A x : x \in Scored(k)' <=> \E p \in predictions' : p.fold = k /\ p.record = x
        BY DEF Scored
      <4> QED
        BY <4>2, <4>3, <4>4
    <3>2. Omitted(k)' = Omitted(k)
      BY <2>1 DEF Omitted
    <3> QED
      BY <3>1, <3>2
  <2>2. CASE /\ unscored' = unscored \cup {[fold |-> now, record |-> r]}
             /\ UNCHANGED predictions
    <3>1. \A x : x \in Omitted(k)' <=> x \in Omitted(k) \/ (k = now /\ x = r)
      <4>1. PICK new : new = [fold |-> now, record |-> r]
        OBVIOUS
      <4>2. new.fold = now /\ new.record = r /\ unscored' = unscored \cup {new}
        BY <2>2, <4>1
      <4>3. \A x : x \in Omitted(k) <=> \E p \in unscored : p.fold = k /\ p.record = x
        BY DEF Omitted
      <4>4. \A x : x \in Omitted(k)' <=> \E p \in unscored' : p.fold = k /\ p.record = x
        BY DEF Omitted
      <4> QED
        BY <4>2, <4>3, <4>4
    <3>2. Scored(k)' = Scored(k)
      BY <2>2 DEF Scored
    <3> QED
      BY <3>1, <3>2
  <2> QED
    BY <1>3, <1>9, <2>1, <2>2
<1>13. ASSUME NEW k \in 1 .. FoldCount
       PROVE  k \in skips' <=> k < fold' /\ TestRows(k)' = {}
  <2>1. k \in skips <=> k < fold /\ TestRows(k) = {}
    BY <1>1 DEF Accounted
  <2>2. TestRows(k)' = TestRows(k)
    BY <1>4, FoldsFixed
  <2>3. k = fold => TestRows(k) # {}
    BY <1>6
  <2>4. fold' = fold + 1 \/ fold' = fold
    BY <1>5 DEF NextFold
  <2>5. k < fold + 1 <=> k < fold \/ k = fold
    BY <1>1
  <2> QED
    BY <1>4, <2>1, <2>2, <2>3, <2>4, <2>5
<1>14. ASSUME NEW k \in 1 .. FoldCount
       PROVE  Scored(k)' \cup Omitted(k)' = Behind(k)' /\ Scored(k)' \cap Omitted(k)' = {}
  <2>1. Scored(k) \cup Omitted(k) = Behind(k) /\ Scored(k) \cap Omitted(k) = {}
    BY <1>1 DEF Accounted
  <2>2. CASE k = now
    BY <1>10, <1>11, <1>12, <2>1, <2>2
  <2>3. CASE k # now
    BY <1>10, <1>12, <2>1, <2>3
  <2> QED
    BY <2>2, <2>3
<1>15. Accounted'
  BY <1>4, <1>13, <1>14, FoldsFixed DEF Accounted
<1>16. InWindow'
  <2>1. \A p \in predictions' \cup unscored' :
          p.fold \in 1 .. FoldCount /\ p.record \in TestRows(p.fold)
    BY <1>1, <1>3, <1>6 DEF InWindow
  <2> QED
    BY <1>4, <2>1, FoldsFixed DEF InWindow
<1> QED
  BY <1>1, <1>4, <1>7, <1>15, <1>16, FoldsFixed DEF LoopInv

\* No test day comes before the fit of its fold.
LEMMA LoopLeaks == ASSUME LoopInv, ScoreLeaks PROVE LoopInv'
<1>1. at = "score" /\ fold \in 1 .. FoldCount /\ SettingsInv
  BY DEF ScoreLeaks, LoopInv, AtAFold, Running
<1>2. PICK day \in Nat : day = Min(left) /\ FoldAt(fold).testLo <= day
  BY <1>1, NextDay
<1>3. FitAt(fold) <= day
  <2>1. /\ FitAt(fold) \in Nat /\ FitAt(fold) <= FoldAt(fold).testLo
        /\ FoldAt(fold).testLo \in Nat
    BY <1>1, FitBeforeTest, FoldOnGrid
  <2> QED
    BY <1>2, <2>1
<1>4. FitAt(fold) \in Nat
  BY <1>1, FitBeforeTest
<1>5. ~ (FitAt(fold) > day)
  BY <1>2, <1>3, <1>4
<1>6. Refuse("model")
  BY <1>2, <1>5 DEF ScoreLeaks, FitAt
<1> QED
  BY <1>6, LoopRefused

LEMMA LoopStep == LoopInv /\ [Next]_vars => LoopInv'
<1> SUFFICES ASSUME LoopInv, [Next]_vars PROVE LoopInv'
  OBVIOUS
<1>1. CASE Fit
  BY <1>1, LoopFit
<1>2. CASE Score
  BY <1>2, LoopScore
<1>3. CASE ScoreLeaks
  BY <1>3, LoopLeaks
<1>4. CASE ScoreRefused
  BY <1>4, LoopRefused DEF ScoreRefused
<1>5. CASE UNCHANGED vars
  <2>1. UNCHANGED <<settings, at, fold, left, predictions, unscored, skips>>
    BY <1>5 DEF vars
  <2>2. \A k : /\ Behind(k)' = Behind(k) /\ Scored(k)' = Scored(k)
               /\ Omitted(k)' = Omitted(k) /\ TestRows(k)' = TestRows(k)
    BY <2>1, FoldsFixed DEF Behind, Ahead, Scored, Omitted
  <2>3. Accounted' <=> Accounted
    BY <2>1, <2>2, FoldsFixed DEF Accounted
  <2>4. InWindow' <=> InWindow
    BY <2>1, FoldsFixed DEF InWindow
  <2>5. AtAFold' /\ LeftToScore' /\ (Running' <=> Running)
    BY <2>1, FoldsFixed DEF LoopInv, AtAFold, LeftToScore, Running
  <2> QED
    BY <2>1, <2>3, <2>4, <2>5, FoldsFixed DEF LoopInv
<1> QED
  BY <1>1, <1>2, <1>3, <1>4, <1>5 DEF Next

\* For every calendar, window, horizon, delay and refit cadence, and every
\* model: neither leakage check of the loop ever fires (run_walk_forward).  The
\* folds of generate_folds, the selection and the clock cannot disagree.
THEOREM LoopNeverLeaks == Spec => []ChecksNeverFire
<1>1. LoopInv => ChecksNeverFire
  BY DEF LoopInv, AtAFold, ChecksNeverFire
<1> QED
  BY LoopInit, LoopStep, <1>1, PTL DEF Spec

\* Test windows a step apart, no longer than the step, share no row.
LEMMA WindowsApart ==
  ASSUME SettingsInv, settings.step >= settings.test,
         NEW k \in 1 .. FoldCount, NEW l \in 1 .. FoldCount, k < l
  PROVE  TestRows(k) \cap TestRows(l) = {}
<1> SUFFICES ASSUME NEW r \in TestRows(k), r \in TestRows(l) PROVE FALSE
  OBVIOUS
<1>1. k \in Nat \ {0} /\ l \in Nat \ {0}
  BY FoldsCounted
<1>2. /\ TestLo(k) \in Nat /\ TestLo(l) \in Nat
      /\ TestLo(k) + settings.step <= TestLo(l)
      /\ settings.step \in Nat \ {0} /\ settings.test \in Nat \ {0}
  BY <1>1, TestLoSteps, GridFacts
<1>3. PICK hi \in DOMAIN Grid : hi = TestLo(k) + settings.test - 1
  BY FoldOnGrid
<1>4. PICK lo \in DOMAIN Grid : lo = TestLo(l)
  BY FoldOnGrid
<1>5. hi < lo
  BY <1>2, <1>3, <1>4
<1>6. Grid[hi] < Grid[lo] /\ Grid[hi] \in Nat /\ Grid[lo] \in Nat
  BY <1>5, GridFacts
<1>7. r.day <= Grid[hi] /\ Grid[lo] <= r.day /\ r.day \in Nat
  BY <1>3, <1>4, FoldOnGrid, RecordDays DEF TestRows, InTest
<1> QED
  BY <1>6, <1>7

\* For every setting and every model: a run that ends has scored or listed as
\* omitted each record of each test window, never both, has skipped exactly the
\* folds without one, and, when test windows do not overlap, has dealt with
\* none of them twice (run_walk_forward).
THEOREM LoopAccountsForRows == Spec => []EveryTestRowAccounted
<1>1. LoopInv => EveryTestRowAccounted
  <2> SUFFICES ASSUME LoopInv, at = "done" PROVE EveryTestRowAccounted
    BY DEF EveryTestRowAccounted
  <2>1. SettingsInv /\ Accounted /\ InWindow /\ fold = FoldCount + 1 /\ FoldCount \in Nat
    BY FoldsCounted DEF LoopInv, AtAFold
  <2>2. ASSUME NEW k \in 1 .. FoldCount
        PROVE  /\ Scored(k) \cup Omitted(k) = TestRows(k)
               /\ Scored(k) \cap Omitted(k) = {}
               /\ k \in skips <=> TestRows(k) = {}
    <3>1. k < fold
      BY <2>1
    <3>2. Behind(k) = TestRows(k)
      BY <3>1 DEF Behind, Ahead
    <3> QED
      BY <2>1, <3>1, <3>2 DEF Accounted
  <2>3. ASSUME settings.step >= settings.test,
               NEW p \in predictions \cup unscored, NEW q \in predictions \cup unscored,
               p.record = q.record
        PROVE  p.fold = q.fold
    <3>1. /\ p.fold \in 1 .. FoldCount /\ q.fold \in 1 .. FoldCount
          /\ p.record \in TestRows(p.fold) /\ p.record \in TestRows(q.fold)
      BY <2>1, <2>3 DEF InWindow
    <3>2. ~ (p.fold < q.fold) /\ ~ (q.fold < p.fold)
      BY <2>1, <2>3, <3>1, WindowsApart
    <3> QED
      BY <2>1, <3>1, <3>2
  <2> QED
    BY <2>2, <2>3 DEF EveryTestRowAccounted, Scored, Omitted, TestRows
<1> QED
  BY LoopInit, LoopStep, <1>1, PTL DEF Spec
===============================================================================

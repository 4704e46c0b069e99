----------------------------- MODULE WalkForward -----------------------------
(***************************************************************************)
(* The walk-forward loop (validation/runner.py) over the folds, the        *)
(* training selection (validation/folds.py) and the refit clock            *)
(* (validation/clock.py).                                                  *)
(*                                                                         *)
(* A day is the close of a trading day.  A record is the training example  *)
(* of one grid day: decided at its close, its return runs over             *)
(* (start, end] (targets/engine.py, close to close).  One security stands  *)
(* for the cross-section: the selection treats every record by itself.     *)
(*                                                                         *)
(* The settings of a run are chosen in Init and never change; the model    *)
(* the fit function returns is free to stamp itself late, to omit a        *)
(* record, and to answer with what nobody asked for.                       *)
(***************************************************************************)
EXTENDS Integers, Sequences, FiniteSets, FiniteSetsExt

CONSTANTS Calendars,  \* trading days, and the days of them on the grid
          Horizons,   \* target horizons in grid steps
          Delays,     \* execution shifts in trading days
          TrainSteps, \* shortest training windows, in grid steps
          TestSteps,  \* test windows, in grid steps
          Strides,    \* grid steps between folds, and between refits
          Embargoes   \* embargo in horizons

ASSUME WalkForwardAssumption ==
  /\ \A c \in Calendars :
       /\ c.days \in Seq(Nat) /\ c.grid \in Seq(Nat)
       /\ \A i, j \in DOMAIN c.days : i < j => c.days[i] < c.days[j]
       /\ \A i, j \in DOMAIN c.grid : i < j => c.grid[i] < c.grid[j]
       /\ \A i \in DOMAIN c.grid : \E j \in DOMAIN c.days : c.grid[i] = c.days[j]
  /\ Horizons \cup TrainSteps \cup TestSteps \cup Strides \subseteq Nat \ {0}
  /\ Delays \cup Embargoes \subseteq Nat

VARIABLES settings,    \* what was configured
          at,          \* "fit", "score", "done", or why the run was refused
          fold,        \* number of the fold the loop is at
          model,       \* the model of the fold: the stamp it carries
          left,        \* test days of the fold still to score
          fits,        \* fit records: fold, fit time, training rows
          predictions, \* scored records, with their fold and fit time
          unscored,    \* records the model omitted
          skips        \* folds that found nothing to score

vars == <<settings, at, fold, model, left, fits, predictions, unscored, skips>>

Settings == [calendar : Calendars, scheme : {"expanding", "rolling"},
             horizon : Horizons, delay : Delays,
             train : TrainSteps, test : TestSteps, step : Strides, refit : Strides,
             purge : {"required", "off"}, embargo : Embargoes]

\* Refused when folds are generated: overlapping targets without a purge, a
\* grid with no room for one fold.
Admissible(s) == /\ s.purge = "off" => s.horizon = 1
                 /\ Len(s.calendar.grid) >= s.train + s.test

Grid == settings.calendar.grid

Days == settings.calendar.days

-----------------------------------------------------------------------------
(* Targets and folds.                                                      *)

\* The trading day the execution delay moves a day to: past the calendar
\* there is none.
Shift(day) == {Days[i + settings.delay] : i \in
                 {j \in 1 .. Len(Days) - settings.delay : Days[j] = day}}

\* The return of grid point i runs to the grid point a horizon later, both
\* ends shifted; a return the calendar does not complete makes no record.
Records ==
  UNION {[day : {Grid[i]}, start : Shift(Grid[i]), end : Shift(Grid[i + settings.horizon])] :
           i \in 1 .. Len(Grid) - settings.horizon}

Fold(trainLo, trainHi, testLo, testHi) ==
  [trainLo |-> Grid[trainLo], trainHi |-> Grid[trainHi],
   testLo |-> Grid[testLo], testHi |-> Grid[testHi]]

\* Mutant of TestLo: successive test windows share a day.
TestLoShared(k) == settings.train + 1 + (k - 1) * (settings.step - 1)

\* First test point of fold k.
TestLo(k) == settings.train + 1 + (k - 1) * settings.step

FoldCount == Cardinality({k \in 1 .. Len(Grid) : TestLo(k) + settings.test - 1 <= Len(Grid)})

\* generate_folds: the training window ends where the test window begins; a
\* trailing partial test window makes no fold.
FoldAt(k) ==
  Fold(IF settings.scheme = "expanding" THEN 1 ELSE TestLo(k) - settings.train,
       TestLo(k) - 1, TestLo(k), TestLo(k) + settings.test - 1)

InTest(f, r) == f.testLo <= r.day /\ r.day <= f.testHi

\* The return overlaps the decisions of the test period.
Purged(f, r) == /\ settings.purge = "required"
                /\ r.end > f.testLo
                /\ r.start < f.testHi

\* Mutant of Embargoed: the zone begins at the first test day.
EmbargoedFromStart(f, r) ==
  /\ settings.horizon > 1 /\ settings.embargo > 0
  /\ r.end > f.testHi
  /\ r.start < f.testLo + settings.embargo * (r.end - r.start)

\* The return overlaps the embargo zone, whose length is that of the row.
Embargoed(f, r) == /\ settings.horizon > 1 /\ settings.embargo > 0
                   /\ r.end > f.testHi
                   /\ r.start < f.testHi + settings.embargo * (r.end - r.start)

\* select_training_records keeps a row of the training window that is
\* realized at the fit and neither purged nor embargoed.
Retained(f, r, fitAt) == /\ f.trainLo <= r.day /\ r.day <= f.trainHi
                         /\ r.end <= fitAt
                         /\ ~ Purged(f, r)
                         /\ ~ Embargoed(f, r)

-----------------------------------------------------------------------------
(* The clock.                                                              *)

\* Every refit-th grid day of the run's window, which begins with the first
\* training day of all folds: that of the first fold.
RefitDays == {Grid[i] : i \in {j \in DOMAIN Grid : (j - 1) % settings.refit = 0}}

\* Mutant of FitTime: the refit that governs the last test day.
FitTimeOfEnd(f) == Max({d \in RefitDays : d <= f.testHi})

\* The last refit day at or before the first test day.
FitTime(f) == Max({d \in RefitDays : d <= f.testLo})

-----------------------------------------------------------------------------
(* The loop.                                                               *)

Refuse(why) == at' = why /\ UNCHANGED <<settings, fold, model, left, fits, predictions,
                                        unscored, skips>>

NextFold == at' = (IF fold = FoldCount THEN "done" ELSE "fit") /\ fold' = fold + 1

\* The rows are selected and checked at one time, the fit is stamped another.
FitsWith(selectAt, fitAt) ==
  LET f    == FoldAt(fold)
      rows == {r \in Records : Retained(f, r, selectAt)}
      days == {r.day : r \in {q \in Records : InTest(f, q)}}
  IN  /\ at = "fit"
      /\ \/ /\ rows = {}
            /\ Refuse("empty")
         \/ /\ rows # {}
            /\ \E r \in rows : r.end > selectAt
            /\ Refuse("leak")
         \/ /\ rows # {}
            /\ \A r \in rows : r.end <= selectAt
            /\ fits' = fits \cup {[fold |-> fold, fit |-> fitAt, rows |-> rows]}
            /\ left' = days
            /\ \E stamp \in {fitAt, fitAt + 1} : model' = stamp
            /\ \/ days = {} /\ skips' = skips \cup {fold} /\ NextFold
               \/ days # {} /\ UNCHANGED <<fold, skips>> /\ at' = "score"
            /\ UNCHANGED <<settings, predictions, unscored>>

\* Mutant of Fit: the rows are selected as of the last test day.
FitSelectsLate == FitsWith(FoldAt(fold).testHi, FitTime(FoldAt(fold)))

\* Select, check both horizons against the fit time, record the fit, fit.  A
\* fold without a test row is fitted, and then skipped.
Fit == FitsWith(FitTime(FoldAt(fold)), FitTime(FoldAt(fold)))

\* The day is scored; after the last one comes the next fold.
DayDone(day) == /\ left' = left \ {day}
                /\ IF left = {day} THEN NextFold ELSE UNCHANGED <<at, fold>>

\* The next test day: its record is scored, or omitted by the model.
Score ==
  LET day == Min(left)
      fit == FitTime(FoldAt(fold))
  IN  /\ at = "score"
      /\ model <= day /\ fit <= day
      /\ DayDone(day)
      /\ \E r \in {q \in Records : q.day = day} :
           \/ /\ predictions' = predictions \cup {[fold |-> fold, record |-> r, fit |-> fit]}
              /\ UNCHANGED unscored
           \/ /\ unscored' = unscored \cup {[fold |-> fold, record |-> r]}
              /\ UNCHANGED predictions
      /\ UNCHANGED <<settings, model, fits, skips>>

\* The fit, or the stamp of the model, comes after the signal.
ScoreLeaks ==
  /\ at = "score"
  /\ \/ FitTime(FoldAt(fold)) > Min(left) /\ Refuse("leak")
     \/ FitTime(FoldAt(fold)) <= Min(left) /\ model > Min(left) /\ Refuse("model")

\* A score that is not finite, or for a record nobody asked about.
ScoreRefused == at = "score" /\ Refuse("model")

Init == /\ settings \in {s \in Settings : Admissible(s)}
        /\ at = "fit"
        /\ fold = 1
        /\ model = 0
        /\ left = {}
        /\ fits = {}
        /\ predictions = {}
        /\ unscored = {}
        /\ skips = {}

Next == Fit \/ Score \/ ScoreLeaks \/ ScoreRefused

Spec == Init /\ [][Next]_vars

-----------------------------------------------------------------------------
(* Properties.                                                             *)

TypeOK ==
  /\ settings \in Settings
  /\ at \in {"fit", "score", "done", "empty", "leak", "model"}
  /\ fold \in 1 .. FoldCount + 1
  /\ model \in Nat
  /\ left \subseteq {r.day : r \in Records}
  /\ at = "score" => left # {}
  /\ at = "done" <=> fold = FoldCount + 1
  /\ \A f \in fits : f.fold \in 1 .. FoldCount /\ f.rows \subseteq Records
  /\ \A p \in predictions : p.fold \in 1 .. FoldCount /\ p.record \in Records
  /\ \A u \in unscored : u.fold \in 1 .. FoldCount /\ u.record \in Records
  /\ skips \subseteq 1 .. FoldCount

\* Every prediction is made with a fit of its own fold, at or before its
\* decision, and no return the model was trained on ends after that fit
\* (CI-006, CI-010): whatever the refit cadence, the delay and the model.
TrainedOnThePast ==
  \A p \in predictions :
    /\ p.fit <= p.record.day
    /\ \E f \in fits : f.fold = p.fold /\ f.fit = p.fit
    /\ \A f \in fits : f.fold = p.fold => \A r \in f.rows : r.end <= p.fit

\* The folds, the selection and the clock agree: with the folds
\* generate_folds makes, the leakage checks of the loop never fire, and only
\* an empty training set or the model itself can stop a run.
ChecksNeverFire == at # "leak"

\* A run that ends has accounted for every record of every test window: it
\* is scored or listed as omitted, never both, and a fold is skipped exactly
\* when it has none.  When test windows do not overlap, nothing is scored
\* twice.
EveryTestRowAccounted ==
  at = "done" =>
    /\ \A k \in 1 .. FoldCount :
         LET rows    == {r \in Records : InTest(FoldAt(k), r)}
             scored  == {p.record : p \in {q \in predictions : q.fold = k}}
             omitted == {u.record : u \in {v \in unscored : v.fold = k}}
         IN  /\ scored \cup omitted = rows
             /\ scored \cap omitted = {}
             /\ k \in skips <=> rows = {}
    /\ settings.step >= settings.test =>
         \A p, q \in predictions \cup unscored : p.record = q.record => p.fold = q.fold

\* Any two disjoint windows over the grid, training after testing included.
AllFolds == {Fold(w[1], w[2], w[3], w[4]) : w \in
              {v \in (DOMAIN Grid) \X (DOMAIN Grid) \X (DOMAIN Grid) \X (DOMAIN Grid) :
                 v[1] <= v[2] /\ v[3] <= v[4] /\ (v[2] < v[3] \/ v[4] < v[1])}}

Apart(r, t) == r.end <= t.start \/ t.end <= r.start

Separated ==
  \A f \in AllFolds : \A r, t \in Records :
    InTest(f, t) /\ Retained(f, r, r.end) => Apart(r, t)

\* Grid and calendar are evenly spaced and the delay is shorter than a step.
Evenly ==
  \E gap \in {Grid[2] - Grid[1]} :
    /\ settings.delay < gap
    /\ \A i, j \in DOMAIN Grid : Grid[j] - Grid[i] = (j - i) * gap
    /\ \A i \in DOMAIN Grid : Shift(Grid[i]) \subseteq {Grid[i] + settings.delay}

\* On an even grid, with an embargo of a horizon or more, no row any fold can
\* be trained on shares a day of return with an outcome it is tested on
\* (CI-015), whenever the fit is.
EmbargoSeparates ==
  at = "fit" /\ fold = 1 /\ Evenly /\ (settings.horizon = 1 \/ settings.embargo >= 1)
    => Separated

-----------------------------------------------------------------------------
(* What the documents say and the code does not do.                        *)

\* The same on every grid.
EmbargoCovers == at = "fit" /\ fold = 1 /\ settings.embargo >= 1 => Separated
=============================================================================

------------------------------- MODULE Report --------------------------------
(* Reporting: what is scored, and what a run makes of it.                     *)
EXTENDS Metrics

(* The panel of outcomes that is scored, out of the predictions of a run      *)
(* (reporting/panel.py), and the two accounts of what was not scored          *)
(* (reporting/coverage.py).                                                   *)
(*                                                                            *)
(* A prediction is a record of its security, the day it was decided, the      *)
(* (start, end] and the horizon of its return, its fold and the fit of its    *)
(* model.                                                                     *)

\* Mutant of Outcome: known by the day of the decision.
OutcomeByDay(p) == <<p.security, p.day>>

\* What is realized; the label of the decision is no part of it.
Outcome(p) == <<p.security, p.end>>

Rivals(pool, p) == {q \in pool \ {p} : Outcome(q) = Outcome(p)}

\* latest_fit: the model fitted last, and of those the last fold.
Fresher(p, q) == p.fit > q.fit \/ (p.fit = q.fit /\ p.fold > q.fold)

PanelError(pool, complete, policy) ==
    IF pool = {} THEN "empty"
    ELSE IF \E p, q \in pool : p.horizon # q.horizon THEN "mixed horizons"
    ELSE IF \E p, q \in pool : p.day = q.day /\ <<p.start, p.end>> # <<q.start, q.end>> THEN "mixed windows"
    ELSE IF \E p \in complete : \E q \in Rivals(complete, p) : p.fold = q.fold THEN "twice in a fold"
    ELSE IF policy = "refuse" /\ \E p \in complete : Rivals(complete, p) # {} THEN "predicted twice"
    ELSE "none"

\* Returns the data do not complete are excluded before anything is compared.
BuildScoringPanel(pool, dataEnd, policy) ==
    LET complete == {p \in pool : p.end <= dataEnd}
        kept == {p \in complete : \A q \in Rivals(complete, p) : Fresher(p, q)}
        exclude(some, why) == {[prediction |-> p, reason |-> why] : p \in some}
        error == PanelError(pool, complete, policy)
    IN IF error # "none" THEN [error |-> error, kept |-> {}, excluded |-> {}]
       ELSE [error |-> "none", kept |-> kept,
             excluded |-> exclude(pool \ complete, "incomplete") \cup exclude(complete \ kept, "superseded")]

PanelDays(panel) == {p.day : p \in panel.kept}

-----------------------------------------------------------------------------
\* A window is its first and its last day.
Inside(day, window) == window[1] <= day /\ day <= window[2]

CoverageError(windows, claim, days) ==
    IF days = {} THEN "empty grid"
    ELSE IF windows = {} THEN "no fits"
    ELSE IF \A d \in days : ~Inside(d, claim) THEN "claim without a grid day" ELSE "none"

\* What the run claims to test, against what its folds test.
OosCoverage(windows, claim, days) ==
    LET tested(d) == \E w \in windows : Inside(d, w)
        claimed == {d \in days : Inside(d, claim)}
    IN [claimed |-> claimed,
        covered |-> {d \in claimed : tested(d)},
        uncovered |-> {d \in claimed : ~tested(d)},
        outside |-> {d \in days \ claimed : tested(d)},
        contained |-> \A w \in windows : Inside(w[1], claim) /\ Inside(w[2], claim)]

\* Every member of the universe of a day, by the ledger that explains it; a day
\* that was skipped as a whole explains whom nothing else does.
CoverageAccounting(predicted, unscored, skipped, skippedDays, universe) ==
    [day \in DOMAIN universe |->
        LET on(ledger) == {s \in universe[day] : <<day, s>> \in ledger}
            rest == universe[day] \ (on(predicted) \cup on(unscored) \cup on(skipped))
            whole == IF day \in skippedDays THEN rest ELSE {}
        IN [predicted |-> on(predicted), unscored |-> on(unscored),
            skipped |-> on(skipped) \cup whole, unaccounted |-> rest \ whole]]

-----------------------------------------------------------------------------
(* What run_experiment (pipeline/experiment.py) does around its stages: how   *)
(* it finds and overrides the version, the book and the periods it makes of   *)
(* the predictions, the audit of leaks, the acceptance, and the report.  A    *)
(* setting that is absent, and a refusal, is the empty set.                   *)

\* A mapping is a function from paths to scalars.  An override replaces what is
\* at its path, and a scalar on the way to it.
ApplyOverride(data, o) ==
    LET stays == {p \in DOMAIN data : ~IsPrefix(o.path, p) /\ ~IsPrefix(p, o.path)}
    IN Restrict(data, stays) @@ (Append(o.path, "value") :> o.value) @@ (Append(o.path, "prov") :> o.prov)
ApplyOverrides(data, overrides) == FoldLeft(ApplyOverride, data, overrides)

\* The only key of the map, or the one that is set.
FractileCount(fractiles, key) ==
    LET keys == IF key # {} THEN key
                ELSE IF Cardinality(DOMAIN fractiles) = 1 THEN DOMAIN fractiles ELSE {}
    IN {fractiles[k] : k \in keys \cap DOMAIN fractiles}

\* spec.gross is the gross exposure, spec.cap a cap on weights, or NoCap.
GrossExposure(spec) == spec.gross
BuildBook(scores, spec, key, level) ==
    LET counts == FractileCount(spec.fractiles, key)
        k == CHOOSE n \in counts : TRUE
        half == (CHOOSE g \in GrossExposure(spec) : TRUE) \div 2
    IN IF counts = {} \/ GrossExposure(spec) = {} THEN Refused("config")
       ELSE IF level = 1 THEN BuildSimple(scores, k, half)
       ELSE IF level = 2 /\ spec.residualization = {}
       THEN BuildSignalWeighted(scores, k, half, spec.cap, "none", <<>>)
       ELSE Refused("config")

\* Of two folds that score a name on one day the later one counts.
LastScored(pool, day, s) ==
    CHOOSE p \in pool : /\ p.day = day /\ p.security = s
                        /\ \A q \in pool : q.day = day /\ q.security = s => q.fold <= p.fold
ScoresOf(pool, day) ==
    [s \in {p.security : p \in {q \in pool : q.day = day}} |-> LastScored(pool, day, s).score]

\* One period a decision day with its book, over the return of any of its records.
BuildLedger(pool, books) ==
    LET sample(day) == CHOOSE p \in pool : p.day = day
        period(day, book) ==
          [date |-> sample(day).start, mark |-> sample(day).end, target |-> book,
           marks |-> <<[returns |-> [s \in DOMAIN book |-> LastScored(pool, day, s).outcome],
                        terminated |-> {s \in DOMAIN book : LastScored(pool, day, s).delisted}]>>]
        days == SetToSortSeq({p.day : p \in pool}, <)
    IN [i \in DOMAIN days |-> period(days[i], books[days[i]])]

\* What the accounting refuses of the dates: a mark at or before its rebalance,
\* a rebalance before the last mark of the period before.
DatesRefused(periods) ==
    \/ \E i \in DOMAIN periods : periods[i].mark <= periods[i].date
    \/ \E i \in 2 .. Len(periods) : periods[i].date < periods[i - 1].mark

-----------------------------------------------------------------------------
\* The mean size of a feature's rank correlation with the outcomes, over the
\* dates with three names or more; ranks are ordinal, ties in the order of ids.
Ordinal(values) == [s \in DOMAIN values |-> StableRank(values, s)]
LeakageAudit(ranks, panel, threshold) ==
    [f \in DOMAIN ranks |->
        LET common(i) == (DOMAIN ranks[f][i]) \cap (DOMAIN panel[i])
            dates == {i \in DOMAIN panel : Cardinality(common(i)) >= 3}
            ics == Defined([i \in dates |-> Pearson(Ordinal(Restrict(ranks[f][i], common(i))),
                                                    Ordinal(Restrict(Outcomes(panel[i]), common(i))))])
            row(mean) == [dates |-> Cardinality(dates), mean |-> mean, suspected |-> \E m \in mean : m > threshold]
        IN row(Mean([i \in DOMAIN ics |-> Abs(ics[i])]))]

Measurable == {"rank_ic_monthly", "ls_sharpe"}
EvaluateAcceptance(acceptance, measured) ==
    [key \in DOMAIN acceptance |->
        IF key \in Measurable \cap DOMAIN measured
        THEN [status |-> "evaluated", within |-> Abs(measured[key] - acceptance[key].target) <= acceptance[key].band]
        ELSE [status |-> "not evaluated", within |-> FALSE]]

\* Nothing measured is nothing passed, and a suspected leak is never passed.
AcceptanceVerdict(rows, suspected) ==
    LET evaluated == {key \in DOMAIN rows : rows[key].status = "evaluated"}
    IN evaluated # {} /\ suspected = {} /\ \A key \in evaluated : rows[key].within

-----------------------------------------------------------------------------
\* What two runs must differ in to be different runs: not where the version was
\* found and the files go, nor the overrides but for what they make of the version.
RunConfigHash(experiment, spec) ==
    [version |-> spec,
     of |-> Restrict(experiment, (DOMAIN experiment) \ {"version_spec", "artifacts_root", "overrides"})]

\* Coverage and the panel as a run reports them.  The claim begins with the
\* first test day and ends with the run; only days that are scored are accounted.
\* The returns of two scored days must not overlap, nor an outcome be scored twice.
RunReport(pool, unscored, windows, run, books) ==
    LET panel == BuildScoringPanel(pool, run.end, "refuse")
        claim == <<Min({w[1] : w \in windows}), run.end>>
        daily(ledger) == {<<p.day, p.security>> : p \in ledger}
        universe == [d \in PanelDays(panel) |-> run.universe]
    IN IF pool = {} THEN [error |-> "zero predictions"]
       ELSE IF DatesRefused(BuildLedger(pool, books)) THEN [error |-> "dates"]
       ELSE IF panel.error # "none" THEN [error |-> panel.error]
       ELSE IF CoverageError(windows, claim, run.grid) # "none"
       THEN [error |-> CoverageError(windows, claim, run.grid)]
       ELSE [error |-> "none", panel |-> panel, oos |-> OosCoverage(windows, claim, run.grid),
             coverage |-> CoverageAccounting(daily(pool), daily(unscored), {}, run.skipped, universe)]
=============================================================================

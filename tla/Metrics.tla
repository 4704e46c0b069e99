------------------------------- MODULE Metrics -------------------------------
(* The statistics of reporting/stats.py and the metrics of the signal of      *)
(* reporting/signal.py.  A series is a function to integers, a figure is in   *)
(* thousandths and rounded down.  A metric answers a set: the empty one where *)
(* the code refuses the input, skips the cross-section, or says that nothing  *)
(* produces its input.                                                        *)
EXTENDS Construction

Milli == 1000

Mean(v) == IF DOMAIN v = {} THEN {} ELSE {Total(v) \div Cardinality(DOMAIN v)}

\* The square root of the sum of squares about the mean, over n - 1.
SampleStd(v) ==
    LET n == Cardinality(DOMAIN v)
    IN IF n < 2 THEN {} ELSE {Root(Spread(v) \div (n * (n - 1)))}

\* Twice the average rank, so that ties stay whole.
MidRanks(v) ==
    [s \in DOMAIN v |-> 1 + 2 * Cardinality({r \in DOMAIN v : v[r] < v[s]})
                          + Cardinality({r \in DOMAIN v : v[r] = v[s]})]

CoSpread(x, y) ==
    Cardinality(DOMAIN x) * Total([s \in DOMAIN x |-> x[s] * y[s]]) - Total(x) * Total(y)

\* A constant series has no correlation.
Pearson(x, y) ==
    IF DOMAIN x # DOMAIN y \/ Cardinality(DOMAIN x) < 2 \/ Spread(x) = 0 \/ Spread(y) = 0 THEN {}
    ELSE {(Milli * CoSpread(x, y)) \div Root(Spread(x) * Spread(y))}

Spearman(x, y) == Pearson(MidRanks(x), MidRanks(y))

\* Bartlett weights over the autocovariances of a sequence.
NeweyWestSe(v, lags) ==
    LET n == Len(v)
        used == IF lags < n - 1 THEN lags ELSE n - 1
        mean == Total(v) \div n
        gamma(k) == SumOver([t \in 1 .. n |-> IF t > k THEN (v[t] - mean) * (v[t - k] - mean) ELSE 0], 1 .. n)
        weighted == gamma(0) * (used + 1)
                      + 2 * MapThenSumSet(LAMBDA k : (used + 1 - k) * gamma(k), 1 .. used)
    IN IF lags < 0 \/ n < 2 THEN {} ELSE {Root(weighted \div (n * n * (used + 1)))}

\* The order statistic at the ceiling of alpha * n, alpha in hundredths.
TailQuantile(v, alpha) ==
    LET n == Len(v)
        below(i) == Cardinality({j \in 1 .. n : v[j] < v[i] \/ (v[j] = v[i] /\ j < i)})
        place == (alpha * n + 99) \div 100 - 1
    IN {v[i] : i \in {j \in 1 .. n : below(j) = place}}

ExpectedShortfall(v, alpha) ==
    UNION {Mean(Restrict(v, {i \in DOMAIN v : v[i] <= cutoff})) : cutoff \in TailQuantile(v, alpha)}

-----------------------------------------------------------------------------
(* The signal.  A panel is a sequence of cross-sections, security -> [score,  *)
(* outcome], by date.                                                         *)
Scores(section) == [s \in DOMAIN section |-> section[s].score]
Outcomes(section) == [s \in DOMAIN section |-> section[s].outcome]
OnCommon(x, y) ==
    LET common == (DOMAIN x) \cap (DOMAIN y) IN Spearman(Restrict(x, common), Restrict(y, common))

\* The figures there are.
Defined(answers) ==
    [i \in {j \in DOMAIN answers : answers[j] # {}} |-> CHOOSE v \in answers[i] : TRUE]

\* The dates whose cross-section has an information coefficient, in order.
IcSeries(panel, method) ==
    LET ic(x, y) == IF method = "pearson" THEN Pearson(x, y) ELSE Spearman(x, y)
        ics == Defined([i \in DOMAIN panel |-> ic(Scores(panel[i]), Outcomes(panel[i]))])
        order(values) == SetToSortSeq(DOMAIN values, <)
        series(values, dates) == [n \in DOMAIN dates |-> [date |-> dates[n], value |-> values[dates[n]]]]
    IN series(ics, order(ics))
IcSkipped(panel, method) ==
    {[date |-> i, reason |-> IF Cardinality(DOMAIN panel[i]) < 2 THEN "too few names" ELSE "degenerate"] :
       i \in DOMAIN panel \ {c.date : c \in Range(IcSeries(panel, method))}}

\* A series that does not vary has no information ratio; the standard error
\* looks one lag less far than the horizon.
IcSummary(series, horizon) ==
    LET values == [n \in DOMAIN series |-> series[n].value] IN
    {[mean |-> m, vol |-> vol, ir |-> (Milli * m) \div vol, se |-> se,
      hits |-> Cardinality({n \in DOMAIN values : values[n] > 0})] :
        m \in Mean(values), vol \in SampleStd(values) \ {0}, se \in NeweyWestSe(values, horizon - 1)}

\* What the names of each fractile returned on average, over the dates with as
\* many names as fractiles.
QuantileMetrics(panel, k) ==
    LET dates == {i \in DOMAIN panel : Cardinality(DOMAIN panel[i]) >= k}
        members(i, q) == Leg(Scores(panel[i]), k, q)
        average(i, q) == SumOver(Outcomes(panel[i]), members(i, q)) \div Cardinality(members(i, q))
        means == [q \in 0 .. k - 1 |-> MapThenSumSet(LAMBDA i : average(i, q), dates) \div Cardinality(dates)]
        index == [q \in 0 .. k - 1 |-> q]
    IN IF k < 2 \/ dates = {} THEN {}
       ELSE {[means |-> means, spread |-> means[k - 1] - means[0], monotonicity |-> rho,
              ordered |-> Cardinality({q \in 0 .. k - 2 : means[q + 1] > means[q]})] :
                rho \in Spearman(index, means)}

\* From each date to the next, over the names of both; turnover is what is left
\* to one.
ScoreAutocorrelation(panel) ==
    LET values == Defined([i \in 1 .. Len(panel) - 1 |->
                             OnCommon(Scores(panel[i]), Scores(panel[i + 1]))])
        summary(v) == {[values |-> v, mean |-> m, turnover |-> [i \in DOMAIN v |-> Milli - v[i]]] : m \in Mean(v)}
    IN summary(values)

\* The scores of a date against the outcomes lag dates later.
DecayAt(panel, lag) ==
    Defined([i \in 1 .. Len(panel) - lag |-> OnCommon(Scores(panel[i]), Outcomes(panel[i + lag]))])
PredictionDecay(panel, maxLag) ==
    LET at(ics) == {[mean |-> m, pairs |-> Cardinality(DOMAIN ics)] : m \in Mean(ics)}
        all(answers) == IF \E lag \in DOMAIN answers : answers[lag] = {} THEN {} ELSE {Defined(answers)}
    IN IF maxLag < 0 THEN {} ELSE all([lag \in 0 .. maxLag |-> at(DecayAt(panel, lag))])

-----------------------------------------------------------------------------
\* The overlap of the factors each fit selected with those of the fit before.
FactorSelectionStability(selected) ==
    LET union(i) == selected[i] \cup selected[i + 1]
        pairs == 1 .. Len(selected) - 1
    IN IF Len(selected) < 2 \/ \E i \in pairs : union(i) = {} THEN {}
       ELSE Mean([i \in pairs |-> (Milli * Cardinality(selected[i] \cap selected[i + 1]))
                                    \div Cardinality(union(i))])

\* Shares of a total, by the family a feature belongs to.
FeatureFamilyExposure(weights, family) ==
    LET sizes == [x \in DOMAIN weights |-> Abs(weights[x])]
        share(name) == SumOver(sizes, {x \in DOMAIN weights : family[x] = name})
    IN IF ~(DOMAIN weights \subseteq DOMAIN family) \/ Total(sizes) = 0 THEN {}
       ELSE {[name \in {family[x] : x \in DOMAIN weights} |-> (Milli * share(name)) \div Total(sizes)]}

SubmodelContribution(series) ==
    LET sizes == Defined([m \in DOMAIN series |-> Mean([t \in DOMAIN series[m] |-> Abs(series[m][t])])])
    IN IF DOMAIN series = {} \/ DOMAIN sizes # DOMAIN series \/ Total(sizes) = 0 THEN {}
       ELSE {[m \in DOMAIN sizes |-> (Milli * sizes[m]) \div Total(sizes)]}

\* The mean of a score in each group, and what the groups alone would earn.
CellMeanExposure(values, group) ==
    LET cell(g) == {s \in DOMAIN values : group[s] = g}
    IN IF ~(DOMAIN values \subseteq DOMAIN group) THEN {}
       ELSE {[g \in {group[s] : s \in DOMAIN values} |-> SumOver(values, cell(g)) \div Cardinality(cell(g))]}
GroupAttributableIc(values, outcomes, group) ==
    IF DOMAIN values # DOMAIN outcomes THEN {}
    ELSE {[cells |-> cells, ic |-> Pearson([s \in DOMAIN values |-> cells[group[s]]], outcomes)] :
            cells \in CellMeanExposure(values, group)}

-----------------------------------------------------------------------------
(* What is reported of a portfolio ledger (reporting/portfolio_metrics.py)    *)
(* and of the research around it (reporting/validity.py).                     *)
(*                                                                            *)
(* A ledger is the sequence of the period rows and the NAVs of all marks; a   *)
(* row has its date, the NAVs it starts and ends with, its return, charges,   *)
(* exposures, traded notional and turnover.  Returns are in hundredths.       *)
Cent == 100

\* The factor a series of returns compounds to, over Cent to the length.
Growth(returns) == FoldLeft(LAMBDA g, r : g * (Cent + r), 1, returns)
Column(ledger, field) == [i \in DOMAIN ledger.periods |-> ledger.periods[i][field]]
Returns(ledger) == Column(ledger, "return")
Largest(v) == Max({v[i] : i \in DOMAIN v})

\* The deepest fall from a peak, along every mark, starting before the first.
MaxDrawdown(ledger) ==
    LET path == <<ledger.periods[1].start>> \o ledger.navs
        peak(i) == Max({path[j] : j \in 1 .. i})
    IN Max({(Cent * (peak(i) - path[i])) \div peak(i) : i \in DOMAIN path})

\* Negative charges would be a return nobody earned.
CostBorrowDrag(ledger) ==
    IF \E i \in DOMAIN ledger.periods : ledger.periods[i].cost < 0 \/ ledger.periods[i].borrow < 0 THEN {}
    ELSE LET drag(field) == [i \in DOMAIN ledger.periods |->
                               (Cent * ledger.periods[i][field]) \div ledger.periods[i].start]
         IN {[cost |-> drag("cost"), borrow |-> drag("borrow")]}

\* The annual figures multiply the figures of a period.  The ratio to the
\* downside is absent when no return fell short.
PortfolioSummary(ledger, perYear, riskFree) ==
    LET returns == Returns(ledger)
        excess == [i \in DOMAIN returns |-> returns[i] - riskFree]
        downside == Total([i \in DOMAIN excess |-> IF excess[i] < 0 THEN excess[i] * excess[i] ELSE 0])
                      \div Len(returns)
    IN IF perYear <= 0 \/ Len(returns) < 2 THEN {}
       ELSE {[growth |-> Growth(returns), vol |-> vol, sharpe |-> (Cent * m * Root(perYear)) \div vol,
              sortino |-> IF downside = 0 THEN {} ELSE {(Cent * m * Root(perYear)) \div Root(downside)},
              drawdown |-> MaxDrawdown(ledger),
              cost |-> [n \in {1, perYear} |-> n * c], borrow |-> [n \in {1, perYear} |-> n * b]] :
                m \in Mean(excess), vol \in SampleStd(returns) \ {0},
                c \in UNION {Mean(d.cost) : d \in CostBorrowDrag(ledger)},
                b \in UNION {Mean(d.borrow) : d \in CostBorrowDrag(ledger)}}

TurnoverSummary(ledger) ==
    LET of(field) == [mean |-> Mean(Column(ledger, field)), max |-> Largest(Column(ledger, field))]
    IN [oneWay |-> of("oneWay"), twoWay |-> of("twoWay")]

ExposureSummary(ledger) ==
    LET gross == Column(ledger, "gross")
        net == Column(ledger, "net")
    IN [gross |-> Mean(gross), maxGross |-> Largest(gross), net |-> Mean(net),
        maxNet |-> Largest([i \in DOMAIN net |-> Abs(net[i])])]

TailLosses(ledger, alpha) ==
    LET returns == Returns(ledger)
        worst == CHOOSE i \in DOMAIN returns :
                   \A j \in DOMAIN returns : returns[i] < returns[j] \/ (returns[i] = returns[j] /\ i <= j)
    IN [var |-> TailQuantile(returns, alpha), shortfall |-> ExpectedShortfall(returns, alpha),
        worst |-> returns[worst], date |-> ledger.periods[worst].date]

\* The benchmark must have the date of every rebalance.
OnDates(ledger, byDate) == [i \in DOMAIN ledger.periods |-> byDate[ledger.periods[i].date]]
Dated(ledger, byDate) == \A i \in DOMAIN ledger.periods : ledger.periods[i].date \in DOMAIN byDate
BetaToBenchmark(ledger, benchmark) ==
    IF ~Dated(ledger, benchmark) \/ Len(ledger.periods) < 2 THEN {}
    ELSE {(Cent * CoSpread(Returns(ledger), b)) \div Spread(b) :
            b \in {v \in {OnDates(ledger, benchmark)} : Spread(v) # 0}}

-----------------------------------------------------------------------------
(* By group.  A period has its target weights and its marks, each with the    *)
(* returns and the names it terminates; a name without a group is unmapped.   *)
GroupOf(s, group) == IF s \in DOMAIN group THEN group[s] ELSE "UNMAPPED"
ByGroup(figure, group) ==
    [g \in {GroupOf(s, group) : s \in DOMAIN figure} |->
        SumOver(figure, {s \in DOMAIN figure : GroupOf(s, group) = g})]

GroupExposures(periods, group) ==
    [i \in DOMAIN periods |->
        [gross |-> ByGroup([s \in DOMAIN periods[i].target |-> Abs(periods[i].target[s])], group),
         net |-> ByGroup(periods[i].target, group),
         unmapped |-> DOMAIN periods[i].target \ DOMAIN group]]

\* A name is marked up to the mark that terminates it; a mark it has no return
\* for is refused.
MarksOf(period, s) ==
    LET ends == {n \in DOMAIN period.marks : s \in period.marks[n].terminated}
    IN SubSeq(period.marks, 1, IF ends = {} THEN Len(period.marks) ELSE Min(ends))
Contribution(period, s) ==
    LET marks == MarksOf(period, s)
        unit == Cent ^ Len(marks)
        path == [n \in DOMAIN marks |-> marks[n].returns[s]]
    IN (period.target[s] * (Growth(path) - unit)) \div unit
PerformanceByGroup(periods, group) ==
    IF \E i \in DOMAIN periods : \E s \in DOMAIN periods[i].target :
         \E n \in DOMAIN MarksOf(periods[i], s) : s \notin DOMAIN periods[i].marks[n].returns
    THEN {}
    ELSE {[i \in DOMAIN periods |->
             ByGroup([s \in DOMAIN periods[i].target |-> Contribution(periods[i], s)], group)]}

\* The returns of the periods of each label; every period has one.
PerformanceByBucket(ledger, label) ==
    LET in(l) == SelectSeq(ledger.periods, LAMBDA row : label[row.date] = l)
        figures(v) == [count |-> Len(v), mean |-> Mean(v), vol |-> SampleStd(v), growth |-> Growth(v)]
    IN IF ~Dated(ledger, label) THEN {}
       ELSE {[l \in {label[ledger.periods[i].date] : i \in DOMAIN ledger.periods} |->
                figures([i \in DOMAIN in(l) |-> in(l)[i].return])]}

-----------------------------------------------------------------------------
(* Capacity.  Turnover is in hundredths of NAV, the cap in hundredths of the  *)
(* average daily volume.                                                      *)
AdvAligned(ledger, adv) ==
    IF ~Dated(ledger, adv) THEN {} ELSE {v \in {OnDates(ledger, adv)} : \A i \in DOMAIN v : v[i] > 0}

ParticipationRate(ledger, adv) ==
    {[rates |-> rates, mean |-> Mean(rates), max |-> Largest(rates)] :
       rates \in {[i \in DOMAIN ledger.periods |-> (Cent * ledger.periods[i].traded) \div v[i]] :
                    v \in AdvAligned(ledger, adv)}}

\* The NAV at which the first period trades at the cap.
CapacityEstimate(ledger, adv, cap) ==
    LET trading == {i \in DOMAIN ledger.periods : ledger.periods[i].oneWay > 0}
        room(v) == [i \in trading |-> (cap * v[i]) \div ledger.periods[i].oneWay]
        binding(v) == {i \in trading : \A j \in trading :
                         room(v)[i] < room(v)[j] \/ (room(v)[i] = room(v)[j] /\ i <= j)}
    IN IF cap \notin 1 .. Cent THEN {}
       ELSE UNION {{[nav |-> room(v)[i], date |-> ledger.periods[i].date] : i \in binding(v)} :
                     v \in AdvAligned(ledger, adv)}

-----------------------------------------------------------------------------
(* Research validity.                                                         *)
ValidationToTestDegradation(validation, test) ==
    [absolute |-> validation - test,
     relative |-> IF validation = 0 THEN {} ELSE {(Cent * (validation - test)) \div Abs(validation)}]

\* The worst scenario has the least value; names are numbers.
SensitivityReport(base, scenarios) ==
    LET worst == {s \in DOMAIN scenarios : \A r \in DOMAIN scenarios :
                    scenarios[s] < scenarios[r] \/ (scenarios[s] = scenarios[r] /\ s <= r)}
        spread == {scenarios[r] - scenarios[s] : r, s \in DOMAIN scenarios}
    IN {[worst |-> s, delta |-> scenarios[s] - base, spread |-> Max(spread)] : s \in worst}

\* Resamples of whole circular blocks, cut to the length of the series; starts
\* are what the generator drew, a sequence of block starts for each.
Resample(values, block, starts) ==
    [t \in 1 .. Len(values) |->
        values[1 + ((starts[1 + ((t - 1) \div block)] + ((t - 1) % block)) % Len(values))]]
BlockBootstrapMean(values, block, drawn, confidence) ==
    LET sums == [b \in DOMAIN drawn |-> Total(Resample(values, block, drawn[b]))]
        ordered == SortSeq(sums, <)
        n == Len(drawn)
        tail == Cent - confidence
        last == ((2 * Cent - tail) * n + 2 * Cent - 1) \div (2 * Cent)
        point == Total(values)
        agree == {b \in DOMAIN drawn : sums[b] = 0 \/ (sums[b] > 0 <=> point > 0)}
    IN IF Len(values) < 2 \/ n < 1 \/ block \notin 1 .. Len(values) \/ confidence \notin 1 .. Cent - 1 THEN {}
       ELSE {[point |-> point, low |-> ordered[(tail * n) \div (2 * Cent) + 1],
              high |-> ordered[IF last < n THEN last ELSE n],
              stable |-> IF point = 0 THEN n ELSE Cardinality(agree)]}

\* The p-value in hundredths; Sidak's over Cent to the number of configurations.
MultipleTestingDiagnostics(p, n) ==
    IF p \notin 0 .. Cent \/ n < 1 THEN {}
    ELSE {[raw |-> p, bonferroni |-> IF n * p > Cent THEN Cent ELSE n * p,
           sidak |-> Cent ^ n - (Cent - p) ^ n]}
=============================================================================

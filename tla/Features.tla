------------------------------ MODULE Features -------------------------------
(* The feature registry (features/registry.py, source_fields.py), the reads a *)
(* feature is allowed (computation.py), the audited library (library.py), the *)
(* engine (engine.py) and the cross-sectional transforms (transforms.py).     *)
(*                                                                            *)
(* Figures are integers and ratios are counted in 1/Unit; the size and the    *)
(* volatility features, which a rank alone ever reads, leave out the          *)
(* logarithm and the square root.  None is a value that is not finite.        *)
EXTENDS PointInTime

CONSTANT Unit

-----------------------------------------------------------------------------
(* The registry.  A source field is <<table, field or metric>>.               *)
Columns == [prices |-> {"close", "mcap", "volume"}]
MetricIds == [fundamentals |-> {"BOOK_VALUE", "TOT_ASSET", "EPS_WAD"}, estimates |-> {"EPS"}]

ValidField(field) ==
    \/ field[1] \in DOMAIN MetricIds /\ field[2] \in MetricIds[field[1]]
    \/ field[1] \in DOMAIN Columns /\ field[2] \in Columns[field[1]]

ValidSpec(spec) == spec.version >= 1 /\ spec.minCoverage \in 0 .. 10 /\ spec.lag >= 0
Key(spec) == <<spec.id, spec.version>>

\* A registry is its specs by key and the lists made of them; refused is set once
\* a call has raised.  Entries are registered together: one refusal ends it.
EmptyRegistry == [specs |-> <<>>, lists |-> <<>>, refused |-> FALSE]

Register(registry, entries) ==
    LET specs == registry.specs
        keys == [i \in DOMAIN entries |-> Key(entries[i])]
    IN IF \/ registry.refused \/ ~IsInjective(keys) \/ Range(keys) \cap DOMAIN specs # {}
          \/ \E e \in Range(entries) : ~ValidSpec(e) \/ e.fields = {} \/ \E f \in e.fields : ~ValidField(f)
       THEN [registry EXCEPT !.refused = TRUE]
       ELSE [registry EXCEPT !.specs = [k \in DOMAIN specs \cup Range(keys) |->
                IF k \in DOMAIN specs THEN specs[k] ELSE CHOOSE e \in Range(entries) : Key(e) = k]]

DefineList(registry, list, members) ==
    IF \/ registry.refused \/ list \in DOMAIN registry.lists \/ members = <<>>
       \/ ~IsInjective(members) \/ ~(Range(members) \subseteq DOMAIN registry.specs)
    THEN [registry EXCEPT !.refused = TRUE] ELSE [registry EXCEPT !.lists = (list :> members) @@ @]

\* The audited library, and the windows its features look back, in days.
Entry(id, fields, lag) == [id |-> id, version |-> 1, fields |-> fields, minCoverage |-> 5, lag |-> lag]
Library ==
    << Entry("momentum_12_1", {<<"prices", "close">>}, 0),
       Entry("reversal_1m", {<<"prices", "close">>}, 0),
       Entry("size_neg_log_mcap", {<<"prices", "mcap">>}, 0),
       Entry("book_to_price", {<<"fundamentals", "BOOK_VALUE">>, <<"prices", "mcap">>}, 90),
       Entry("earnings_yield", {<<"fundamentals", "EPS_WAD">>, <<"prices", "close">>}, 90),
       Entry("eps_revision_3m", {<<"estimates", "EPS">>}, 0),
       Entry("volatility_60d", {<<"prices", "close">>}, 0),
       Entry("adv_dollar_20d", {<<"prices", "close">>, <<"prices", "volume">>}, 0),
       Entry("asset_growth_1y", {<<"fundamentals", "TOT_ASSET">>}, 90) >>
PriceMaxStaleness == 20
FundamentalMaxAge == 540
RevisionLookback == 91

BuildDefaultRegistry ==
    DefineList(Register(EmptyRegistry, Library), "g022_audited_v1", [i \in DOMAIN Library |-> Key(Library[i])])

-----------------------------------------------------------------------------
(* Reads.  A context is the store, the spec and the instant of computation.   *)
\* The lag of the spec gates the tables of statements; bars carry none.
AppliedLag(ctx, table) == IF Vintaged(table) /\ ctx.spec.lag > 0 THEN ctx.spec.lag ELSE None

Frame(ctx, table, metric, securities, asOf) ==
    AsOfFrame(ctx.pit, table, asOf,
              {r \in ctx.pit.rows[table] : r.security \in securities /\ (metric # None => r.metric = metric)},
              AppliedLag(ctx, table))

\* Mutant of StampLag: the stamp carries the lag of the registry alone.
RegistryLag(ctx, table) == IF AppliedLag(ctx, table) = None THEN 0 ELSE AppliedLag(ctx, table)

\* The lag a stamp carries is the one the store applied.
StampLag(ctx, table) == EffectiveLag(ctx.pit, table, AppliedLag(ctx, table))

\* The rows that a feature reads of a field; of the estimates it reads those of
\* three months before as well.
MetricOf(field) == IF field[1] \in DOMAIN MetricIds THEN field[2] ELSE None
Instants(ctx, table) ==
    {ctx.asOf} \cup (IF table = "estimates" THEN {ctx.asOf - 2 * RevisionLookback} ELSE {})
ReadRows(ctx, field, securities) ==
    UNION {Frame(ctx, field[1], MetricOf(field), securities, at) : at \in Instants(ctx, field[1])}

\* When each row that a feature reads became usable.
ReadStamps(ctx, securities) ==
    UNION {{r.known + 2 * StampLag(ctx, f[1]) : r \in ReadRows(ctx, f, securities)} : f \in ctx.spec.fields}

-----------------------------------------------------------------------------
(* The kernels: an observation of each security that has one.                 *)
Bars(ctx, s) == Frame(ctx, "prices", None, {s}, ctx.asOf)

\* The last bar with the field on or before a day, unless it is stale.
LastOnOrBefore(bars, day, field) ==
    LET filled == {b \in bars : b.day <= day /\ b[field] # None}
        last == CHOOSE b \in filled : \A c \in filled : c.day <= b.day
    IN IF filled = {} \/ day - last.day > PriceMaxStaleness THEN None ELSE last

\* The last statement, unless it is too old.
LatestFundamental(ctx, s, metric) ==
    LET known == Frame(ctx, "fundamentals", metric, {s}, ctx.asOf)
        last == CHOOSE r \in known : \A q \in known : q.period <= r.period
    IN IF known = {} \/ DayOf(ctx.asOf) - last.period > FundamentalMaxAge THEN None ELSE last

Observation(x, day) == [value |-> x, at |-> 2 * day]
Ratio(x, y) == (Unit * x) \div y

Change(bars, recent, base) ==
    LET now == LastOnOrBefore(bars, recent, "close")
        then == LastOnOrBefore(bars, base, "close")
    IN IF None \in {now, then} \/ then.close <= 0 THEN None
       ELSE Observation(Ratio(now.close, then.close) - Unit, now.day)
Momentum(ctx, s) == Change(Bars(ctx, s), DayOf(ctx.asOf) - 30, DayOf(ctx.asOf) - 365)
Reversal(ctx, s) == Change(Bars(ctx, s), DayOf(ctx.asOf), DayOf(ctx.asOf) - 30)

Size(ctx, s) ==
    LET bar == LastOnOrBefore(Bars(ctx, s), DayOf(ctx.asOf), "mcap")
    IN IF bar = None \/ bar.mcap <= 0 THEN None ELSE Observation(-bar.mcap, bar.day)

PerPrice(ctx, s, metric, field) ==
    LET statement == LatestFundamental(ctx, s, metric)
        bar == LastOnOrBefore(Bars(ctx, s), DayOf(ctx.asOf), field)
    IN IF None \in {statement, bar} \/ bar[field] <= 0 THEN None
       ELSE Observation(Ratio(statement.value, bar[field]), Max({statement.period, bar.day}))
BookToPrice(ctx, s) == PerPrice(ctx, s, "BOOK_VALUE", "mcap")
EarningsYield(ctx, s) == PerPrice(ctx, s, "EPS_WAD", "close")

EpsRevision(ctx, s) ==
    LET now == Frame(ctx, "estimates", "EPS", {s}, ctx.asOf)
        before == Frame(ctx, "estimates", "EPS", {s}, ctx.asOf - 2 * RevisionLookback)
        x == (CHOOSE r \in now : TRUE)
        y == (CHOOSE r \in before : TRUE).value
    IN IF {} \in {now, before} \/ y = 0 THEN None
       ELSE [value |-> Ratio(x.value - y, Abs(y)), at |-> x.known]

\* A window of bars in which every one of the fields is filled, in order.
Window(ctx, s, days, fields) ==
    InOrder({b \in Bars(ctx, s) : /\ DayOf(ctx.asOf) - days <= b.day /\ b.day <= DayOf(ctx.asOf)
                                       /\ \A f \in fields : b[f] # None},
                 LAMBDA b, c : b.day < c.day)

Volatility(ctx, s) ==
    LET variance(change, n, day) == IF n < 10 THEN None ELSE Observation(Spread(change) \div (n * (n - 1)), day)
        of(bars, steps) == variance([i \in steps |-> Ratio(bars[i].close, bars[i - 1].close) - Unit],
                                    Cardinality(steps), bars[Len(bars)].day)
        along(bars) == of(bars, {i \in 2 .. Len(bars) : bars[i - 1].close > 0})
    IN along(Window(ctx, s, 60, {"close"}))

AdvDollar(ctx, s) ==
    LET bars == Window(ctx, s, 20, {"close", "volume"})
    IN IF Len(bars) < 5 THEN None
       ELSE Observation(SumAlong(LAMBDA b : b.close * b.volume, bars) \div Len(bars), bars[Len(bars)].day)

\* The statement a year before another: the latest of those 330 to 400 days older.
YearBefore(known, last) ==
    LET prior == {r \in known : last.period - r.period \in 330 .. 400}
    IN IF prior = {} THEN None ELSE CHOOSE r \in prior : \A q \in prior : q.period <= r.period

AssetGrowth(ctx, s) ==
    LET last == LatestFundamental(ctx, s, "TOT_ASSET")
        past == YearBefore(Frame(ctx, "fundamentals", "TOT_ASSET", {s}, ctx.asOf), last)
    IN IF last = None THEN None
       ELSE IF past = None \/ past.value <= 0 THEN None
       ELSE Observation(Ratio(last.value, past.value) - Unit, last.period)

Observe(ctx, s) ==
    CASE ctx.spec.id = "momentum_12_1" -> Momentum(ctx, s)
      [] ctx.spec.id = "reversal_1m" -> Reversal(ctx, s)
      [] ctx.spec.id = "size_neg_log_mcap" -> Size(ctx, s)
      [] ctx.spec.id = "book_to_price" -> BookToPrice(ctx, s)
      [] ctx.spec.id = "earnings_yield" -> EarningsYield(ctx, s)
      [] ctx.spec.id = "eps_revision_3m" -> EpsRevision(ctx, s)
      [] ctx.spec.id = "volatility_60d" -> Volatility(ctx, s)
      [] ctx.spec.id = "adv_dollar_20d" -> AdvDollar(ctx, s)
      [] ctx.spec.id = "asset_growth_1y" -> AssetGrowth(ctx, s)

-----------------------------------------------------------------------------
\* One feature's cross-section of what its kernel observed: its finite values under
\* one stamp, the latest of what was read; or why it is refused.
ContextOf(registry, pit, key, asOf) ==
    [pit |-> pit, spec |-> IF key \in DOMAIN registry.specs THEN registry.specs[key] ELSE None, asOf |-> asOf]
Compute(ctx, securities, observed) ==
    LET kept == {s \in securities : observed[s] # None}
        stamps == ReadStamps(ctx, securities)
        refused(reason) == [error |-> reason, rows |-> {}, eligible |-> FALSE]
    IN IF ctx.spec = None THEN refused("unknown_feature")
       ELSE IF securities = {} THEN refused("empty_set")
       ELSE IF kept # {} /\ stamps = {} THEN refused("no_input_read")
       ELSE IF kept # {} /\ Max(stamps) > ctx.asOf THEN refused("ahead_of_as_of")
       ELSE [error |-> "none",
             rows |-> {[security |-> s, value |-> observed[s].value, observed |-> observed[s].at,
                        known |-> Max(stamps)] : s \in kept},
             eligible |-> kept # {} /\ 10 * Cardinality(kept) >= ctx.spec.minCoverage * Cardinality(securities)]

-----------------------------------------------------------------------------
(* Transforms of one date's cross-section; None is never imputed.             *)
Covered(values) == {s \in DOMAIN values : values[s] # None}

\* Ranks in (0, 1], in 1/Unit: ties by id, or sharing the average of their ranks.
RankNormalize(values, direction, tieRule) ==
    LET covered == Covered(values)
        ahead(s) == {r \in covered : IF direction = "highest_first" THEN values[r] > values[s]
                                     ELSE values[r] < values[s]}
        tied(s) == {r \in covered : values[r] = values[s]}
        twice(s) == 2 * Cardinality(ahead(s))
                      + (IF tieRule = "average" THEN 1 + Cardinality(tied(s))
                         ELSE 2 * Cardinality({r \in tied(s) : r <= s}))
    IN [s \in covered |-> (Unit * twice(s)) \div (2 * Cardinality(covered))]

-----------------------------------------------------------------------------
(* The feature stage of a run (pipeline/feature_stage.py): the monthly price  *)
(* features on top of the audited library, and the panel of ranks at every    *)
(* decision of the run.                                                       *)

MonthlyMaxStaleness == 40
MonthlySpecs == << Entry("g029_mom_12_1_monthly", {<<"prices", "close">>}, 0),
                   Entry("g029_rev_1m_monthly", {<<"prices", "close">>}, 0) >>
PriceFeatureList == << <<"g029_mom_12_1_monthly", 1>>, <<"g029_rev_1m_monthly", 1>>, <<"size_neg_log_mcap", 1>> >>

BuildPipelineRegistry ==
    DefineList(Register(BuildDefaultRegistry, MonthlySpecs), "g029_price_features_v1", PriceFeatureList)

\* Bars a month apart may be older than daily ones before they are stale.
LastCloseOnOrBefore(bars, day) ==
    LET filled == {b \in bars : b.day <= day /\ b.close # None}
        last == CHOOSE b \in filled : \A c \in filled : c.day <= b.day
    IN IF filled = {} THEN None ELSE IF day - last.day > MonthlyMaxStaleness THEN None ELSE last

PriceRatio(ctx, s, recentOffset, baseOffset) ==
    LET recent == LastCloseOnOrBefore(Bars(ctx, s), DayOf(ctx.asOf) - recentOffset)
        base == LastCloseOnOrBefore(Bars(ctx, s), DayOf(ctx.asOf) - baseOffset)
    IN IF None \in {recent, base} THEN None
       ELSE IF base.close <= 0 THEN None
       ELSE Observation(Ratio(recent.close, base.close) - Unit, recent.day)

ObserveMonthly(ctx, s) ==
    CASE ctx.spec.id = "g029_mom_12_1_monthly" -> PriceRatio(ctx, s, 30, 365)
      [] ctx.spec.id = "g029_rev_1m_monthly" -> PriceRatio(ctx, s, 0, 30)
      [] OTHER -> Observe(ctx, s)

RankDirections == [ascending_raw_higher_rank |-> "lowest_first", descending_raw_higher_rank |-> "highest_first"]
TieRules == [average_rank_stable_sort |-> "average", stable_sort |-> "security_id"]

\* Every feature at every decision; one that is not eligible at each of them is
\* dropped for the whole run.  Of a decision the panel keeps the ranks and the
\* latest stamp of what they were made of.
Panel(keys, result, dates, direction, tieRule) ==
    LET errors == {result[i][at].error : i \in DOMAIN keys, at \in dates} \ {"none"}
        kept == SelectSeq([i \in DOMAIN keys |-> i], LAMBDA i : \A at \in dates : result[i][at].eligible)
        values(i, at) == [s \in {r.security : r \in result[i][at].rows} |->
                            (CHOOSE r \in result[i][at].rows : r.security = s).value]
    IN IF errors # {} THEN [error |-> CHOOSE e \in errors : TRUE]
       ELSE IF kept = <<>> THEN [error |-> "no_feature"]
       ELSE [error |-> "none",
             factors |-> [n \in DOMAIN kept |-> keys[kept[n]][1]],
             ranks |-> [at \in dates |-> [f \in {keys[kept[n]][1] : n \in DOMAIN kept} |->
                          LET i == CHOOSE j \in Range(kept) : keys[j][1] = f
                          IN RankNormalize(values(i, at), RankDirections[direction], TieRules[tieRule])]],
             knowledge |-> [at \in dates |->
                              Max({r.known : r \in UNION {result[i][at].rows : i \in Range(kept)}})],
             dropped |-> [i \in DOMAIN keys \ Range(kept) |-> {at \in dates : ~result[i][at].eligible}]]

ComputeMonthly(ctx, securities) == Compute(ctx, securities, [s \in securities |-> ObserveMonthly(ctx, s)])

ComputeFeaturePanel(pit, registry, list, dates, universe, direction, tieRule) ==
    LET keys == registry.lists[list]
        results == [i \in DOMAIN keys |-> [at \in dates |->
                      IF universe[at] = {} THEN [error |-> "none", eligible |-> FALSE, rows |-> {}]
                      ELSE ComputeMonthly(ContextOf(registry, pit, keys[i], at), universe[at])]]
    IN IF direction \notin DOMAIN RankDirections \/ tieRule \notin DOMAIN TieRules THEN [error |-> "config"]
       ELSE IF dates = {} THEN [error |-> "no_dates"]
       ELSE Panel(keys, results, dates, direction, tieRule)

\* The ranks of some securities at a decision, factor by factor; None is missing.
CrossSection(panel, at, securities) ==
    [s \in securities |-> [f \in DOMAIN panel.ranks[at] |->
        IF s \in DOMAIN panel.ranks[at][f] THEN panel.ranks[at][f][s] ELSE None]]
=============================================================================

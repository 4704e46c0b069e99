---------------------------- MODULE TargetMarket -----------------------------
(* The market a target is measured on (targets/market.py), the grids it is    *)
(* measured at (grids.py), its forward return (returns.py) and the volatility *)
(* it is scaled by (pipeline.py).                                             *)
(*                                                                            *)
(* A day is a number: day d is weekday d % 7 of week d \div 7, MonthOf gives  *)
(* its month, and its open and close are the instants 2d and 2d + 1.  Prices  *)
(* and factors are positive integers, returns are counted in 1/ReturnUnit,    *)
(* and a division rounds down to a unit.                                      *)
EXTENDS Figures

CONSTANTS ReturnUnit, MonthOf(_)

Instant(day, field) == 2 * day + (IF field = "open" THEN 0 ELSE 1)
Sorted(days) == InOrder(days, LAMBDA d, e : d < e)

-----------------------------------------------------------------------------
(* Grids.                                                                     *)
MonthEndGrid(days) == Sorted({d \in days : \A e \in days : MonthOf(e) = MonthOf(d) => e <= d})

WeeklyGrid(days, anchor) ==
    LET early == {d \in days : d % 7 <= anchor}
    IN Sorted({d \in early : \A e \in early : e \div 7 = d \div 7 => e <= d})

RebalanceGrid(grid, days, anchor) ==
    IF grid = "month_end" THEN MonthEndGrid(days) ELSE WeeklyGrid(days, anchor)

\* n trading days after a trading day; None past the end of the calendar.
ShiftTradingDays(days, day, n) ==
    LET later == {d \in days : d >= day /\ Cardinality({e \in days : day < e /\ e <= d}) = n}
    IN IF later = {} THEN None ELSE CHOOSE d \in later : TRUE

GridIndexAtOrBefore(grid, day) == Cardinality({i \in DOMAIN grid : grid[i] <= day})

-----------------------------------------------------------------------------
(* The view: what is on file of each kind, keyed.  A row has the instant it   *)
(* was known; through the point-in-time gate only what was known is loaded.   *)
Filed(rows, field) ==
    LET given == {r \in rows : r[field] # None}
    IN [k \in {<<r.security, r.day>> : r \in given} |->
           (CHOOSE r \in given : <<r.security, r.day>> = k)[field]]

FromRecords(days, t) ==
    [days |-> days,
     price |-> [open |-> Filed(t.prices, "open"), close |-> Filed(t.prices, "close")],
     currency |-> Filed(t.prices, "currency"),
     cap |-> Filed(t.prices, "cap"),
     factors |-> t.factors,
     fx |-> [k \in {<<r.base, r.quote, r.day>> : r \in t.fx} |->
               (CHOOSE r \in t.fx : <<r.base, r.quote, r.day>> = k).rate],
     terminal |-> {a \in t.actions : a.type \in {"delisting", "merger"} /\ a.terminal # None}]

FromPit(days, tables, asOf) ==
    FromRecords(days, [t \in DOMAIN tables |-> {r \in tables[t] : r.known <= asOf}])

LookUp(f, k) == IF k \in DOMAIN f THEN f[k] ELSE None

\* The factor in force is the last on or before the day, 1 before the first.
Adjustment(view, s, day, total) ==
    LET past == {f \in view.factors : f.security = s /\ f.day <= day}
        last == CHOOSE f \in past : \A g \in past : g.day <= f.day
    IN IF past = {} THEN 1 ELSE IF total THEN last.total ELSE last.split

FxRate(view, base, quote, day) == IF base = quote THEN 1 ELSE LookUp(view.fx, <<base, quote, day>>)

\* Mutant of TerminalBetween: an event on the start day counts again.
TerminalFrom(view, s, after, through) ==
    LET events == {a \in view.terminal : a.security = s /\ after <= a.day /\ a.day <= through}
    IN IF events = {} THEN None ELSE CHOOSE a \in events : \A b \in events : a.day <= b.day

TerminalBetween(view, s, after, through) ==
    LET events == {a \in view.terminal : a.security = s /\ after < a.day /\ a.day <= through}
    IN IF events = {} THEN None ELSE CHOOSE a \in events : \A b \in events : a.day <= b.day

LastCloseDay(view, s, start, through) ==
    LET closes == {d \in start .. through : <<s, d>> \in DOMAIN view.price.close}
    IN IF closes = {} THEN None ELSE Max(closes)

-----------------------------------------------------------------------------
(* The fields a target's window starts and ends at (targets/spec.py).         *)
Bases == [close_to_close |-> <<"close", "close">>, close_to_open |-> <<"close", "open">>,
          open_to_open |-> <<"open", "open">>, open_to_close |-> <<"open", "close">>]
StartField(spec) == Bases[spec.basis][1]
EndField(spec) == Bases[spec.basis][2]

-----------------------------------------------------------------------------
(* Measured prices and forward returns: a figure, or why there is none.       *)
Figure(x) == [why |-> "none", value |-> x, delisted |-> FALSE]
Failure(reason) == [why |-> reason, value |-> 0, delisted |-> FALSE]

MeasuredPrice(view, s, day, field, spec, missing) ==
    LET raw == LookUp(view.price[field], <<s, day>>)
        adjusted == raw * Adjustment(view, s, day, spec.total)
        currency == LookUp(view.currency, <<s, day>>)
        rate == FxRate(view, currency, spec.currency, day)
    IN IF raw = None THEN Failure(missing)
       ELSE IF spec.currency = None THEN Figure(adjusted)
       ELSE IF currency = None THEN Failure(missing)
       ELSE IF rate = None THEN Failure("fx_missing")
       ELSE Figure(adjusted * rate)

\* A delisting inside the window ends it at the last close, and its terminal
\* return is earned on top.
ForwardReturn(view, s, start, end, spec) ==
    LET first == MeasuredPrice(view, s, start, StartField(spec), spec, "missing_start_price")
        event == TerminalBetween(view, s, start, end)
        lastDay == LastCloseDay(view, s, start, event.day)
        last == MeasuredPrice(view, s, lastDay, "close", spec, "missing_end_price")
        final == MeasuredPrice(view, s, end, EndField(spec), spec, "missing_end_price")
        grown(price, extra) == ((price * (ReturnUnit + extra)) \div first.value) - ReturnUnit
    IN IF first.why # "none" THEN first
       ELSE IF event # None
         THEN IF lastDay = None THEN Failure("missing_end_price")
              ELSE IF last.why # "none" THEN last
              ELSE [Figure(grown(last.value, event.terminal)) EXCEPT !.delisted = TRUE]
       ELSE IF final.why # "none" THEN final
       ELSE Figure(grown(final.value, 0))

\* The spread of the weekly returns up to the decision: weeks without both
\* prices are not counted, and too few weeks or none that differ make the
\* security ineligible.
WeeklyVolatility(view, s, weekly, at, spec) ==
    LET price(j) == MeasuredPrice(view, s, weekly[j], "close", spec, "missing_end_price")
        weeks == {j \in Max({2, at - spec.window + 1}) .. at :
                    price(j - 1).why = "none" /\ price(j).why = "none"}
        deviation(change, n) ==
            IF n < Max({spec.minWeeks, 2}) THEN [why |-> "vol_min_history_insufficient"]
            ELSE IF Spread(change) = 0 THEN [why |-> "vol_degenerate"]
            ELSE [why |-> "none", sigma |-> Root(Spread(change) \div (n * (n - 1))), weeks |-> n,
                  from |-> weekly[Min(DOMAIN change) - 1], to |-> weekly[at]]
    IN deviation([j \in weeks |-> ((ReturnUnit * price(j).value) \div price(j - 1).value) - ReturnUnit],
                 Cardinality(weeks))

-----------------------------------------------------------------------------
(* Labels from a cross-section of forward returns (targets/labels.py,         *)
(* pipeline.py, and the label stage of engine.py), and the accounting of      *)
(* overlapping windows (overlap.py).  Fractions are counted in tenths.        *)

\* The place of a security in the stable order, from 0: by value, then by id.
Place(values, s) ==
    Cardinality({r \in DOMAIN values : values[r] < values[s] \/ (values[r] = values[s] /\ r < s)})

QuantileLabels(values, top, bottom) ==
    LET n == Cardinality(DOMAIN values)
        low == (bottom * n) \div 10
        high == Min({(top * n) \div 10, n - low})
    IN [s \in DOMAIN values |->
          IF Place(values, s) < low THEN -1
          ELSE IF Place(values, s) >= n - high THEN 1 ELSE 0]

PctRank(values) ==
    LET n == Cardinality(DOMAIN values)
    IN [s \in DOMAIN values |-> IF n = 1 THEN ReturnUnit \div 2 ELSE (ReturnUnit * Place(values, s)) \div (n - 1)]

\* Both bounds are strict.
ThresholdLabels(ranks, upper, lower) ==
    [s \in DOMAIN ranks |-> IF 10 * ranks[s] > upper * ReturnUnit THEN 1
                            ELSE IF 10 * ranks[s] < lower * ReturnUnit THEN -1 ELSE 0]

-----------------------------------------------------------------------------
\* What a security returned beyond its group, each member weighing the same or
\* by its market value.
GroupDemean(values, groups, caps) ==
    LET members(g) == {s \in DOMAIN values : groups[s] = g}
        mean(g) == IF caps = None THEN SumOver(values, members(g)) \div Cardinality(members(g))
                   ELSE SumOver([s \in members(g) |-> caps[s] * values[s]], members(g))
                          \div SumOver(caps, members(g))
    IN [s \in DOMAIN values |-> values[s] - mean(groups[s])]

ResidualValues(raw, groups, sigmas, order) ==
    LET scaled(values) == [s \in DOMAIN values |-> (ReturnUnit * values[s]) \div sigmas[s]]
    IN IF order = "neutralize_first" THEN scaled(GroupDemean(raw, groups, None))
       ELSE GroupDemean(scaled(raw), groups, None)

\* Labels and transformed returns of the eligible securities; {} transforms none.
LabelStage(spec, pool, groups, sigmas, caps) ==
    LET cell(s) == [r \in {q \in DOMAIN pool : groups[q] = groups[s]} |-> pool[r]]
        demeaned == GroupDemean(pool, groups, IF spec.weighting = "cap_weighted" THEN caps ELSE None)
        ranks == PctRank(IF spec.vol = "rolling_std" THEN ResidualValues(pool, groups, sigmas, spec.order)
                         ELSE GroupDemean(pool, groups, None))
        stage(labels, transformed) == [labels |-> labels, transformed |-> transformed]
    IN CASE spec.group = "universe" -> stage(QuantileLabels(pool, spec.top, spec.bottom), <<>>)
         [] spec.group = "neutralization_cell" ->
              stage([s \in DOMAIN pool |-> QuantileLabels(cell(s), spec.top, spec.bottom)[s]],
                    IF spec.cellRank THEN [s \in DOMAIN pool |-> PctRank(cell(s))[s]] ELSE <<>>)
         [] spec.group = "country_demeaned" ->
              stage(QuantileLabels(demeaned, spec.top, spec.bottom), demeaned)
         [] spec.group = "sector_region_residual" ->
              stage(ThresholdLabels(ranks, 10 - spec.top, spec.bottom), ranks)

-----------------------------------------------------------------------------
(* Overlap: windows of h grid steps at grid indices.                          *)

\* Mutant of PurgedRetention: one candidate in h - 1 is kept.
PurgedOneShort(candidates, h) ==
    {i \in candidates : h > 1 => (i - Min(candidates)) % (h - 1) = 0}

\* Every h-th candidate, from the first.
PurgedRetention(candidates, h) == {i \in candidates : h > 1 => (i - Min(candidates)) % h = 0}

OverlapMetadata(i, h, emitted, mode, embargo) ==
    [multiplicity |-> h,
     setSize |-> Cardinality({j \in emitted \ {i} : Abs(j - i) < h}),
     purge |-> h,
     embargo |-> IF h > 1 THEN embargo * h ELSE 0,
     status |-> IF h > 1 /\ mode = "pooled_as_paper" THEN "overlap_permitted" ELSE "clean"]
=============================================================================

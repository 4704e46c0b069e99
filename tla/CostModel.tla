------------------------------ MODULE CostModel ------------------------------
(* The cost model of src/lasr/costs: a stack of optional components prices    *)
(* the trades of a day, a borrow fee accrues on the marks of the short book,  *)
(* and both are added up by bucket, by trade and by date.  A rate is in basis *)
(* points, so an amount is in ten-thousandths of a unit of value; a fee is    *)
(* per year of `denominator' days.                                            *)
EXTENDS Figures, TLC

TradeBuckets == {"commission", "spread", "linear", "impact", "penalty"}

\* A regional rate stands in for the base rate, where there is one.
RateFor(base, overrides, region) ==
    IF region \in DOMAIN overrides THEN overrides[region] ELSE base

Notional(trade) == Abs(trade.signed)

\* A stack that can charge no borrow must say so, and only such a stack may.
Charging(borrow) ==
    /\ borrow # None
    /\ borrow.fee > 0 \/ \E r \in DOMAIN borrow.overrides : borrow.overrides[r] > 0
WellTagged(stack) == stack.tagged <=> ~Charging(stack.borrow)

-----------------------------------------------------------------------------
\* The five components: what each charges for a trade of a same-day group.
Commission(stack, trade) ==
    IF stack.commission = None \/ Notional(trade) = 0 THEN 0 ELSE stack.commission

HalfSpread(stack, trade) ==
    IF stack.spread = None \/ Notional(trade) = 0 THEN 0
    ELSE (stack.spread * trade.spread * Notional(trade)) \div 100

Linear(stack, trade) ==
    IF stack.linear = None THEN 0
    ELSE RateFor(stack.linear.rate, stack.linear.overrides, trade.region) * Notional(trade)

\* A power of the group's share of the day's volume, shared out by notional.
Impact(stack, trade, group) ==
    IF stack.impact = None \/ Notional(trade) = 0 \/ stack.impact.rate = 0 THEN 0
    ELSE (stack.impact.rate * Power(group, stack.impact.exponent) * Notional(trade))
         \div Power(trade.adv, stack.impact.exponent)

\* What the group trades beyond its cap (in percent of the day's volume).
Excess(stack, trade, group) == 100 * group - stack.participation.cap * trade.adv
Breaches(stack, trade, group) ==
    /\ stack.participation # None
    /\ Notional(trade) > 0
    /\ Excess(stack, trade, group) > 0
Penalty(stack, trade, group) ==
    IF ~Breaches(stack, trade, group) \/ stack.participation.penalty = None THEN 0
    ELSE (stack.participation.penalty * Excess(stack, trade, group) * Notional(trade))
         \div (100 * group)

\* The inputs a component refuses to do without.
TradeErrors(stack, trade) ==
    LET priced == Notional(trade) > 0
        missing(component, input) == priced /\ component # None /\ input = None
    IN IF \/ missing(stack.spread, trade.spread)
          \/ missing(stack.impact, trade.adv)
          \/ missing(stack.participation, trade.adv) THEN {"missing input"}
       ELSE IF priced /\ stack.impact # None /\ trade.adv = 0 THEN {"invalid input"}
       ELSE {}

\* The charges by bucket, each scaled by the trade's region and then, where it
\* is one of the named buckets, by the size of the fund.
PriceTrade(stack, trade, aum, group) ==
    LET charge == [commission |-> Commission(stack, trade),
                   spread     |-> HalfSpread(stack, trade),
                   linear     |-> Linear(stack, trade),
                   impact     |-> Impact(stack, trade, group),
                   penalty    |-> Penalty(stack, trade, group)]
        regional == RateFor(1, stack.multipliers, trade.region)
        scaled(b) == stack.scaling # None /\ b \in stack.scaling.buckets
        size == aum \div stack.scaling.reference
    IN [trade |-> trade,
        by |-> [b \in TradeBuckets |->
                  charge[b] * regional * (IF scaled(b) THEN Power(size, stack.scaling.exponent) ELSE 1)],
        flagged |-> Breaches(stack, trade, group)]

\* Trades of one security on one day are one group: the sum of their sizes.
Group(trades, i) ==
    {j \in DOMAIN trades : /\ trades[j].sec = trades[i].sec
                           /\ trades[j].date = trades[i].date}
\* A mutant: every row is a group of its own.
RowNotional(trades, i) == Notional(trades[i])

GroupNotional(trades, i) ==
    SumOver([j \in DOMAIN trades |-> Notional(trades[j])], Group(trades, i))

NeedsGroups(stack) == stack.impact # None \/ stack.participation # None
RunErrors(stack, trades, shorts, aum) ==
    (IF \E m \in Range(shorts) : m.hard /\ m.notional > 0 /\ stack.policy = "forbid"
     THEN {"hard to borrow"} ELSE {})
    \cup (IF /\ NeedsGroups(stack)
             /\ \E i \in DOMAIN trades : \E j \in Group(trades, i) : trades[i].adv # trades[j].adv
          THEN {"inconsistent adv"} ELSE {})
    \cup (IF stack.scaling # None /\ aum = None /\ trades # <<>> THEN {"missing input"} ELSE {})
    \cup UNION {TradeErrors(stack, trades[i]) : i \in DOMAIN trades}

PriceTrades(stack, trades, aum) ==
    [i \in DOMAIN trades |->
        PriceTrade(stack, trades[i], aum,
                   IF NeedsGroups(stack) THEN GroupNotional(trades, i) ELSE Notional(trades[i]))]

-----------------------------------------------------------------------------
\* The fee of a mark: its own, else its region's, else the base fee.
Fee(borrow, mark) ==
    IF borrow = None THEN 0
    ELSE IF mark.fee # None THEN mark.fee
    ELSE RateFor(borrow.fee, borrow.overrides, mark.region)

Accrue(stack, mark) ==
    [mark |-> mark,
     fee |-> Fee(stack.borrow, mark),
     amount |-> IF stack.borrow = None THEN 0
                ELSE (Fee(stack.borrow, mark) * mark.notional * mark.days) \div stack.borrow.denominator,
     free |-> Fee(stack.borrow, mark) = 0 /\ mark.notional > 0]

\* The banner of free borrowing: always when all of the short book is free, and
\* when the free share of its notional-days is above the stack's threshold (%).
Banner(stack, accruals) ==
    LET weight(a) == a.mark.notional * a.mark.days
        all == SumAlong(weight, accruals)
        free == SumAlong(LAMBDA a : IF a.fee = 0 THEN weight(a) ELSE 0, accruals)
    IN /\ free > 0
       /\ free = all \/ 100 * free > stack.threshold * all

\* Marks of one security that cover more or fewer days than passed between them.
Neighbours(shorts, i, j) ==
    /\ shorts[i].sec = shorts[j].sec /\ shorts[i].date < shorts[j].date
    /\ ~\E k \in DOMAIN shorts : /\ shorts[k].sec = shorts[i].sec
                                 /\ shorts[i].date < shorts[k].date
                                 /\ shorts[k].date < shorts[j].date
CoverageGaps(shorts) ==
    {gap \in (DOMAIN shorts) \X (DOMAIN shorts) :
        /\ Neighbours(shorts, gap[1], gap[2])
        /\ shorts[gap[2]].days # shorts[gap[2]].date - shorts[gap[1]].date}

\* What the trades at the places I and the marks at the places J come to, by bucket.
TotalsOf(costs, accruals, I, J) ==
    [b \in TradeBuckets \cup {"borrow"} |->
        IF b = "borrow" THEN SumOver([j \in DOMAIN accruals |-> accruals[j].amount], J)
        ELSE SumOver([i \in DOMAIN costs |-> costs[i].by[b]], I)]
Totals(costs, accruals) == TotalsOf(costs, accruals, DOMAIN costs, DOMAIN accruals)
TradingTotal(row) == SumOver(row, TradeBuckets)

TradesOn(costs, d) == {i \in DOMAIN costs : costs[i].trade.date = d}
MarksOn(accruals, d) == {j \in DOMAIN accruals : accruals[j].mark.date = d}
TradeDates(costs) == {costs[i].trade.date : i \in DOMAIN costs}
MarkDates(accruals) == {accruals[j].mark.date : j \in DOMAIN accruals}

\* A mutant: a date without trades has no row.
TradedPeriods(costs, accruals) ==
    [d \in TradeDates(costs) |-> TotalsOf(costs, accruals, TradesOn(costs, d), MarksOn(accruals, d))]

\* One row for every date that has a trade or a mark.
AggregatePeriods(costs, accruals) ==
    [d \in TradeDates(costs) \cup MarkDates(accruals) |->
        TotalsOf(costs, accruals, TradesOn(costs, d), MarksOn(accruals, d))]

Run(stack, trades, shorts, aum) ==
    LET costs == PriceTrades(stack, trades, aum)
        accruals == [i \in DOMAIN shorts |-> Accrue(stack, shorts[i])]
    IN [costs |-> costs, accruals |-> accruals, totals |-> Totals(costs, accruals),
        periods |-> AggregatePeriods(costs, accruals), banner |-> Banner(stack, accruals)]

\* What is left of the gross profit; a cost on a date without one is refused.
NetRefused(run, gross) == ~(DOMAIN run.periods \subseteq DOMAIN gross)
NetOf(run, gross) ==
    [d \in DOMAIN gross |->
        IF d \notin DOMAIN run.periods THEN gross[d]
        ELSE gross[d] - TradingTotal(run.periods[d]) - run.periods[d]["borrow"]]

-----------------------------------------------------------------------------
\* Mutant of Swept: the tag of the base stack stays.
SweptTagKept(stack, oneWay, fee) ==
    LET linear == IF oneWay = None THEN stack.linear ELSE [stack.linear EXCEPT !.rate = oneWay]
        borrow == IF fee = None THEN stack.borrow ELSE [stack.borrow EXCEPT !.fee = fee]
    IN [stack EXCEPT !.linear = linear, !.borrow = borrow, !.threshold = 0]

\* The stacks of a scenario: its base rates replaced by those of the grids, None
\* standing for a grid that is absent.  The rebuilt stack takes the default
\* banner threshold, whatever the base stack's was.
Swept(stack, oneWay, fee) ==
    LET linear == IF oneWay = None THEN stack.linear ELSE [stack.linear EXCEPT !.rate = oneWay]
        borrow == IF fee = None THEN stack.borrow ELSE [stack.borrow EXCEPT !.fee = fee]
        tagged == IF fee = None THEN stack.tagged ELSE ~Charging(borrow)
    IN [stack EXCEPT !.linear = linear, !.borrow = borrow, !.tagged = tagged, !.threshold = 0]
GridRefused(stack, rates, fees) ==
    \/ rates # {None} /\ stack.linear = None
    \/ fees # {None} /\ stack.borrow = None
GridVariants(stack, rates, fees) == {Swept(stack, r, f) : r \in rates, f \in fees}

\* The stack of a version's cost section: linear rates and a borrow fee only.
VersionRefused(section) ==
    \/ section.model # "linear_one_way_bps"
    \/ section.base = None /\ section.oneWay = None
    \/ section.fee = None /\ section.feeOverrides # <<>>
VersionStack(section) ==
    LET free == \/ section.fee = None
                \/ /\ section.fee = 0
                   /\ \A r \in DOMAIN section.feeOverrides : section.feeOverrides[r] = 0
    IN [commission |-> None, spread |-> None, impact |-> None, participation |-> None,
        linear |-> [rate |-> IF section.base # None THEN section.base ELSE section.oneWay,
                    overrides |-> [r \in DOMAIN section.tiers \cup DOMAIN section.overrides |->
                                     IF r \in DOMAIN section.tiers THEN section.tiers[r] ELSE section.overrides[r]]],
        borrow |-> IF free THEN None
                   ELSE [fee |-> section.fee, denominator |-> 365, overrides |-> section.feeOverrides],
        tagged |-> free, multipliers |-> <<>>, scaling |-> None, policy |-> "flag", threshold |-> 0]

\* The one-way rate (in units of a fraction: gross / twice the turnover) at
\* which a run of gross returns nets to nothing.
BreakevenRefused(gross, turnover) ==
    \/ gross = <<>> \/ Len(gross) # Len(turnover)
    \/ \E i \in DOMAIN turnover : turnover[i] < 0
    \/ Total(turnover) = 0
Breakeven(gross, turnover) ==
    [num |-> Total(gross),
     den |-> 2 * Total(turnover)]

-----------------------------------------------------------------------------
(* src/lasr/pipeline/cost_adapter.py: the hook through which the accounting   *)
(* engine asks the cost model for the charges of one rebalance, and the       *)
(* ledger of the full results it keeps for the report.                        *)

ShortBook == "short book"   \* the aggregate mark has no security of its own

\* The day count fraction is a pair <<days, base>>; the adapter turns it back
\* into whole days of its own denominator, or refuses.
WholeDays(dcf, denominator) == (dcf[1] * denominator) % dcf[2] = 0
AccrualDays(dcf, denominator) == (dcf[1] * denominator) \div dcf[2]

Trades(list, date, attributes) ==
    LET ids == InOrder(DOMAIN list, <) IN
    [i \in DOMAIN ids |->
        [sec |-> ids[i], date |-> date, signed |-> list[ids[i]],
         region |-> attributes[ids[i]].region, adv |-> attributes[ids[i]].adv,
         spread |-> attributes[ids[i]].spread]]

Marks(short, dcf, denominator, date) ==
    IF short = 0 \/ dcf[1] = 0 THEN <<>>
    ELSE <<[sec |-> ShortBook, date |-> date, notional |-> short, fee |-> None,
            days |-> AccrualDays(dcf, denominator), region |-> None, hard |-> FALSE]>>

\* The errors of one call, in the order the adapter meets them.
ChargeErrors(stack, call, denominator, attributes) ==
    LET trades == Trades(call.trades, call.date, attributes)
        twoWay == SumAlong(Notional, trades)
    IN IF \E s \in DOMAIN call.trades : call.trades[s] = 0 THEN {"zero trade"}
       ELSE IF twoWay # call.twoWay THEN {"trade list disagrees"}
       ELSE IF call.short # 0 /\ call.dcf[1] # 0 /\ ~WholeDays(call.dcf, denominator)
            THEN {"fractional days"}
       ELSE RunErrors(stack, trades, Marks(call.short, call.dcf, denominator, call.date), call.nav)

\* One run of the model per period; the result is kept in call order.
PeriodCharges(stack, call, denominator, attributes) ==
    Run(stack, Trades(call.trades, call.date, attributes),
        Marks(call.short, call.dcf, denominator, call.date), call.nav)
ChargesOf(run) == [cost |-> TradingTotal(run.totals), borrow |-> run.totals["borrow"]]

ZeroBorrowBanners(records) == {i \in DOMAIN records : records[i].result.banner}
=============================================================================

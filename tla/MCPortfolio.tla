----------------------------- MODULE MCPortfolio -----------------------------
(* A run of months: a book is built from scores, the trades towards it are    *)
(* charged through the adapter, and the next month starts from it.  Beside    *)
(* it, level-3 problems that are prepared one at a time, or the position      *)
(* ledger with any targets, returns, terminations and charges.                *)
EXTENDS Accounting, CostModel, Construction, Level3

CONSTANTS Names, Months,   \* the securities and the number of rebalances
          Half,            \* half of the gross, in units
          Gross3,          \* the gross of the level-3 problems
          a1, a2           \* what the position ledger can hold
ASSUME PortfolioAssumption ==
    /\ None \notin Int /\ None \notin [fee : Nat, denominator : Nat, overrides : {<<>>, [eu |-> 40]}]
    /\ None \notin [rate : Nat, overrides : {<<>>}]
    /\ Half \in Nat /\ Gross3 \in Nat
    /\ IsFiniteSet(Names) /\ Names \subseteq Nat /\ {1, 2, 3} \subseteq Names

VARIABLES part,     \* "books" or "ledger": which of the two moves
          asked,    \* what the last book was built from
          book,     \* the last answer of a construction
          held,     \* the positions
          stack,    \* the cost stack of the run
          records,  \* the adapter's ledger
          problem   \* the level-3 problem prepared, or None
books == <<asked, book, held, stack, records, problem>>

-----------------------------------------------------------------------------
\* The stacks of a run: every component, with and without a fee, or what the cost
\* section of a version gives: none, or a regional one.
Fees == {None, [fee |-> 0, denominator |-> 360, overrides |-> <<>>],
         [fee |-> 50, denominator |-> 365, overrides |-> <<>>]}
StackWith(fee) ==
    [commission |-> 3, spread |-> 50, linear |-> [rate |-> 10, overrides |-> [eu |-> 20]],
     impact |-> [rate |-> 36, exponent |-> 1],
     participation |-> [cap |-> 50, penalty |-> 7],
     borrow |-> fee, tagged |-> ~Charging(fee), multipliers |-> [eu |-> 2],
     scaling |-> None, policy |-> "flag", threshold |-> 40]
Sections ==
    {[model |-> "linear_one_way_bps", base |-> None, oneWay |-> 5, tiers |-> [eu |-> 8, us |-> 4],
      overrides |-> [eu |-> 6], fee |-> fee, feeOverrides |-> regional] :
        fee \in {None, 0}, regional \in {<<>>, [eu |-> 40]}}
Stacks == {StackWith(fee) : fee \in Fees} \cup {VersionStack(c) : c \in {d \in Sections : ~VersionRefused(d)}}
Attributes == [s \in Names |-> [region |-> IF s = 1 THEN "eu" ELSE None, adv |-> 6, spread |-> 4]]

\* Scores of two values for the fractile books; for the weighted ones a low half
\* and a high half far enough apart that the cap has to be applied again and again.
TwoScores == [Names -> {0, 9}]
HalfNames == Cardinality(Names) \div 2
TwoHalves == {[s \in Names |-> IF s <= HalfNames THEN low[((s - 1) % 3) + 1]
                                  ELSE high[((s - 1) % HalfNames) + 1]] :
              low \in {<<-1, -3, -4>>, <<-4, -4, -4>>, <<2, -3, -9>>},
              high \in [1 .. HalfNames -> {1, 3, 4}]}
Betas == {[s \in Names |-> (s * s) % 3]}

\* The fractile counts of a version: one for each region.
Portfolios ==
    [mapping : {"fractile_ls", "signal_weighted"}, weighting : {"equal", "cap"}, scaling : {"absent", "dollar_neutral"},
     fractiles : {[us |-> 2, eu |-> 3]}]
Counts(mapping) ==
    {c.k : c \in {d \in {FromConfig(p, mapping, key) : p \in Portfolios, key \in {"us", "eu", "asia"}} :
                    d.error = "none"}}

\* The first month asks for every book; the later ones for fractile books, which
\* trade, hold and reverse.
Asked(month) ==
    LET fractile == [level : {1}, k : Counts("fractile_ls"), cap : {NoCap}, mode : {"none"}, beta : {<<>>}, scores : TwoScores]
        weighted == [level : {2}, k : {2}, cap : {NoCap, 9}, mode : {"none"}, beta : {<<>>}, scores : TwoHalves]
        residual == [level : {2}, k : {2}, cap : {9, 13}, mode : {"joint", "per_leg"}, beta : Betas, scores : TwoHalves]
    IN IF month = 0 THEN fractile \cup weighted \cup residual
       ELSE {a \in fractile : a.k = 2 /\ \A r, s \in Names : r % 2 = s % 2 => a.scores[r] = a.scores[s]}

\* The level-3 problems: one universe of two of the names held before, and one
\* or two limits at a time.
Universe == {1, 2}
Bare == [gross |-> Gross3, equality |-> TRUE, net |-> 0, cap |-> None, beta |-> None, sector |-> None,
         country |-> None, turnover |-> None, adv |-> None, vol |-> None]
Limits == {Bare, [Bare EXCEPT !.cap = 1], [Bare EXCEPT !.turnover = 2], [Bare EXCEPT !.adv = 1],
           [Bare EXCEPT !.beta = 1], [Bare EXCEPT !.sector = 1], [Bare EXCEPT !.country = 0],
           [Bare EXCEPT !.vol = 400], [Bare EXCEPT !.adv = 2, !.turnover = 1]}
ConfigWith(c, equality, net) ==
    [cons |-> [c EXCEPT !.equality = equality, !.net = net], costs |-> None, aversion |-> None,
     risk |-> IF c.vol = None THEN None ELSE [periods |-> 1, delta |-> 50]]
Configs == {ConfigWith(c, e, n) : c \in Limits, e \in BOOLEAN, n \in {-1, 0, 2}}
Model == [substitute |-> TRUE, periods |-> 1, delta |-> 50,
          returns |-> [s \in Universe |-> IF s = 1 THEN <<0, 1, 2>> ELSE <<1, 0, 1>>]]
Attr(hard) == [s \in Names |-> [sector |-> s, country |-> 1, beta |-> s, adv |-> 2, hard |-> s \in hard]]
Reach == 2
Asking(config, prev, hard) ==
    Prepare([s \in Universe |-> s], config, prev, Attr(hard), 2, IF config.risk = None THEN None ELSE Model)

-----------------------------------------------------------------------------
BooksInit ==
    /\ asked = None /\ book = None /\ held = <<>> /\ records = <<>> /\ problem = None
    /\ stack \in Stacks

Answer(a) ==
    IF a.level = 1 THEN BuildSimple(a.scores, a.k, Half)
    ELSE BuildSignalWeighted(a.scores, a.k, Half, a.cap, a.mode, a.beta)

Construct ==
    /\ problem = None /\ book = None /\ Len(records) < Months
    /\ \E a \in Asked(Len(records)) : asked' = a /\ book' = Answer(a)
    /\ UNCHANGED <<held, stack, records, problem>>

\* The accounting engine trades from what is held to the book, 73 days after the
\* last rebalance, and asks for the charges.
Delta(s) == Weight(book.weights, s) - Weight(held, s)
Moves == [s \in {x \in DOMAIN book.weights \cup DOMAIN held : Delta(x) # 0} |-> Delta(s)]
Call == [date |-> 73 * Len(records), trades |-> Moves, nav |-> 1,
         twoWay |-> Total([s \in DOMAIN Moves |-> Abs(Moves[s])]),
         short |-> -SumOver(book.weights, {s \in DOMAIN book.weights : book.weights[s] < 0}),
         dcf |-> <<73, 365>>]
Denominator == IF stack.borrow = None THEN 365 ELSE stack.borrow.denominator

ChargeBook ==
    /\ book # None /\ book.error = "none"
    /\ ChargeErrors(stack, Call, Denominator, Attributes) = {}
    /\ records' = Append(records, [call |-> Call,
                                   result |-> PeriodCharges(stack, Call, Denominator, Attributes)])
    /\ held' = book.weights
    /\ book' = None /\ asked' = None
    /\ UNCHANGED <<stack, problem>>

AskOptimizer ==
    /\ problem = None /\ book = None /\ records = <<>>
    /\ \E prev \in [{1, 2, 3} -> -1 .. 1], config \in Configs, hard \in {{}, {1}, {1, 2}} :
         /\ ~ConfigError(config)
         /\ ~RiskInputError(Model.returns, Model.delta)
         /\ problem' = Asking(config, prev, hard)
         /\ PrepareErrors(problem', Reach) = "none"
    /\ UNCHANGED <<asked, book, held, stack, records>>

BooksNext == Construct \/ ChargeBook \/ AskOptimizer

-----------------------------------------------------------------------------
\* The position ledger.
MCSecurities == {a1, a2}
MCSigns == {-1, 1}
MCAnyOf == {-1, 0, 1}
Symmetry == Permutations(MCSecurities)

PartInit == /\ Init /\ BooksInit /\ part \in {"books", "ledger"}
            /\ part = "ledger" => stack = StackWith(None)
PartNext == \/ part = "books" /\ BooksNext /\ UNCHANGED <<part, vars>>
            \/ part = "ledger" /\ Next /\ UNCHANGED <<part, books>>
PartSpec == PartInit /\ [][PartNext]_<<part, vars, books>>

-----------------------------------------------------------------------------
\* Each leg of a book holds half of the gross, but for the rounding of a unit a
\* name, and no position is above the cap, however often the waterfall had to
\* start again; of two positions on one side the one with the larger weighting
\* score is not the smaller.
Longs == {s \in DOMAIN book.weights : book.weights[s] > 0}
Shorts == DOMAIN book.weights \ Longs
Strength(s) ==
    IF asked.level = 1 THEN 0
    ELSE Abs(Residualize(asked.scores, asked.mode, Top(asked.scores, asked.k), Bottom(asked.scores, asked.k),
                         asked.beta)[s])
BookBalanced ==
    asked # None /\ book.error = "none" =>
        /\ \A leg \in {Longs, Shorts} :
             /\ Abs(SumOver(book.weights, leg)) \in Half - Cardinality(Names) .. Half
             /\ \A r, s \in leg : Strength(r) > Strength(s)
                                  => Abs(book.weights[r]) >= Abs(book.weights[s])
        /\ asked.cap # NoCap => \A s \in Longs \cup Shorts : Abs(book.weights[s]) <= asked.cap
        /\ asked.level = 1 => /\ Cardinality(Longs) - Cardinality(Shorts) \in -1 .. 1
                              /\ \A r \in Longs, s \in Shorts : asked.scores[r] >= asked.scores[s]

\* What a day's trading costs does not depend on how its orders are sliced: two
\* rows of half the size cost what the one row did, the commission on each row
\* and a unit of rounding a row aside.
Half1(t) == [t EXCEPT !.signed = t.signed \div 2]
Half2(t) == [t EXCEPT !.signed = t.signed - t.signed \div 2]
SlicingIsFree ==
    \A i \in {n \in DOMAIN records : n = Len(records)} :
        LET list == Trades(records[i].call.trades, records[i].call.date, Attributes)
            sliced == [j \in DOMAIN list |-> Half1(list[j])] \o [j \in DOMAIN list |-> Half2(list[j])]
            cost(some, b) == SumAlong(LAMBDA c : c.by[b], PriceTrades(stack, some, 1))
        IN \A b \in TradeBuckets \ {"commission"} :
             Abs(cost(list, b) - cost(sliced, b)) <= 2 * Len(sliced)

\* The months' rows, one month's after the other's.
Starts(parts) == [i \in DOMAIN parts |-> SumOver([j \in DOMAIN parts |-> Len(parts[j])], 1 .. i - 1)]
PartOf(parts, k) == CHOOSE i \in DOMAIN parts : Starts(parts)[i] < k /\ k <= Starts(parts)[i] + Len(parts[i])
Concatenated(parts) ==
    [k \in 1 .. Total([j \in DOMAIN parts |-> Len(parts[j])]) |->
        parts[PartOf(parts, k)][k - Starts(parts)[PartOf(parts, k)]]]

\* Gross profits that a rate of 3 would eat up, and what is left of them.
Linear3 == [VersionStack(CHOOSE c \in Sections : c.fee = None) EXCEPT !.linear = [rate |-> 3, overrides |-> <<>>]]
BreaksEven(calls, list) ==
    LET earned == [i \in DOMAIN calls |-> 3 * calls[i].twoWay + (IF i = 1 THEN 7 ELSE 0)
                                          - (IF i = Len(calls) THEN 7 ELSE 0)]
        oneWay == [i \in DOMAIN calls |-> calls[i].twoWay \div 2]
        even == Breakeven(earned, oneWay)
        gross == [d \in {calls[i].date : i \in DOMAIN calls} |-> earned[CHOOSE i \in DOMAIN calls : calls[i].date = d]]
        run == Run(Linear3, list, <<>>, 1)
    IN (\A i \in DOMAIN calls : calls[i].twoWay % 2 = 0) /\ ~BreakevenRefused(earned, oneWay) =>
         /\ even.num = 3 * even.den
         /\ ~NetRefused(run, gross) /\ Total(NetOf(run, gross)) = 0

\* The months' charges are those of one run of the model over all trades and all
\* marks: by bucket in total and, by date, month for month; every mark covers
\* the calendar days since the one before it, when the year has 365 days.  And
\* when the months earn together what a linear rate would cost them, that rate
\* is the break-even of their one-way turnovers, and nothing is left of it.
PeriodsAddUp ==
    LET calls == [i \in DOMAIN records |-> records[i].call]
        trades == [i \in DOMAIN calls |-> Trades(calls[i].trades, calls[i].date, Attributes)]
        shorts == [i \in DOMAIN calls |-> Marks(calls[i].short, calls[i].dcf, Denominator, calls[i].date)]
        list == Concatenated(trades)
        marks == Concatenated(shorts)
        whole == Run(stack, list, marks, 1)
    IN /\ \A b \in DOMAIN whole.totals :
            whole.totals[b] = SumAlong(LAMBDA r : r.result.totals[b], records)
       /\ \A i \in DOMAIN records :
            /\ calls[i].date \in DOMAIN whole.periods <=> DOMAIN trades[i] \cup DOMAIN shorts[i] # {}
            /\ calls[i].date \in DOMAIN whole.periods
                 => whole.periods[calls[i].date] = records[i].result.totals
            /\ NetOf(whole, [d \in {calls[j].date : j \in DOMAIN calls} |-> 0])[calls[i].date]
                 = -(ChargesOf(records[i].result).cost + ChargesOf(records[i].result).borrow)
       /\ Denominator = 365 => CoverageGaps(marks) = {}
       /\ BreaksEven(calls, list)

\* Free borrowing is never silent: the month whose short book was charged
\* nothing carries the banner, and the run's stack, like every stack that a grid
\* of rates makes of it, carries the tag exactly when it can charge no borrow at all.
FreeShortsSaid ==
    /\ \A i \in DOMAIN records :
         records[i].call.short > 0 /\ ChargesOf(records[i].result).borrow = 0
            => i \in ZeroBorrowBanners(records)
    /\ WellTagged(stack)
    /\ \A fees \in {{None}, {0, 30}} :
         ~GridRefused(stack, {0, 25}, fees)
            => \A v \in GridVariants(stack, {0, 25}, fees) : WellTagged(v)

\* The optimizer refuses nothing that can be done and answers nothing that
\* cannot: a conflict found before the solver runs leaves no book that would
\* pass the final checks, and whatever points of the program the solver ends at,
\* the books answered are exactly those that pass them, washes being refused.  A
\* limit that is said to bind a book cannot be tightened around it.
Points == [u : [Universe -> 0 .. Gross3], v : [Universe -> 0 .. Gross3]]
Field == [cap |-> "position", turnover |-> "turnover", adv |-> "adv", beta |-> "beta", vol |-> "volatility"]
Tighter(p, limit) == [p EXCEPT !.cons[limit] = @ - 1]
BookOf(w) == [s \in {x \in Universe : w[x] # 0} |-> w[s]]
OptimizerExact ==
    problem # None =>
        \E sound \in {{w \in [Universe -> -Gross3 .. Gross3] : Violations(problem, w) = {}}},
           answers \in {{Build(problem, Reach, TRUE, x) : x \in {y \in Points : InProgram(problem, y)}}} :
          /\ StaticConflicts(problem) # {} => sound = {}
          /\ {a.error : a \in answers} \subseteq {"none", "infeasible"}
          /\ {a.weights : a \in {b \in answers : b.error = "none"}} = {BookOf(w) : w \in sound}
          /\ \A w \in sound, limit \in DOMAIN Field :
               (IF limit = "vol" THEN "volatility" ELSE limit) \in ActiveInequalities(problem, w)
                 => Field[limit] \in Violations(Tighter(problem, limit), w)
=============================================================================

------------------------------- MODULE Builders -------------------------------
(* From raw payloads to canonical tables: the checks of ingestion, the waves  *)
(* of a payload with its vintages (pipeline/data_stage.py), ids and tables    *)
(* (canonical/builders.py) and what corporate actions derive (actions.py).    *)
(* A raw ticker is a pair of the name and how it is spelled.                  *)
EXTENDS Stamping

CONSTANT Digest(_, _)   \* the hash an id is made of

Ok(rows) == [error |-> "none", rows |-> rows]
Refuse(why) == [error |-> why, rows |-> {}]

-----------------------------------------------------------------------------
(* Ingestion.                                                                 *)

\* A provider that knows its publication times gives them, never before the
\* event; one that does not leaves them out.
Ct10Problems(rows, cap) ==
    {r \in {q \in rows : "known" \in DOMAIN q} :
       IF ~cap.pit THEN r.known # None
       ELSE r.known = None \/ ("day" \in DOMAIN r /\ DayOf(r.known) < r.day)}
RawRefused(rows, cap, keys) ==
    \/ ~cap.available
    \/ Ct10Problems(rows, cap) # {}
    \/ \E r, q \in rows : r # q /\ keys[r] = keys[q]

\* The nth row of a key, in the order of their knowledge, goes to the nth wave.
VintageWaves(rows, keys) ==
    LET place(r) == 1 + Cardinality({q \in rows : keys[q] = keys[r] /\ q.known < r.known})
    IN [n \in 1 .. Max({0} \cup {place(r) : r \in rows}) |-> {r \in rows : place(r) = n}]

\* A closure that is known only after the day that follows it would be told early.
Anticipates(last, closure) == last[closure] # None /\ DayOf(last.known) > last[closure] + 1

\* The vintages of an interval become one row: the first as it was known, with
\* the end that the last one gives.
MergeIntervalVintages(rows, group, closure) ==
    LET of(k) == {r \in rows : group[r] = k}
        first(k) == CHOOSE r \in of(k) : \A q \in of(k) : r.known <= q.known
        last(k) == CHOOSE r \in of(k) : \A q \in of(k) : q.known <= r.known
        groups == {group[r] : r \in rows}
    IN IF \E r \in rows : r.known = None THEN Refuse("no knowledge time")
       ELSE IF \E k \in groups : Anticipates(last(k), closure) THEN Refuse("closure told early")
       ELSE Ok({IF last(k)[closure] = None THEN first(k) ELSE [first(k) EXCEPT ![closure] = last(k)[closure]]
                  : k \in groups})

-----------------------------------------------------------------------------
(* Ids.                                                                       *)
NormKey(ticker) == ticker[1]

FirstSeen(r, observed, retrieval) ==
    IF r.listed # None THEN r.listed
    ELSE IF NormKey(r.ticker) \in DOMAIN observed THEN observed[NormKey(r.ticker)] ELSE DayOf(retrieval)

\* The rows one after another: a later row of a key wins, and two keys of one
\* hash stop the build, also when the row that was given it has been replaced.
Minted(built, r, first) ==
    LET key == NormKey(r.ticker)
        id == Digest(key, first)
    IN IF built.error # "none" THEN built
       ELSE IF id \in DOMAIN built.seen /\ built.seen[id] # key THEN [built EXCEPT !.error = "collision"]
       ELSE [built EXCEPT !.ids = (key :> [id |-> id, first |-> first]) @@ @, !.seen = (id :> key) @@ @]
MintIds(rows, observed, retrieval) ==
    FoldLeft(LAMBDA built, r : Minted(built, r, FirstSeen(r, observed, retrieval)),
             [error |-> "none", ids |-> <<>>, seen |-> <<>>], rows)

Unresolved(rows, ids) == {r \in rows : NormKey(r.ticker) \notin DOMAIN ids}

\* What every builder of observations does: resolve, stamp, and refuse an empty
\* batch; beside its columns a canonical row has its id and its stamp.
BuildRows(rows, ids, stamps, columns) ==
    IF rows = {} THEN Refuse("empty")
    ELSE IF Unresolved(rows, ids) # {} THEN Refuse("no id")
    ELSE IF \E r \in rows : stamps[r].error # "none"
         THEN Refuse((CHOOSE s \in {stamps[r] : r \in rows} : s.error # "none").error)
    ELSE Ok({columns[r] @@ [security |-> ids[NormKey(r.ticker)].id, known |-> stamps[r].known] : r \in rows})

Observed(ctx, family, r, day) == StampObservation(family, ctx.cap, ctx.config, ctx.retrieval, day, r.known)

BuildSecurities(rows, ids, ctx) ==
    BuildRows(rows, ids, [r \in rows |-> Observed(ctx, "master", r, None)],
              [r \in rows |-> [type |-> IF r.type = None THEN "other" ELSE r.type]])
\* Only from rows that say where and since when they are listed.
BuildListingIntervals(rows, ids, ctx) ==
    BuildRows({r \in rows : r.listed # None /\ r.country # None}, ids,
              [r \in rows |-> Observed(ctx, "master", r, None)],
              [r \in rows |-> [country |-> r.country, listed |-> r.listed, delisted |-> r.delisted, terminal |-> None]])

BuildPricesDaily(rows, ids, ctx) ==
    IF ctx.cap.basis = "adjusted" THEN Refuse("adjusted prices")
    ELSE IF Cardinality(ctx.sources) # 1 THEN Refuse("not one snapshot")
    ELSE BuildRows(rows, ids,
                   [r \in rows |-> StampMarketBar(r.day, "market", ctx.cap, ctx.config, ctx.retrieval, r.known)],
                   [r \in rows |-> [day |-> r.day, close |-> r.close, volume |-> r.volume]])

BuildUniverseMembership(rows, ids, ctx) ==
    BuildRows(rows, ids, [r \in rows |-> Observed(ctx, "membership", r, None)],
              [r \in rows |-> [id |-> r.universe, from |-> r.from, to |-> r.to]])

BuildTradingCalendars(rows) ==
    Ok({[calendar |-> r.calendar, day |-> r.day, trading |-> r.trading] : r \in rows})

BuildFxRates(rows, ctx) ==
    IF rows = {} THEN Refuse("empty")
    ELSE IF \E r \in rows : Observed(ctx, "fx", r, r.day).error # "none" THEN Refuse("no knowledge time")
    ELSE Ok({[base |-> r.base, quote |-> r.quote, day |-> r.day, rate |-> r.rate,
              known |-> Observed(ctx, "fx", r, r.day).known] : r \in rows})

\* A successor is looked up as it is spelled, on the exchange of its predecessor.
SuccessorUnknown(r, ids) == r.successor # None /\ r.successor \notin {<<k, "plain">> : k \in DOMAIN ids}
BuildCorporateActions(rows, ids, ctx) ==
    IF \E r \in rows : SuccessorUnknown(r, ids) THEN Refuse("no successor")
    ELSE BuildRows(rows, ids, [r \in rows |-> Observed(ctx, "actions", r, None)],
              [r \in rows |-> [action |-> <<ids[NormKey(r.ticker)].id, r.type, r.effective, r.ref>>, type |-> r.type,
                               ex |-> r.ex, effective |-> r.effective, ratio |-> r.ratio, amount |-> r.amount,
                               successor |-> IF r.successor = None THEN None ELSE ids[r.successor[1]].id,
                               terminal |-> r.terminal]])

-----------------------------------------------------------------------------
(* Vintages.                                                                  *)
Latest(rows, key) == CHOOSE r \in rows : r.key = key /\ \A q \in rows : q.key = key => q.vintage <= r.vintage

\* Mutant of Restates: a restatement may carry any time.
RestatesAlways(c, latest) == TRUE
\* A restatement must be known after what it restates.
Restates(c, latest) == c.known > latest.known

GroupOf(rows, key) == {r \in rows : r.key = key}
VintageOf(c, n) == [key |-> c.key, value |-> c.value, known |-> c.known, vintage |-> n]
Assembled(built, c) ==
    LET group == GroupOf(built.rows, c.key)
        append(n) == [built EXCEPT !.rows = @ \cup {VintageOf(c, n)}, !.seen = @ \cup {c.key}]
    IN IF built.error # "none" THEN built
       ELSE IF c.key \in built.seen THEN [built EXCEPT !.error = "duplicate"]
       ELSE IF group = {} THEN append(0)
       ELSE IF Latest(group, c.key).value = c.value THEN [built EXCEPT !.seen = @ \cup {c.key}]
       ELSE IF ~Restates(c, Latest(group, c.key)) THEN [built EXCEPT !.error = "not later"]
       ELSE append(Latest(group, c.key).vintage + 1)
AssembleVintages(existing, candidates) ==
    FoldLeft(Assembled, [error |-> "none", rows |-> existing, seen |-> {}], candidates)

\* A label relative to the report names the year that the period ends in.
NormalizePeriod(r) == IF r.period[1] = "relative" THEN r.end \div 365 ELSE r.period[2]

Vintages(existing, rows, ids, stamps, figures) ==
    LET candidates == [i \in DOMAIN rows |->
            [key |-> <<ids[NormKey(rows[i].ticker)].id, rows[i].metric>> \o figures[i], value |-> rows[i].value,
             known |-> stamps[i].known]]
    IN IF rows = <<>> THEN Refuse("empty")
       ELSE IF Unresolved(Range(rows), ids) # {} THEN Refuse("no id")
       ELSE IF \E i \in DOMAIN rows : stamps[i].error # "none" THEN Refuse("stamp")
       ELSE AssembleVintages(existing, candidates)
BuildFundamentals(rows, ids, ctx, existing) ==
    Vintages(existing, rows, ids, [i \in DOMAIN rows |-> Observed(ctx, "fundamentals", rows[i], rows[i].end)],
             [i \in DOMAIN rows |-> <<NormalizePeriod(rows[i])>>])
BuildEstimatesConsensus(rows, ids, ctx, existing, stat) ==
    Vintages(existing, rows, ids, [i \in DOMAIN rows |-> Observed(ctx, "estimates", rows[i], None)],
             [i \in DOMAIN rows |-> <<rows[i].period, IF rows[i].stat = None THEN stat ELSE rows[i].stat>>])

-----------------------------------------------------------------------------
(* What corporate actions derive.  A factor is in thousandths.                *)
SplitTypes == {"split", "stock_dividend"}
PriceTypes == SplitTypes \cup {"cash_dividend"}
ActionDate(a) == IF a.ex # None THEN a.ex ELSE a.effective

\* Mutant of FactorKnown: a factor is known with the action of its own day.
FactorKnownAlone(upTo, day) == Max({a.known : a \in {b \in Range(upTo) : ActionDate(b) = day}})
\* A factor accumulates every action up to its day: it is known with the last.
FactorKnown(upTo, day) == Max({a.known : a \in Range(upTo)})

FactorRow(security, day, upTo, closes) ==
    LET split(f, a) == (f * a.ratio[1]) \div a.ratio[2]
        total(f, a) == IF a.type \in SplitTypes THEN split(f, a)
                       ELSE (f * (closes[<<security, ActionDate(a)>>] + a.amount)) \div closes[<<security, ActionDate(a)>>]
    IN [security |-> security, day |-> day,
        split |-> FoldLeft(LAMBDA f, a : IF a.type \in SplitTypes THEN split(f, a) ELSE f, 1000, upTo),
        total |-> FoldLeft(total, 1000, upTo),
        from |-> {a.action : a \in Range(upTo)}, known |-> FactorKnown(upTo, day)]

Priceless(a, closes) ==
    CASE a.type \in SplitTypes -> a.ratio = None
      [] a.type = "cash_dividend" -> a.amount = None \/ <<a.security, ActionDate(a)>> \notin DOMAIN closes
      [] OTHER -> FALSE
ComputeAdjustmentFactors(actions, closes) ==
    LET priced == {a \in actions : a.type \in PriceTypes}
        earlier(a, b) == ActionDate(a) < ActionDate(b)
                           \/ (ActionDate(a) = ActionDate(b) /\ a.action[4] < b.action[4])
        upTo(s, d) == InOrder({a \in priced : a.security = s /\ ActionDate(a) <= d}, earlier)
    IN IF \E a \in actions : Priceless(a, closes) THEN Refuse("factor without its inputs")
       ELSE Ok({FactorRow(x[1], x[2], upTo(x[1], x[2]), closes) : x \in {<<a.security, ActionDate(a)>> : a \in priced}})

\* A delisting's terminal return goes to the one interval it ends.
HomeOf(listings, a) ==
    {r \in listings : r.security = a.security /\ (r.delisted = None \/ r.delisted = a.effective)}
DeriveDelistingReturns(listings, actions) ==
    LET ending == {a \in actions : a.type = "delisting" /\ a.terminal # None}
        closed(r, a) == [r EXCEPT !.delisted = a.effective, !.terminal = a.terminal]
        derive(built, a) ==
            IF built.error # "none" \/ Cardinality(HomeOf(built.rows, a)) # 1 THEN Refuse("not one home")
            ELSE Ok({IF r \in HomeOf(built.rows, a) THEN closed(r, a) ELSE r : r \in built.rows})
    IN FoldLeft(derive, Ok(listings), InOrder(ending, LAMBDA a, b : a.security < b.security
                    \/ (a.security = b.security /\ ActionDate(a) < ActionDate(b))))
=============================================================================

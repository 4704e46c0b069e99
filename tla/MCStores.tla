------------------------------- MODULE MCStores -------------------------------
(* The stores under an artifacts root, one part of them at a time: a table of *)
(* the canonical store with its writers, the runs that share a root, or a     *)
(* single question to the functions that make canonical rows and check them.  *)
EXTENDS CanonicalStore, RunArtifacts

CONSTANTS w1, w2, s1, k1, k2, v1, v2,
          FigureValues, FigureTimes, \* what a delivery of a figure says, and when
          LagChoices,                \* lags a run may configure
          Instants,                  \* when a figure is asked for
          MaxDrops                   \* bound: deliveries of a figure
ASSUME FigureAssumption ==
    /\ FigureTimes \subseteq Int /\ Instants \subseteq Int
    /\ \A lags \in LagChoices : \A t \in DOMAIN lags : lags[t] \in Int

VARIABLES part,      \* which part moves
          question   \* what was asked, with its answer, or None

-----------------------------------------------------------------------------
(* The table: a first vintage, its restatement, the same vintage with another *)
(* value, a second vintage alone, and new keys known early and late.          *)
R(k, vintage, kt, v) == [key |-> k, vintage |-> vintage, kt |-> kt, value |-> v]
MCOffers == {{R(k1, 0, 1, v1)},
             {R(k1, 0, 1, v1), R(k1, 1, 2, v2)},
             {R(k1, 0, 1, v2)},
             {R(k1, 1, 2, v2)},
             {R(k1, 0, 1, v1), R(k2, 0, 2, v1)},
             {R(k1, 0, 1, v1), R(k1, 1, 2, v2), R(k2, 0, 1, v1)}}
Symmetry == Permutations(Writers)

-----------------------------------------------------------------------------
(* The runs: two worlds, the first with a delisting and a split, and windows  *)
(* of it that end too early, in time, and later still.                        *)
Ticker(n) == <<n, "plain">>
Cap(pit, basis) == [available |-> TRUE, pit |-> pit, basis |-> basis]
Master(n, delisted, known) ==
    [ticker |-> Ticker(n), listed |-> 0, delisted |-> delisted, country |-> "us", type |-> "common", known |-> known]
Market(n, day, close) == [ticker |-> Ticker(n), day |-> day, close |-> close, volume |-> 7, known |-> 2 * day + 1]
Action(n, type, day, ratio, amount, terminal, known) ==
    [ticker |-> Ticker(n), type |-> type, ex |-> None, effective |-> day, ratio |-> ratio, amount |-> amount,
     successor |-> None, terminal |-> terminal, ref |-> 1, known |-> known]
Member(n, from, to, known) == [universe |-> "u", ticker |-> Ticker(n), from |-> from, to |-> to, known |-> known]
Payload1 ==
    [master |-> {Master(1, None, 0), Master(1, 3, 7), Master(2, None, 0)},
     market |-> {Market(1, d, 50 + d) : d \in 1 .. 2} \cup {Market(2, d, IF d < 3 THEN 80 + d ELSE 40 + d) : d \in 1 .. 4},
     actions |-> {Action(1, "delisting", 3, None, None, -300, 6), Action(2, "split", 3, <<2, 1>>, None, None, 2)},
     membership |-> {Member(1, 0, None, 0), Member(1, 0, 3, 7), Member(2, 0, None, 0)},
     fx |-> {[base |-> "usd", quote |-> "eur", day |-> 1, rate |-> 2, known |-> 3]},
     calendar |-> {[calendar |-> "c", day |-> d, trading |-> TRUE] : d \in 1 .. 4}]
Payload2 ==
    [Payload1 EXCEPT !.master = {Master(3, None, 0)}, !.market = {Market(3, 1, 9), Market(3, 2, 3)},
       !.actions = {Action(3, "split", 2, <<3, 1>>, None, None, 2)}, !.membership = {Member(3, 0, None, 0)}]
MCWorlds == [first |-> [cap |-> Cap(TRUE, "unadjusted"), payload |-> Payload1],
           second |-> [cap |-> Cap(TRUE, "unadjusted"), payload |-> Payload2]]
MCExperiments == [early |-> [world |-> "first", end |-> 2], right |-> [world |-> "first", end |-> 4],
                late |-> [world |-> "first", end |-> 6], other |-> [world |-> "second", end |-> 6]]
Stamping(acknowledged) == [lags |-> [fundamentals |-> 1], lagRule |-> {}, acknowledged |-> acknowledged, truth |-> FALSE]
MCSettings == [stamping |-> [Stamping(FALSE) EXCEPT !.truth = TRUE],
             battery |-> [run |-> 3, tolerance |-> 20, coverage |-> [prices |-> [close |-> 0, volume |-> 84]]]]
MCDigest(key, first) == 10 * key + first

-----------------------------------------------------------------------------
(* Questions.                                                                 *)
Ids == [n \in 1 .. 2 |-> [id |-> Digest(n, 0), first |-> 0]]
Ctx(cap, config, retrieval) == [cap |-> cap, config |-> config, retrieval |-> retrieval, sources |-> {"snap"}]
Pit(rows) == [rows |-> rows, lags |-> [t \in DOMAIN rows |-> 0]]

\* A stay in the universe, told when it begins, and its end, told at any time.
AskMerge ==
    \E from \in 0 .. 1, to \in 1 .. 3, known \in 2 .. 9, closed \in BOOLEAN :
      LET open == Member(1, from, None, 2 * from)
          rows == {open} \cup (IF closed THEN {Member(1, from, to, known)} ELSE {})
      IN /\ open.known < known
         /\ question' = [kind |-> "merge", rows |-> rows, answer |-> MembershipFinal(rows)]

\* Two actions of one day or of two, announced in any order.
AskFactors ==
    \E a \in {Action(1, "split", 2, <<2, 1>>, None, None, k) : k \in 1 .. 8},
       b \in {[Action(1, "cash_dividend", d, None, 5, None, k) EXCEPT !.ref = 2] : d \in 2 .. 3, k \in 1 .. 8} :
      LET built == BuildCorporateActions({a, b}, Ids, Ctx(Cap(TRUE, "unadjusted"), Stamping(FALSE), 9))
      IN question' = [kind |-> "factors", rows |-> built.rows,
                      answer |-> ComputeAdjustmentFactors(built.rows, [x \in {10} \X (2 .. 3) |-> 50])]

\* A figure of a table that is delivered again and again, each time with a value
\* and a time, under lags that may be refused.
Figure(table, drop, known) ==
    IF table = "fundamentals"
    THEN [ticker |-> Ticker(1), metric |-> "EPS", period |-> <<"fiscal", 1>>, end |-> 1, value |-> drop.value, known |-> known]
    ELSE [ticker |-> Ticker(1), metric |-> "EPS", period |-> 1, stat |-> None, value |-> drop.value, known |-> known]
Deliver(table, rows, drop, cap, config) ==
    LET batch == <<Figure(table, drop, IF cap.pit THEN drop.at ELSE None)>>
        built == IF table = "fundamentals" THEN BuildFundamentals(batch, Ids, Ctx(cap, config, drop.at), rows)
                 ELSE BuildEstimatesConsensus(batch, Ids, Ctx(cap, config, drop.at), rows, "mean")
    IN IF built.error = "none" THEN built.rows ELSE rows
Stamped(table, drop, cap, config) ==
    IF cap.pit \/ table \notin config.lagRule THEN drop.at ELSE LagRuleTime(1, config.lags[table])
MCLags == {<<>>, [fundamentals |-> -1, estimates |-> 1], [fundamentals |-> 1, estimates |-> 1]}
AskVintages ==
    \E pit \in BOOLEAN, table \in {"fundamentals", "estimates"}, lags \in LagChoices,
       rule \in SUBSET {"fundamentals", "estimates"} :
      LET used == [Stamping(FALSE) EXCEPT !.lagRule = rule, !.lags = lags]
      IN /\ ~ConfigRefused(used)
         /\ question' = [kind |-> "vintages", table |-> table, cap |-> Cap(pit, "unadjusted"), config |-> used,
                         served |-> <<>>, after |-> <<{}>>]
\* The next delivery, beside the rows that are there after the one before it.
DeliverFigure ==
    LET rows == question.after[Len(question.after)]
    IN \E drop \in [value : FigureValues, at : FigureTimes] :
         /\ Len(question.served) < MaxDrops
         /\ question' = [kind |-> "vintages", table |-> question.table, cap |-> question.cap, config |-> question.config,
                         served |-> Append(question.served,
                                      [value |-> drop.value,
                                       known |-> Stamped(question.table, drop, question.cap, question.config)]),
                         after |-> Append(question.after,
                                      Deliver(question.table, rows, drop, question.cap, question.config))]

\* Prices of a provider, told by their stamps, and the same with a better grade.
AskGrade ==
    \E pit, acknowledged \in BOOLEAN, basis \in {"unadjusted", "adjusted", "unknown"}, retrieval \in 3 .. 9 :
      LET ctx == Ctx(Cap(pit, basis), Stamping(acknowledged), retrieval)
          rows == {[b EXCEPT !.known = IF pit THEN @ ELSE None] : b \in {Market(1, 1, 9), Market(1, 2, 8)}}
          built == BuildPricesDaily(rows, Ids, ctx)
          of(config) == ManifestOf("prices", "market", [ctx EXCEPT !.config = config], built.rows,
                           GradeDataset("market", ctx.cap, config), Downgrades("market", ctx.cap, config))
      IN question' = [kind |-> "grade", built |-> built, cap |-> ctx.cap, config |-> ctx.config, retrieval |-> retrieval,
                      refused |-> ManifestRefused(of(ctx.config), built.rows),
                      rewritten |-> ManifestRefused(of(Stamping(TRUE)), built.rows)]

-----------------------------------------------------------------------------
(* The datasets of the run in time, with one flaw or none, and a battery.     *)
InRaw == [id \in {p.id : p \in Range(Pieces["first"])} |->
            [rows |-> (CHOOSE p \in Range(Pieces["first"]) : p.id = id).rows, manifest |-> "whole",
             retrieval |-> RetrievalOf("right")]]
Taken(stored) ==
    {[id |-> id, rows |-> stored[id].rows, written |-> stored[id].rows, retrieval |-> stored[id].retrieval,
      pit |-> TRUE] : id \in DOMAIN stored}
Clean(stored) == [t \in Range(CanonicalTables) |-> BuildTable(stored, "right", t, Minting(stored, "right").ids).rows]

\* One table of the clean ones changed.
Swap(table, old, new) == [table |-> table, old |-> old, new |-> new]
Set(b, field, v) == Swap("prices", {b}, {[b EXCEPT ![field] = v]})
More(b, day) == Swap("prices", {}, {[b EXCEPT !.day = day, !.known = 2 * day + 1]})
Changes(clean) ==
    LET factors == clean["factors"]
        bar(id, day) == CHOOSE b \in clean["prices"] : b.security = id /\ b.day = day
        change(table, r, changed) == Swap(table, {r}, {changed})
        stay == CHOOSE r \in clean["membership"] : r.to # None
        split == CHOOSE a \in clean["actions"] : a.type = "split"
        frozen(days) == Swap("prices", {bar(10, 1), bar(10, 2)},
                             {[bar(10, 1) EXCEPT !.day = d, !.known = 2 * d + 1] : d \in days})
    IN {<<"negative_prices", Set(bar(10, 1), "close", 0)>>,
        <<"impossible_volumes", Set(bar(10, 1), "volume", -1)>>,
        <<"missing_mandatory", Swap("listings", clean["listings"], {[r EXCEPT !.country = None] : r \in clean["listings"]})>>,
        <<"schema_conformance", change("membership", stay, [stay EXCEPT !.from = stay.to + 1])>>,
        <<"schema_conformance", change("actions", split, [split EXCEPT !.terminal = 0])>>,
        <<"coverage", Set(bar(10, 1), "volume", None)>>,
        <<"inverted_timestamps", Set(bar(20, 4), "known", 7)>>,
        <<"knowledge_within_retrieval", Set(bar(20, 4), "known", 12)>>,
        <<"duplicate_rows", Swap("prices", {}, {[bar(10, 1) EXCEPT !.close = 51, !.volume = 8]})>>,
        <<"bars_after_delisting", More(bar(10, 2), 4)>>,
        <<"stale_prices", frozen(1 .. 3)>>,
        <<"split_basis", Set(bar(20, 3), "close", 84)>>,
        <<"factors_without_actions", Swap("factors", factors, {[f EXCEPT !.day = 4] : f \in factors})>>,
        <<"none", Set(bar(20, 4), "known", 11)>>,
        <<"none", More(bar(10, 2), 3)>>,
        <<"none", frozen(2 .. 3)>>,
        <<"none", Set(bar(20, 3), "close", 49)>>,
        <<"none", change("membership", stay, [stay EXCEPT !.from = stay.to])>>,
        <<"none", Swap("prices", {}, {})>>}
AskBattery ==
    \E stored \in {InRaw} : \E clean \in {Clean(stored)} :
      \E change \in Changes(clean) :
        \E config \in {c \in {Settings.battery, [Settings.battery EXCEPT !.run = 1]} : ~CheckConfigRefused(c)},
           tables \in {[clean EXCEPT ![change[2].table] = (@ \ change[2].old) \cup change[2].new]} :
          \E store \in {{WriteBuild("right", t, tables[t]) : t \in DOMAIN tables}} :
            /\ \A t \in DOMAIN config.coverage : ~CoverageRefused(tables[t], config.coverage[t])
            /\ question' = [kind |-> "battery", flaw |-> change[1],
                            answer |-> RunQualityBattery(store, Taken(stored), config)]

\* A security listed once or twice, and what it left at the end of a listing.
AskDelistings ==
    \E ends \in {<<a>> : a \in {None, 2}} \cup {<<a, b>> : a \in {None, 2}, b \in {None, 5}},
       days \in SUBSET {2, 5} :
      LET listings == {[security |-> 10, country |-> "us", listed |-> 3 * (n - 1), delisted |-> ends[n],
                        terminal |-> None, known |-> 0] : n \in DOMAIN ends}
          actions == {[security |-> 10, type |-> "delisting", ex |-> None, effective |-> d, terminal |-> -100 * d] :
                        d \in days}
      IN question' = [kind |-> "delistings", actions |-> actions,
                      answer |-> DeriveDelistingReturns(listings, actions)]

-----------------------------------------------------------------------------
Still == UNCHANGED <<part, vars>>
Ask == AskMerge \/ AskFactors \/ AskVintages \/ AskGrade \/ AskBattery \/ AskDelistings
StoresInit == /\ Init /\ Fresh /\ part \in {"table", "runs", "questions"} /\ question = None
              /\ part # "table" => vintaged
StoresNext ==
    \/ part = "table" /\ Next /\ UNCHANGED <<part, question, artifacts>>
    \/ part = "runs" /\ Step /\ Still /\ UNCHANGED question
    \/ part = "questions" /\ question = None /\ Ask /\ Still /\ UNCHANGED artifacts
    \/ /\ part = "questions" /\ question # None /\ question.kind = "vintages"
       /\ DeliverFigure /\ Still /\ UNCHANGED artifacts
StoresSpec == StoresInit /\ [][StoresNext]_<<part, question, vars, artifacts>>

-----------------------------------------------------------------------------
(* Properties.                                                                *)
\* The universe that the merged row gives at an instant; the one that the
\* vintage known last by then gives; and the hours of the day after a stay in
\* which its end is still to be told.
MembersMerged(t) ==
    LET built == BuildUniverseMembership(question.answer.rows, Ids, Ctx(Cap(TRUE, "unadjusted"), Stamping(FALSE), 20))
    IN Universe(Pit([membership |-> built.rows]), "u", t, FALSE, None)
MembersTold(t) ==
    {10 : r \in {x \in question.rows :
            /\ x.known <= t /\ InInterval(x.from, x.to, DayOf(t))
            /\ \A q \in question.rows : q.known <= t => q.known <= x.known}}
EndUntold(t) == \E r \in question.rows : r.to # None /\ DayOf(t) = r.to + 1 /\ t < r.known

\* Whenever the vintages of a stay may be merged into one row, the universe is at
\* every instant what the vintage known last by then says; except that on the day
\* after the stay the member is gone in the hours before its end is told, although
\* the docstring of _merge_interval_vintages has the merge sound at every as_of.
MergedAnswersRight ==
    \A t \in 0 .. 13 : MembersMerged(t) = IF EndUntold(t) THEN {} ELSE MembersTold(t)

\* The factors known at an instant are among those the actions announced by
\* then give: none of them knows of an action that is still to be announced.
FactorsKnown ==
    \A t \in 0 .. 9 :
      {f \in question.answer.rows : f.known <= t}
        \subseteq ComputeAdjustmentFactors({a \in question.rows : a.known <= t}, [x \in {10} \X (2 .. 3) |-> 50]).rows

\* What the pipeline derives from several rows of its payload, a merged stay or
\* an adjustment factor, tells a query nothing the rows had not told by then; a
\* stay's end, told on the day after it, shows from the start of that day.
NothingToldEarly ==
    /\ question # None /\ question.kind = "merge" /\ question.answer.error = "none" => MergedAnswersRight
    /\ question # None /\ question.kind = "factors" => FactorsKnown

\* The deliveries that added a row, and the rows as a query and a join see them.
AddedIn(q) == {n \in DOMAIN q.served : q.after[n + 1] # q.after[n]}
AddedBy(q, t) == {n \in AddedIn(q) : q.served[n].known <= t}
RowsOf(q) == q.after[Len(q.after)]
FrameRow(r) ==
    [by |-> r.key[1], security |-> r.key[1], metric |-> r.key[2], period |-> r.key[3],
     vintage |-> r.vintage, value |-> r.value, known |-> r.known]
FrameOf(q) == {FrameRow(r) : r \in RowsOf(q)}
QueriedAt(q, t) == AsOfFrame(Pit([x \in {q.table} |-> FrameOf(q)]), q.table, t, FrameOf(q), None)
JoinedAt(q, t) == JoinLatestKnown({[by |-> Ids[1].id, at |-> t]}, FrameOf(q), 0)

RowsStay(q) == \A n \in DOMAIN q.served : q.after[n] \subseteq q.after[n + 1]
\* No value is added twice in a row.
Restated(q) ==
    \A n \in AddedIn(q), m \in AddedIn(q) :
      m < n /\ (\A i \in AddedIn(q) : ~ (m < i /\ i < n)) => q.served[m].value # q.served[n].value
LastAnswered(q, t) ==
    LET by == AddedBy(q, t)
    IN /\ {r.value : r \in QueriedAt(q, t)} = IF by = {} THEN {} ELSE {q.served[Max(by)].value}
       /\ {x[2] : x \in JoinedAt(q, t)} = IF by = {} THEN {None} ELSE QueriedAt(q, t)

\* Rows that were delivered stay; at every instant a query finds the value of
\* the delivery that was added last of those known by then, and an as-of join the
\* same row; and what is added restates: no value is added twice in a row.
AnswersLastServed ==
    question # None /\ question.kind = "vintages" =>
      RowsStay(question) /\ Restated(question) /\ \A t \in Instants : LastAnswered(question, t)

\* What a builder stamps the store accepts; and the manifest of bars stamped at
\* their retrieval cannot be rewritten to a better grade, unless they were
\* retrieved within two days of their day.
RewrittenGradeSeen ==
    /\ ~question.refused
    /\ BasisFails("market", question.cap, question.config) /\ question.retrieval > 5 => question.rewritten

\* A terminal return has one home, however often it is derived; and the battery
\* then flags no bar up to a delisting, and late ones when every listing has ended.
DelistingsSeen ==
    LET bars == {[security |-> 10, day |-> d] : d \in 0 .. 7}
        rows == question.answer.rows
        flagged == {b.day : b \in BarsAfterDelisting(bars, rows)}
    IN /\ DeriveDelistingReturns(rows, question.actions) = question.answer
       /\ \A a \in question.actions : Cardinality({r \in rows : r.terminal = a.terminal /\ r.delisted = a.effective}) = 1
       /\ \A d \in flagged, a \in question.actions : d > a.effective
       /\ 7 \in flagged <=> \A r \in rows : r.delisted # None

\* What is wrong with a stored dataset is seen, and nothing is seen in a sound
\* one: a better grade in its manifest, and each kind of flaw in its rows by the
\* check that is for it, down to the very edge of the check.
FlawsSeen ==
    /\ question # None /\ question.kind = "grade" /\ question.built.error = "none" => RewrittenGradeSeen
    /\ question # None /\ question.kind = "battery" =>
         IF question.flaw = "none" THEN question.answer = {}
         ELSE question.flaw \in {f[1] : f \in question.answer}
    /\ question # None /\ question.kind = "delistings" /\ question.answer.error = "none" => DelistingsSeen
=============================================================================

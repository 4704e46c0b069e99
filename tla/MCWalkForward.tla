--------------------------- MODULE MCWalkForward ---------------------------
(* Instances of WalkForward for TLC, with the report of a run that ends; and  *)
(* beside the loop pools of predictions, panels and ledgers to be reported,   *)
(* and version files to be loaded.                                            *)
EXTENDS WalkForward, Report

Cfg == INSTANCE Configuration   \* the version spec that the run is made by

VARIABLE sample   \* what is reported instead of a run, or a run's "loop"

\* A grid of every second trading day of an unbroken calendar, and a daily
\* grid over a weekend (days 6 and 7).
MCCalendars ==
  {[days |-> [i \in 1 .. 14 |-> i], grid |-> <<1, 3, 5, 7, 9, 11, 13>>],
   [days |-> <<3, 4, 5, 8, 9, 10, 11, 12>>, grid |-> <<3, 4, 5, 8, 9, 10, 11>>]}

-----------------------------------------------------------------------------
\* Up to three predictions whose labels, folds and fits are anything.
Prediction(day, start, end, number, fit) ==
  [security |-> 1, day |-> day, start |-> start, end |-> end, horizon |-> 1, fold |-> number, fit |-> fit]
Pools == {{p, q, r} : p, q, r \in {Prediction(d, 2, e, n, t) : d \in 1 .. 2, e \in 3 .. 4, n \in 1 .. 2, t \in 0 .. 1}}

\* Three names scored on a first date in any way, and some of them on a second.
Section(scores, outcomes) == [s \in DOMAIN scores |-> [score |-> scores[s], outcome |-> outcomes[s]]]
Panels == {<<Section(x, y), z>> :
             x \in [1 .. 3 -> {0, 6, 18}], y \in [1 .. 3 -> {-12, 0, 24}],
             z \in {Section(<<6, 0, 18>>, <<0, 24, -12>>), Section(<<18, 6>>, <<24, 0>>)}}

\* Three periods of two marks each; halfway the NAV may be half of what it was.
Nav(returns, i) == FoldLeft(LAMBDA nav, r : (nav * (Cent + r)) \div Cent, 64, SubSeq(returns, 1, i))
LedgerOf(returns, dip) ==
  [periods |-> [i \in DOMAIN returns |->
     [date |-> 10 * i, start |-> Nav(returns, i - 1), end |-> Nav(returns, i), return |-> returns[i],
      cost |-> i, borrow |-> 1, gross |-> 2 * Cent, net |-> i - 2, traded |-> 3 * i,
      oneWay |-> 20 * (i - 1), twoWay |-> 40 * (i - 1)]],
   navs |-> FlattenSeq([i \in DOMAIN returns |->
     <<IF i = dip THEN Nav(returns, i - 1) \div 2 ELSE Nav(returns, i - 1), Nav(returns, i)>>])]
Ledgers == {LedgerOf(returns, dip) : returns \in [1 .. 3 -> {-50, 0, 25}], dip \in {0, 2}}

\* Weights of three factors, the factors of another fit, a p-value; and two
\* overrides of a version.
Research == [weights : [1 .. 3 -> {-2, 0, 1}], other : SUBSET (1 .. 3), p : {1, 60}]
Overrides == [path : {<<"a">>, <<"a", "b">>, <<"a", "b", "value">>, <<"c">>}, value : {1, 2}, prov : {"assumed"}]
Version == [p \in {<<"a", "value">>, <<"c", "value">>} |-> 0]

\* Three files with one section, each of its own making; and the choices of a
\* version, of which those no version takes are few.
SectionOf(id) == {<<>>, <<"x">> :> id, <<"x", "value">> :> id, <<"x", "cr">> :> id,
                 (<<"x", "value">> :> id) @@ (<<"x", "cr">> :> id)}
Inherits == {<<>>} \cup {<<"inherits">> :> id : id \in {"a", "b", "c", "z"}}
FileOf(id) == {section @@ inherits : section \in SectionOf(id), inherits \in Inherits}
Files == [a : FileOf("a"), b : FileOf("b"), c : FileOf("c")]

Trailing(periods) == [type |-> "trailing_window", periods |-> periods]
Seasonal == [type |-> "seasonal_same_month"]
Hedge(metric, grain) == [type |-> "hedge_backcast", metric |-> metric, grain |-> grain]
Paper(last) == <<Trailing(12), Seasonal, [type |-> "previous_period"]>> \o last
Weekly(periods) == <<Trailing(260), Trailing(periods), Seasonal, Hedge("bottom_half_aggregate_pnl", "week")>>
Rosters == {Paper(<<>>), Paper(<<Hedge("backcast_ic_threshold", "month")>>), Paper(<<Hedge("bottom_half_model_ic", "month")>>),
            Paper(<<Hedge("bottom_half_model_ic", "week")>>), Weekly(52), Weekly(260)}
Specs == [kernel : DOMAIN Cfg!KernelLeaves, selection : DOMAIN Cfg!SelectionLeaves,
          target : Cfg!LegalHorizonGrid \cup {<<"1M", "weekly">>}, mode : {"next_open", "t_plus_k_moc"}, roster : Rosters,
          flaw : {"none", "turnover capped", "neutralized", "fractions over one"}]

Samples == UNION {[kind : {"files"}, of : Files], [kind : {"spec"}, of : Specs],
                  [kind : {"pool"}, of : Pools], [kind : {"panel"}, of : Panels], [kind : {"ledger"}, of : Ledgers],
                  [kind : {"research"}, of : Research], [kind : {"overrides"}, of : Overrides \X Overrides]}
Loop == [kind |-> "loop"]

ReportedInit ==
  /\ Init
  /\ \/ sample = Loop
     \/ settings = (CHOOSE s \in Settings : Admissible(s)) /\ sample \in Samples
ReportedNext == sample = Loop /\ Next /\ UNCHANGED sample
ReportedSpec == ReportedInit /\ [][ReportedNext]_<<vars, sample>>

-----------------------------------------------------------------------------
(* Properties.                                                             *)

\* What is reported of the run that ended.
Scored(k, r, fit) ==
  [security |-> 1, day |-> r.day, start |-> r.start, end |-> r.end, horizon |-> settings.horizon,
   fold |-> k, fit |-> fit, score |-> 0, outcome |-> 0, delisted |-> FALSE]
Pool == {Scored(p.fold, p.record, p.fit) : p \in predictions}
Omitted == {Scored(u.fold, u.record, 0) : u \in unscored}
Recorded == {r.day : r \in Records}
Run == [end |-> Days[Len(Days)], grid |-> {Grid[i] : i \in DOMAIN Grid}, universe |-> {1},
        skipped |-> {Grid[i] : i \in DOMAIN Grid} \ Recorded]
Windows == {<<FoldAt(k).testLo, FoldAt(k).testHi>> : k \in 1 .. FoldCount}

\* A run of one-step returns has a ledger, and one of longer returns has none
\* once two grid days in a row are scored; an outcome is scored twice only when
\* test windows overlap.  The report of any other keeps every prediction and
\* explains every grid day of the claim: scored, omitted, not tested, or
\* without a return; and no day it accounts for lacks a name.
RunReported ==
  at = "done" /\ Pool # {} =>
    \E report \in {RunReport(Pool, Omitted, Windows, Run, [d \in Recorded |-> ScoresOf(Pool, d)])} :
      /\ settings.horizon = 1 => report.error # "dates"
      /\ settings.horizon > 1 => (report.error = "dates" <=> \E i, j \in DOMAIN Grid :
            i < j /\ j < i + settings.horizon /\ {Grid[i], Grid[j]} \subseteq {p.day : p \in Pool})
      /\ report.error \in {"none", "dates", "predicted twice"}
      /\ report.error = "predicted twice" => settings.step < settings.test
      /\ report.error = "none" =>
           /\ report.panel.kept = Pool
           /\ report.oos.contained /\ report.oos.outside = {}
           /\ \A d \in report.oos.claimed :
                /\ d \in report.oos.covered /\ d \in Recorded
                     <=> d \in PanelDays(report.panel) \cup {p.day : p \in Omitted}
           /\ \A d \in DOMAIN report.coverage :
                report.coverage[d].unaccounted = {} /\ d \in report.oos.covered

\* Whatever labels predictions carry, an outcome is counted once, with a model
\* no rival is fresher than; data that go on for longer only add outcomes; and
\* the strict policy refuses just where the lenient one has to choose.
PanelHonest(pool) ==
  LET panel(dataEnd, policy) == BuildScoringPanel(pool, dataEnd, policy)
      lenient(d) == panel(d, "latest_fit")
  IN /\ \A d \in 3 .. 4 : lenient(d).error = "none" =>
          /\ \A p \in {q \in pool : q.end <= d} :
               \E k \in lenient(d).kept :
                 /\ k.fit >= p.fit
                 /\ {q \in lenient(d).kept : q.security = p.security /\ q.end = p.end} = {k}
          /\ panel(d, "refuse").error = "none" => panel(d, "refuse") = lenient(d)
          /\ panel(d, "refuse").error = "predicted twice"
               <=> \E x \in lenient(d).excluded : x.reason = "superseded"
     /\ lenient(4).error = "none" => lenient(3).kept \subseteq lenient(4).kept

-----------------------------------------------------------------------------
\* The figures of a panel agree with one another.  The decay begins with the
\* information coefficient, which no monotone change of the scores moves; the
\* groups of one name explain what the scores do, one group for all explains
\* nothing; scores in the order of the outcomes rank the fractiles; the book of
\* a date earns half its gross times their spread; two dates are as
\* like each other as in reverse; and a feature that is the
\* outcome is always suspected.
Spec2 == [fractiles |-> [us |-> 2], gross |-> {1200}, residualization |-> {}, cap |-> NoCap]
PoolOf(section) ==
  {[security |-> s, day |-> 1, start |-> 1, end |-> 2, horizon |-> 1, fold |-> 1, fit |-> 0,
    score |-> section[s].score, outcome |-> section[s].outcome, delisted |-> FALSE] : s \in DOMAIN section}
DecayBegins(panel, series) ==
  {d[0].mean : d \in PredictionDecay(panel, 0)} = Mean([n \in DOMAIN series |-> series[n].value])
RanksOnly(panel, bent, series) ==
  IcSeries(bent, "spearman") = series /\ IcSkipped(bent, "spearman") = IcSkipped(panel, "spearman")
GroupsExplain(scores, outcomes) ==
  /\ {g.ic : g \in GroupAttributableIc(scores, outcomes, [s \in DOMAIN scores |-> s])} = {Pearson(scores, outcomes)}
  /\ \A g \in GroupAttributableIc(scores, outcomes, [s \in DOMAIN scores |-> 1]) : g.ic = {}
FractilesRank(panel, series) ==
  (\A n \in 1 .. 2 : n \in DOMAIN series /\ series[n].value = Milli)
    => \A q \in QuantileMetrics(panel, 2) : q.spread > 0 /\ q.ordered = 1 /\ q.monotonicity = Milli
BookEarns(section, periods) ==
  \A q \in QuantileMetrics(<<section>>, 2), p \in PerformanceByGroup(periods, [s \in DOMAIN section |-> s]) :
    Total(p[1]) = 6 * q.spread
ErrorsShrink(series) ==
  \A a \in IcSummary(series, 1), b \in IcSummary(series, 5) : Abs(2 * a.se - a.vol) <= 3 /\ b.se <= a.se
MovesEitherWay(panel) ==
  {a.mean : a \in ScoreAutocorrelation(panel)} = {a.mean : a \in ScoreAutocorrelation(Reverse(panel))}
LeakFound(panel) ==
  LeakageAudit([f \in {"leak"} |-> [i \in DOMAIN panel |-> Outcomes(panel[i])]], panel, Milli - 1)["leak"].suspected
SignalAgrees(panel) ==
  LET bent == [i \in DOMAIN panel |-> [s \in DOMAIN panel[i] |-> [panel[i][s] EXCEPT !.score = @ * (@ + 1)]]]
  IN \E series \in {IcSeries(panel, "spearman")} :
       /\ DecayBegins(panel, series)
       /\ RanksOnly(panel, bent, series)
       /\ GroupsExplain(Scores(panel[1]), Outcomes(panel[1]))
       /\ FractilesRank(panel, series)
       /\ BookEarns(panel[1], BuildLedger(PoolOf(panel[1]), 1 :> BuildBook(ScoresOf(PoolOf(panel[1]), 1), Spec2, {}, 1).weights))
       /\ ErrorsShrink(series)
       /\ MovesEitherWay(panel)
       /\ LeakFound(panel)

\* The figures of a ledger agree with one another.  The deepest fall is at least
\* that of the worst period, and none is none; the tail lies between its edge and
\* the worst return, for every alpha; the buckets compound to the whole, and the
\* whole to the last NAV; the ledger is its own benchmark; and at the estimated
\* capacity no period trades above the cap.
LedgerAgrees(ledger) ==
  LET returns == Returns(ledger)
      rows == ledger.periods
      falls == \E i \in DOMAIN ledger.navs : ledger.navs[i] < (<<rows[1].start>> \o ledger.navs)[i]
      own == [d \in {10, 20, 30} |-> returns[d \div 10]]
      adv == [d \in {10, 20, 30} |-> 7 * d]
      whole == [d \in {10, 20, 30} |-> "all"]
      halves == [d \in {10, 20, 30} |-> IF d = 20 THEN "low" ELSE "high"]
  IN /\ MaxDrawdown(ledger) >= -TailLosses(ledger, 5).worst
     /\ MaxDrawdown(ledger) = 0 <=> ~falls
     /\ \A alpha \in {5, 34, 67, 99} : \E losses \in {TailLosses(ledger, alpha)} :
          \A var \in losses.var, es \in losses.shortfall : losses.worst <= es /\ es <= var
     /\ TailLosses(ledger, 99).var = {Largest(returns)}
     /\ \A all \in PerformanceByBucket(ledger, whole), each \in PerformanceByBucket(ledger, halves) :
          all["all"].growth = each["low"].growth * each["high"].growth
     /\ PortfolioSummary(ledger, 12, 0) = {} <=> Spread(returns) = 0
     /\ \A s \in PortfolioSummary(ledger, 12, 0) :
          /\ s.growth * rows[1].start = rows[3].end * Cent ^ 3
          /\ s.sortino = {} <=> \A i \in DOMAIN returns : returns[i] >= 0
     /\ BetaToBenchmark(ledger, own) = {b \in {Cent} : Spread(returns) # 0}
     /\ \A c \in CapacityEstimate(ledger, adv, 10) :
          /\ \A i \in DOMAIN rows : c.nav * rows[i].oneWay <= 10 * adv[rows[i].date]
          /\ (c.nav + 1) * rows[c.date \div 10].oneWay > 10 * adv[c.date]
     /\ \A t \in {TurnoverSummary(ledger).oneWay, TurnoverSummary(ledger).twoWay} : \A m \in t.mean : m <= t.max
     /\ ExposureSummary(ledger).maxNet <= ExposureSummary(ledger).maxGross
     /\ \A p \in ParticipationRate(ledger, adv) : \A m \in p.mean : m <= p.max
     /\ \A block \in 1 .. 3, starts \in [1 .. 2 -> [1 .. 3 -> {0, 2}]] :
          \A b \in BlockBootstrapMean(returns, block, starts, 90) :
             /\ b.low <= b.high
             /\ block = 3 => b.low = b.point /\ b.high = b.point /\ b.stable = 2

\* The selections of two fits are alike exactly when they are equal, and as much
\* in either order; shares add up, however features are grouped; a group's
\* exposure is that of its names; the more was tried the larger the p-value, and
\* Bonferroni's is the larger; the worst of several scenarios is no better than
\* the base that is one of them; and what passes with a band passes with a wider
\* one, but never with a suspected leak.
ResearchAgrees(r) ==
  LET used == {s \in 1 .. 3 : r.weights[s] # 0}
      alike(a, b) == FactorSelectionStability(<<a, b>>)
      each == [s \in 1 .. 3 |-> s]
      pairs == [s \in 1 .. 3 |-> IF s = 3 THEN "odd" ELSE "even"]
      exposure == GroupExposures(<<[target |-> r.weights]>>, Restrict(pairs, {1, 2}))[1]
      tested(n) == MultipleTestingDiagnostics(r.p, n)
      verdict(band, leaks) ==
        AcceptanceVerdict(EvaluateAcceptance([ls_sharpe |-> [target |-> 1, band |-> band], calmar |-> [target |-> 0, band |-> 0]],
                                             [ls_sharpe |-> r.weights[1]]), leaks)
  IN /\ alike(used, r.other) = alike(r.other, used)
     /\ Milli \in alike(used, r.other) <=> used = r.other /\ used # {}
     /\ \A one \in FeatureFamilyExposure(r.weights, each), two \in FeatureFamilyExposure(r.weights, pairs) :
          /\ Total(one) \in Milli - 2 .. Milli
          /\ two["odd"] = one[3] /\ two["even"] - one[1] - one[2] \in 0 .. 1
          /\ SubmodelContribution([s \in 1 .. 3 |-> <<r.weights[s], -r.weights[s]>>]) = {one}
     /\ Total(exposure.net) = Net(r.weights) /\ Total(exposure.gross) = Gross(r.weights)
     /\ exposure.unmapped = {3} /\ exposure.net["UNMAPPED"] = r.weights[3]
     /\ \A n \in 1 .. 3 : \A t \in tested(n) :
          r.p * Cent ^ (n - 1) <= t.sidak /\ t.sidak <= t.bonferroni * Cent ^ (n - 1)
     /\ \A s \in SensitivityReport(r.weights[2], r.weights) : s.delta <= 0 /\ s.delta + s.spread >= 0
     /\ ValidationToTestDegradation(r.weights[1], r.weights[2]).absolute
          = -ValidationToTestDegradation(r.weights[2], r.weights[1]).absolute
     /\ ~verdict(9, {"f"}) /\ (verdict(1, {}) => verdict(2, {}))

\* Overrides apart from one another commute, of two at one path the last counts,
\* and two versions are told apart exactly when they differ.
OverridesAgree(o) ==
  LET apart == ~IsPrefix(o[1].path, o[2].path) /\ ~IsPrefix(o[2].path, o[1].path)
      run(overrides) == RunConfigHash([id |-> 1, seed |-> 2, overrides |-> Len(overrides)], ApplyOverrides(Version, overrides))
  IN /\ apart => run(<<o[1], o[2]>>) = run(<<o[2], o[1]>>)
     /\ o[1].path = o[2].path => run(<<o[1], o[2]>>) = run(<<o[2]>>)
     /\ run(<<o[1]>>) = run(<<o[2]>>) <=> o[1] = o[2]

-----------------------------------------------------------------------------
\* What a file resolves to: nothing unless its parents end in a file without
\* one, else each leaf as the nearest file has it that has a key there, above or
\* below.  The files beside it that a load reads are all that it takes.
Chains == {chain \in UNION {[1 .. n -> {"a", "b", "c"}] : n \in 1 .. 3} : chain[1] = "a"}
Ends(files, chain) ==
  \A i \in DOMAIN chain : Cfg!Leaf(files[chain[i]], <<"inherits">>) = {chain[j] : j \in {i + 1} \cap DOMAIN chain}
Nearest(files, chain, path) ==
  LET says == {i \in DOMAIN chain : \E q \in DOMAIN files[chain[i]] : IsPrefix(path, q) \/ IsPrefix(q, path)}
  IN files[chain[Min(says)]]
NearestWins(files) ==
  LET resolve(parents) == Cfg!ResolveInheritance(files["a"], parents, {})
      paths(chain) == UNION {DOMAIN files[chain[i]] : i \in DOMAIN chain}
      taken(chain) == {path \in paths(chain) : path \in DOMAIN Nearest(files, chain, path)}
  IN /\ resolve(files) = {[path \in taken(c) |-> Nearest(files, c, path)[path]] : c \in {c \in Chains : Ends(files, c)}}
     /\ LET siblings == Cfg!Siblings(files["a"], files, {})
        IN /\ siblings = {} <=> resolve(files) = {}
           /\ \A ids \in siblings : resolve(Restrict(files, ids)) = resolve(files)

\* The mapping of some choices, and what an id makes of one.
MappingOf(c) ==
  LET value == (<<"target", "horizon">> :> c.target[1]) @@ (<<"target", "grid">> :> c.target[2]) @@ (<<"execution", "mode">> :> c.mode)
               @@ (<<"neutralization", "mechanism">> :> IF c.flaw = "neutralized" THEN "group_demean" ELSE "none")
               @@ (<<"portfolio", "turnover_limit">> :> IF c.flaw = "turnover capped" THEN "some" ELSE "none")
      params == Cfg!Params(c.kernel, c.selection)
  IN [leaf \in {p \o <<key>> : p \in params, key \in {"value", "prov", "src"}} |->
        IF leaf[3] = "value" /\ <<leaf[1], leaf[2]>> \in DOMAIN value THEN value[<<leaf[1], leaf[2]>>] ELSE "any"]
     @@ [leaf \in Cfg!Fractions |-> IF c.flaw = "fractions over one" \/ leaf[4] = "middle" THEN 4 ELSE 3]
     @@ [leaf \in {<<"labels", "fractions", key>> : key \in {"prov", "src"}} |-> "any"]
     @@ (<<"kernel", "type">> :> c.kernel) @@ (<<"selection", "type">> :> c.selection) @@ (<<"ensemble", "components">> :> c.roster)
Named(data, id) ==
  data @@ (<<"version_id">> :> id)
  @@ [leaf \in {l \in {<<"inherits">>} : id \in DOMAIN Cfg!LegalInherits} |-> Cfg!LegalInherits[id]]
Said(data, sections, id) == Named(Restrict(data, {p \in DOMAIN data : p[1] \in sections}), id)
Stub(id) == <<"version_id">> :> id
Whole(kernel, selection, mode, roster) ==
  MappingOf([kernel |-> kernel, selection |-> selection, target |-> IF mode = "next_open" THEN <<"1M", "month_end">> ELSE <<"4W", "weekly">>,
             mode |-> mode, roster |-> roster, flaw |-> "none"])
Parents ==
  [lasr_2014 |-> Named(Whole("piecewise_linear_interp", "min_z", "next_open", Paper(<<Hedge("bottom_half_model_ic", "month")>>)), "lasr_2014"),
   nlasr_2020 |-> Named(Whole("linear_fit_nonneg", "max_weighted_corr", "t_plus_k_moc", Weekly(52)), "nlasr_2020")]
Deltas == {{"selection"}, {"kernel", "selection"}, {"target", "execution"}, {"target", "execution", "ensemble"},
           {"target", "execution", "ensemble", "kernel", "selection"}}

\* No choices make two versions, but of the two that are made to be compared; a
\* version that has a parent is not built without it; and whatever a child says
\* over its parent, it keeps the parent's kernel and selection.
VersionsTold(c) ==
  \E whole \in {MappingOf(c)} :
    LET stubs == [id \in DOMAIN Parents |-> Stub(id)]
        taken == {id \in DOMAIN Cfg!SpecGuards : Cfg!BuildVersionSpec(Named(whole, id), stubs) # {}}
    IN /\ Cardinality(taken) <= 1 \/ taken = {"nlasr_2020", "modernized"}
       /\ \A child \in DOMAIN Cfg!LegalInherits :
            /\ Cfg!BuildVersionSpec(Named(whole, child), <<>>) = {}
            /\ Cfg!BuildVersionSpec(whole @@ Stub(child), <<>>) = {}
            /\ \A sections \in {d \in Deltas : c.flaw = "none"} :
                 \A spec \in Cfg!LoadVersionSpec(child, Parents @@ (child :> Said(whole, sections, child))) : \A path \in {<<"kernel", "type">>, <<"selection", "type">>} :
                   spec[path] = Parents[Cfg!LegalInherits[child]][path]

\* Whatever the files say, a version takes each leaf from the nearest of them,
\* and versions stay apart.
VersionsApart ==
  /\ sample.kind = "files" => NearestWins(sample.of)
  /\ sample.kind = "spec" => VersionsTold(sample.of)

\* A report says of a run no more than the run did, and its figures agree.
ReportHonest ==
  CASE sample.kind = "loop" -> RunReported
    [] sample.kind = "pool" -> PanelHonest(sample.of)
    [] sample.kind = "panel" -> SignalAgrees(sample.of)
    [] sample.kind = "ledger" -> LedgerAgrees(sample.of)
    [] sample.kind = "research" -> ResearchAgrees(sample.of)
    [] sample.kind = "overrides" -> OverridesAgree(sample.of)
    [] sample.kind \in {"files", "spec"} -> TRUE
=============================================================================

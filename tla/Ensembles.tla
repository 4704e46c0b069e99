----------------------------- MODULE Ensembles -----------------------------
(* Temporal ensembles: which realized periods an expert trains on             *)
(* (ensembles/selectors.py), the experts of a fit (experts.py), their         *)
(* combination weights (combine.py) and their scores (scoring.py).            *)
(*                                                                            *)
(* A period is [id, label, end]: its label date and the end of its target.    *)
(* There are Season months in a year.                                         *)
EXTENDS Boosting

CONSTANTS Season, MonthIndex(_)

Month(date) == MonthIndex(date) % Season
Year(date) == MonthIndex(date) \div Season

-----------------------------------------------------------------------------
(* Selectors.  The order of periods is by label date, then by id.             *)
Ordered(periods) ==
    InOrder(periods, LAMBDA p, q : p.label < q.label \/ (p.label = q.label /\ p.id < q.id))
Ids(periods) == [i \in DOMAIN Ordered(periods) |-> Ordered(periods)[i].id]

PeriodError(p) == p.end <= p.label
HistoryError(periods) == \E p, q \in periods : p # q /\ p.id = q.id

Realized(periods, fitAsOf) == {p \in periods : p.end <= fitAsOf}

MostRecent(periods, n) ==
    LET order == Ordered(periods)
    IN Range(SubSeq(order, Max({1, Len(order) - n + 1}), Len(order)))

SelectorError(c) ==
    CASE c.type \in {"trailing_window", "previous_period"} -> c.periods <= 0
      [] c.type = "seasonal_same_month" -> c.years <= 0 \/ c.lagYears < 0 \/ c.minHistory # "use_all_drop_if_none"
      [] c.type = "hedge_backcast" -> c.lookback <= 0 \/ (c.metric = "backcast_ic_threshold") # (c.threshold # None)

TailWindow(realized, c) ==
    IF realized = {} THEN BoostingError("no_realized_period")
    ELSE IF Cardinality(realized) < c.periods /\ c.strict THEN BoostingError("short_window")
    ELSE [error |-> "none", ids |-> Ids(MostRecent(realized, c.periods))]

\* The realized periods of the anchor month, of the most recent years past the
\* lag; none drop the expert.
Seasonal(realized, c, fitAsOf) ==
    LET month == IF c.anchor = "calibration_month" THEN Month(fitAsOf) ELSE (Month(fitAsOf) + 1) % Season
        matches == {p \in realized : Month(p.label) = month}
        years == {Year(p.label) : p \in matches}
        newer(y) == Cardinality({x \in years : x > y})
    IN [error |-> "none", ids |-> Ids({p \in matches :
            newer(Year(p.label)) \in c.lagYears .. c.lagYears + c.years - 1})]

\* The periods of the lookback in which the backcast object did worst.
Hedge(realized, c, backcast) ==
    LET window == MostRecent(realized, c.lookback)
        series == backcast[c.object]
        worse(p) == {q \in window : series[q.id] < series[p.id] \/ (series[q.id] = series[p.id] /\ q.id < p.id)}
        half == IF c.half = "ceil" THEN (Cardinality(window) + 1) \div 2 ELSE Cardinality(window) \div 2
        adverse(p) == IF c.metric = "backcast_ic_threshold" THEN series[p.id] < c.threshold
                      ELSE Cardinality(worse(p)) < half
    IN IF realized = {} THEN BoostingError("no_realized_period")
       ELSE IF c.object \notin DOMAIN backcast THEN BoostingError("no_backcast")
       ELSE IF ~({p.id : p \in window} \subseteq DOMAIN series) THEN BoostingError("backcast_gap")
       ELSE [error |-> "none", ids |-> Ids({p \in window : adverse(p)})]

Select(c, fitAsOf, periods, backcast) ==
    LET realized == Realized(periods, fitAsOf)
    IN CASE c.type \in {"trailing_window", "previous_period"} -> TailWindow(realized, c)
         [] c.type = "seasonal_same_month" -> Seasonal(realized, c, fitAsOf)
         [] c.type = "hedge_backcast" -> Hedge(realized, c, backcast)

\* A component of the configuration: what is absent has its documented default.
BuildSelector(component) ==
    LET or(value, default) == IF value = None THEN default ELSE value
    IN CASE component.type \in {"trailing_window", "previous_period"} ->
              [component EXCEPT !.strict = or(@, FALSE)]
         [] component.type = "seasonal_same_month" ->
              [component EXCEPT !.anchor = or(@, "calibration_month")]
         [] component.type = "hedge_backcast" -> [component EXCEPT !.half = or(@, "floor")]

\* Two components with one name cannot be told apart.
ComponentName(c) ==
    CASE c.type \in {"trailing_window", "previous_period"} -> <<c.type, c.periods>>
      [] c.type = "seasonal_same_month" -> <<c.type, c.years, c.lagYears>>
      [] c.type = "hedge_backcast" -> <<c.type>>

-----------------------------------------------------------------------------
(* Experts.  A history is the factors, the block of every period by its id:   *)
(* [period, rows, known] with rows of [ranks, label], and the backcasts.      *)
BlockError(block) ==
    \/ block.rows = <<>> \/ PeriodError(block.period)
    \/ block.known # None /\ block.known > block.period.end
Periods(history) == {history.blocks[id].period : id \in DOMAIN history.blocks}
HistoryRefused(history) ==
    \/ HistoryError(Periods(history))
    \/ \E id \in DOMAIN history.blocks : \/ BlockError(history.blocks[id])
                                         \/ history.blocks[id].period.id # id

\* The blocks of the selected periods under one another, in the order of periods.
PoolTrainingMatrix(history, ids) ==
    LET order == Ids({history.blocks[ids[i]].period : i \in DOMAIN ids})
        rows == FlattenSeq([i \in DOMAIN order |-> history.blocks[order[i]].rows])
    IN [factors |-> history.factors,
        columns |-> [f \in Range(history.factors) |-> [n \in DOMAIN rows |-> rows[n].ranks[f]]],
        labels |-> [n \in DOMAIN rows |-> rows[n].label]]

\* One expert of the roster at a fit: its model, that it is dropped, or why the
\* fit as a whole is refused.
Fitted(boost, blocks, rowCount, fitAsOf) ==
    [rounds |-> boost.rounds, composition |-> "sum", rowCount |-> rowCount,
     fitAsOf |-> fitAsOf, maxTargetEnd |-> Max({b.period.end : b \in blocks}),
     maxKnowledge |-> IF \E b \in blocks : b.known = None THEN None ELSE Max({b.known : b \in blocks})]
Expert(c, ids, boost, model) ==
    IF boost.error # "none" THEN boost
    ELSE IF FittedModelError(model) THEN BoostingError("knows_the_future")
    ELSE [error |-> "none", name |-> ComponentName(c), ids |-> ids, model |-> model]

TrainExpert(c, history, fitAsOf, version) ==
    LET selector == BuildSelector(c)
        chosen == Select(selector, fitAsOf, Periods(history), history.backcast)
        blocks(ids) == {history.blocks[ids[i]] : i \in DOMAIN ids}
        fit(ids, boost, rowCount) == Expert(c, ids, boost, Fitted(boost, blocks(ids), rowCount, fitAsOf))
        pooled(ids, matrix) == fit(ids, Boost(matrix, version.kernel, version.objective, version.rounds),
                                   Cardinality(DOMAIN matrix.labels))
        train(ids) == IF ids = <<>> THEN BoostingError("dropped") ELSE pooled(ids, PoolTrainingMatrix(history, ids))
    IN IF SelectorError(selector) THEN BoostingError("selector")
       ELSE IF chosen.error # "none" THEN chosen
       ELSE train(chosen.ids)

Gather(roster, trained, fitAsOf) ==
    LET failed == {i \in DOMAIN roster : trained[i].error \notin {"none", "dropped"}}
        experts == {trained[i] : i \in {j \in DOMAIN roster : trained[j].error = "none"}}
    IN IF failed # {} THEN trained[Min(failed)]
       ELSE IF experts = {} THEN BoostingError("all_dropped")
       ELSE [error |-> "none", fitAsOf |-> fitAsOf, experts |-> experts,
             dropped |-> {ComponentName(roster[i]) : i \in {j \in DOMAIN roster : trained[j].error = "dropped"}}]

TrainEnsemble(roster, history, fitAsOf, version) ==
    IF version.pooling # "equal_per_observation" THEN BoostingError("pooling")
    ELSE IF HistoryRefused(history) THEN BoostingError("history")
    ELSE IF ~IsInjective([i \in DOMAIN roster |-> ComponentName(roster[i])]) THEN BoostingError("duplicate_component")
    ELSE Gather(roster, [i \in DOMAIN roster |-> TrainExpert(roster[i], history, fitAsOf, version)], fitAsOf)

-----------------------------------------------------------------------------
(* Combination.  Weights are counted in 1/Unit, rounded down.                 *)
EqualWeights(names) == [n \in names |-> Unit \div Cardinality(names)]

\* An outcome of a component: [component, period, key, ic, end, label].
RecordError(r) ==
    r.label # None /\ (r.label >= r.end \/ Month(r.label) # r.key)

\* Mutant of UsableRecords: an outcome counts before it is realized.
ScoredRecords(records, name, asOf, key) ==
    InOrder({r \in records : r.component = name /\ r.key = key},
                 LAMBDA r, q : r.end < q.end \/ (r.end = q.end /\ r.period < q.period))

\* What a component is weighted by: its realized outcomes of the calendar month,
\* strictly before the decision, in the order they were realized.
UsableRecords(records, name, asOf, key) ==
    InOrder({r \in records : r.component = name /\ r.end < asOf /\ r.key = key},
                 LAMBDA r, q : r.end < q.end \/ (r.end = q.end /\ r.period < q.period))

SeasonalRefused(records, names, asOf, key, cfg) ==
    LET bare == UNION {{r \in Range(UsableRecords(records, n, asOf, key)) : r.label = None} : n \in names}
    IN \/ names = {} \/ cfg.minObservations <= 0
       \/ \E r \in records : r.component \notin names \/ RecordError(r)
       \/ \E r, q \in records : r # q /\ <<r.component, r.period, r.key>> = <<q.component, q.period, q.key>>
       \/ Cardinality({(Month(r.end) - key) % Season : r \in bare}) > 1

SeasonalRankIcWeights(records, names, asOf, key, cfg) ==
    LET usable == [n \in names |-> UsableRecords(records, n, asOf, key)]
        window == [n \in names |-> IF cfg.trailingK = None THEN usable[n]
                                   ELSE SubSeq(usable[n], Max({1, Len(usable[n]) - cfg.trailingK + 1}),
                                               Len(usable[n]))]
        mean == [n \in names |-> SumAlong(LAMBDA r : r.ic, window[n]) \div Len(window[n])]
        floored == [n \in names |-> Max({mean[n], cfg.floor})]
    IN IF \E n \in names : Len(usable[n]) < cfg.minObservations THEN EqualWeights(names)
       ELSE IF Total(floored) <= 0 THEN EqualWeights(names)
       ELSE [n \in names |-> (Unit * floored[n]) \div Total(floored)]

\* The hedge weighs as much as the others do on average.
ApplyHedgeWeightRule(base, hedge, rule) ==
    LET raw == base @@ (hedge :> Total(base) \div Cardinality(DOMAIN base))
    IN IF rule = "equal" THEN EqualWeights(DOMAIN base \cup {hedge})
       ELSE [n \in DOMAIN raw |-> (Unit * raw[n]) \div Total(raw)]

WeightsRefused(cfg, names, hedge, records, asOf, key) ==
    \/ names = {} \/ hedge \in names \/ (hedge # None /\ cfg.hedgeRule = None)
    \/ /\ cfg.weighting = "seasonal_rank_ic"
       /\ \/ key = None \/ \E r \in records : r.component = hedge
          \/ (cfg.icWindow = "trailing_k") # (cfg.trailingK # None)
          \/ cfg.trailingK # None /\ cfg.trailingK <= 0
          \/ SeasonalRefused(records, names, asOf, key, cfg)

EnsembleWeights(cfg, names, hedge, records, asOf, key) ==
    LET base == IF cfg.weighting = "equal" THEN EqualWeights(names)
                ELSE SeasonalRankIcWeights(records, names, asOf, key, cfg)
    IN IF hedge = None THEN base ELSE ApplyHedgeWeightRule(base, hedge, cfg.hedgeRule)

-----------------------------------------------------------------------------
(* Scores.  A score is a number or None.                                      *)
Scored(scores) == {s \in DOMAIN scores : scores[s] # None}

\* Standard scores, with the mean and the spread of the universe.
ZScoreWithUniverse(scores, universe) ==
    LET members == IF universe = None THEN Scored(scores) ELSE universe \cap Scored(scores)
        n == Cardinality(members)
        sum == SumOver(scores, members)
        spread == Root((n * SumOver([s \in members |-> scores[s] * scores[s]], members)) - sum * sum)
    IN [s \in Scored(scores) |-> IF spread = 0 THEN 0 ELSE (Unit * (n * scores[s] - sum)) \div spread]

\* Only a component with weight can leave a security out of the composite.
CombineComponentScores(scores, weights, zscore, universe, normalization) ==
    LET normalized == [c \in DOMAIN scores |->
            IF zscore = "none" THEN [s \in Scored(scores[c]) |-> scores[c][s]]
            ELSE ZScoreWithUniverse(scores[c], universe)]
        weighted == {c \in DOMAIN weights : weights[c] > 0}
        everywhere == {s \in UNION {DOMAIN normalized[c] : c \in weighted} :
                          \A c \in weighted : s \in DOMAIN normalized[c]}
        combined == [s \in everywhere |->
            SumOver([c \in weighted |-> (weights[c] * normalized[c][s]) \div Unit], weighted)]
    IN IF DOMAIN scores # DOMAIN weights \/ scores = <<>> THEN BoostingError("names")
       ELSE IF \E c \in DOMAIN weights : weights[c] < 0 THEN BoostingError("negative")
       ELSE IF Total(weights) \notin Unit - Cardinality(DOMAIN weights) .. Unit THEN BoostingError("total")
       ELSE IF /\ zscore # "none" /\ universe # None
               /\ \E c \in DOMAIN scores : Scored(scores[c]) # {} /\ universe \cap Scored(scores[c]) = {}
         THEN BoostingError("universe")
       ELSE IF \E c \in weighted : DOMAIN normalized[c] = {} THEN BoostingError("dead_component")
       ELSE [error |-> "none",
             scores |-> IF normalization = "zscore" THEN ZScoreWithUniverse(combined, None) ELSE combined]

\* A panel is the ranks of every security by factor.
ScoreExperts(ensemble, panel) ==
    [name \in {e.name : e \in ensemble.experts} |->
        LET e == CHOOSE x \in ensemble.experts : x.name = name
        IN [s \in DOMAIN panel |-> PredictBoosted(e.model.rounds, panel[s])]]

ScoreEnsemble(ensemble, panel, cfg, weights, trainingUniverse) ==
    LET scores == ScoreExperts(ensemble, panel)
    IN IF DOMAIN weights # DOMAIN scores THEN BoostingError("names")
       ELSE IF \E e \in ensemble.experts, s \in DOMAIN panel :
                 MissingColumns(e.model.rounds, DOMAIN panel[s]) # {}
         THEN BoostingError("missing_column")
       ELSE IF \E c \in DOMAIN scores : Scored(scores[c]) = {} THEN BoostingError("scored_none")
       ELSE IF cfg.zscoreUniverse = "training" /\ trainingUniverse = None THEN BoostingError("universe")
       ELSE CombineComponentScores(scores, weights, cfg.zscore,
                                   IF cfg.zscoreUniverse = "training" THEN trainingUniverse ELSE None,
                                   cfg.normalization)

-----------------------------------------------------------------------------
(* The model stage of a run (pipeline/model_stage.py): what the records that  *)
(* a fold retains and the feature panel give an ensemble to train on, the     *)
(* composite scores of a decision, and the ledger of realized rank ICs that   *)
(* the ensemble weights are made of.                                          *)
(*                                                                            *)
(* A retained record is [at, security, label, end, cutoff]; the panel gives   *)
(* the ranks and the knowledge stamp of every decision.                       *)
MinIcNames == 3

\* Spearman's rank correlation, ties sharing their ranks; None when either side
\* is all one rank.
RankIc(scores, outcomes) ==
    LET names == DOMAIN scores
        n == Cardinality(names)
        rank(f) == [s \in names |-> 2 * Cardinality({r \in names : f[r] < f[s]})
                                     + Cardinality({r \in names : f[r] = f[s]}) + 1]
        x == rank(scores)
        y == rank(outcomes)
        moment(f, g) == n * SumOver([s \in names |-> f[s] * g[s]], names) - Total(f) * Total(g)
    IN IF moment(x, x) = 0 \/ moment(y, y) = 0 THEN None
       ELSE (Unit * moment(x, y)) \div Root(moment(x, x) * moment(y, y))

\* A block for every decision that retained a labelled record, or None when
\* there is none at all.  A row is one labelled security.
History(panel, retained) ==
    LET labelled == {r \in retained : r.label # 0}
        row(r) == [label |-> r.label,
                   ranks |-> [f \in Range(panel.factors) |->
                       LET ranks == panel.ranks[r.at][f]
                       IN IF r.security \in DOMAIN ranks THEN ranks[r.security] ELSE None]]
        block(at) ==
            LET of == {r \in labelled : r.at = at}
                order == InOrder(of, LAMBDA r, q : r.security < q.security)
            IN [period |-> [id |-> at, label |-> at, end |-> Max({r.end : r \in of})],
                rows |-> [n \in DOMAIN order |-> row(order[n])],
                known |-> Max({panel.knowledge[at]} \cup {r.cutoff : r \in of})]
    IN IF labelled = {} THEN None
       ELSE [factors |-> panel.factors, backcast |-> <<>>,
             blocks |-> [at \in {r.at : r \in labelled} |-> block(at)]]

\* The weights of a fit at a decision: the ledger's records of the experts that
\* trained, as they stood at the fit; None when they are refused.
StageWeights(ensemble, cfg, ledger, signal) ==
    LET names == {e.name : e \in ensemble.experts}
        usable == {r \in ledger : r.component \in names}
    IN IF WeightsRefused(cfg, names, None, usable, ensemble.fitAsOf, Month(signal)) THEN None
       ELSE EnsembleWeights(cfg, names, None, usable, ensemble.fitAsOf, Month(signal))

ScoreStage(ensemble, cfg, panel, ranks, ledger, signal) ==
    LET weights == StageWeights(ensemble, cfg, ledger, signal)
    IN IF signal \notin DOMAIN panel.ranks THEN BoostingError("no_ranks")
       ELSE IF weights = None THEN BoostingError("weights")
       ELSE ScoreEnsemble(ensemble, ranks, cfg, weights, None)

\* One observation of an expert and a decision, ever: a decision already scored
\* adds nothing, whichever ensemble scores it.
RealizeComponentIcs(ledger, scored, ensemble, ranks, outcome, signal) ==
    LET scores == ScoreExperts(ensemble, ranks)
        pairs(c) == {s \in Scored(scores[c]) : s \in DOMAIN outcome.returns}
        ic(c) == RankIc([s \in pairs(c) |-> scores[c][s]], [s \in pairs(c) |-> outcome.returns[s]])
        told == {c \in DOMAIN scores : Cardinality(pairs(c)) >= MinIcNames /\ ic(c) # None}
    IN IF signal \in scored THEN ledger
       ELSE ledger \cup {[component |-> c, period |-> signal, key |-> Month(signal),
                          ic |-> ic(c), end |-> outcome.end, label |-> signal] : c \in told}
=============================================================================

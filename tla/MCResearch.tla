----------------------------- MODULE MCResearch -----------------------------
(* Research on small markets: the targets of every family over a calendar,    *)
(* and a run of the pipeline, from the rows of the market through targets,    *)
(* feature ranks, experts and ensemble weights to the scores of each month;   *)
(* beside them, single features of the audited library and single boosting    *)
(* runs.                                                                      *)
EXTENDS Ensembles, TargetBuild

CONSTANTS Names,          \* the securities
          First, Final    \* the first month scored, and the last
ASSUME MonthsAssumption == First \in Nat /\ Final \in Nat

F == INSTANCE Features

VARIABLES world,    \* the market of a run and its target family
          prep,     \* the records and the panel, once they are made
          run,      \* the months scored so far, the ensemble, and the ledger, of each record
          feature,  \* a feature computed by itself, or None
          boosted   \* a boosting run by itself, or None
vars == <<world, prep, run, feature, boosted>>

MCMonthOf(d) == d \div 30
MonthOfInstant(t) == (t \div 2) \div 30
-----------------------------------------------------------------------------
(* Markets.  A month has three trading days, its last ones; one security may  *)
(* leave the market with a terminal return.                                   *)
Calendar(months) == {30 * m + d : m \in months, d \in 27 .. 29}
Closing(m) == 30 * m + 29
Close(w, s, d) == 40 + ((w.seed * (d \div 30 + 2) * (d \div 30 + s) + 7 * s + (d % 30)) % 31)
GoneBy(w, s, d) == w.gone # None /\ w.gone.security = s /\ d > w.gone.day

Bar(w, s, d) ==
    [security |-> s, day |-> d, open |-> Close(w, s, d) - 1, close |-> Close(w, s, d), currency |-> "usd",
     cap |-> 10 * s, mcap |-> Close(w, s, d) * s, volume |-> 5, known |-> 2 * d + 1]
MarketTables(w, days) ==
    [prices |-> {b \in {Bar(w, s, d) : s \in Names, d \in days} : ~GoneBy(w, b.security, b.day)},
     factors |-> {}, fx |-> {},
     actions |-> IF w.gone = None THEN {}
                 ELSE {[security |-> w.gone.security, day |-> w.gone.day, type |-> "delisting",
                        terminal |-> -300, known |-> 2 * w.gone.day + 1]}]
Alive(w, d) == {s \in Names : ~GoneBy(w, s, d)}

Config(horizon, group) ==
    [horizon |-> horizon, grid |-> "month_end", rebalance |-> "month_end", anchor |-> 4, total |-> FALSE,
     currency |-> None, group |-> group, weighting |-> "equal_weighted", vol |-> "none", window |-> None,
     minWeeks |-> None, order |-> None, cellRank |-> FALSE, overlap |-> "pooled_as_paper", lag |-> None,
     top |-> 4, middle |-> 2, bottom |-> 4, tieRule |-> "stable_sort", mode |-> "same_close", k |-> None,
     embargo |-> 1, basis |-> None]
Weekly(group) ==
    [Config("4W", group) EXCEPT !.grid = "weekly", !.rebalance = "weekly", !.overlap = "purged"]
Configs == {Config("1M", "universe"), Config("3M", "country_demeaned"),
            [Config("3M", "universe") EXCEPT !.overlap = "purged", !.lag = [n |-> 3, unit |-> "m"]],
            [Config("3M", "neutralization_cell") EXCEPT !.overlap = "purged", !.mode = "next_open", !.cellRank = TRUE]}
WeeklyConfigs ==
    {Weekly("universe"), [Weekly("country_demeaned") EXCEPT !.weighting = "cap_weighted", !.overlap = "pooled_as_paper"],
     [Weekly("sector_region_residual") EXCEPT !.vol = "rolling_std", !.window = [n |-> 3, unit |-> "w"],
        !.minWeeks = [n |-> 2, unit |-> "w"], !.order = "neutralize_first", !.mode = "t_plus_k_moc", !.k = 1]}
Gone == {None, [security |-> 2, day |-> Closing(4)], [security |-> 1, day |-> Closing(5) - 1]}
GoneInWeek == {None, [security |-> 2, day |-> 32], [security |-> 1, day |-> 40]}
Families(configs, bases) == {FromConfig(c, b) : c \in configs, b \in bases} \ {None}

-----------------------------------------------------------------------------
(* The run.  Every second month the experts are trained anew.                 *)
Roster == << [type |-> "trailing_window", periods |-> 2, strict |-> None],
             [type |-> "seasonal_same_month", years |-> 1, lagYears |-> 0,
              minHistory |-> "use_all_drop_if_none", anchor |-> None] >>
Sections ==
    [kernel |-> [type |-> "piecewise_constant", scheme |-> "equal_count", bins |-> 3, overrides |-> [us |-> 2],
                 epsilonMode |-> "one_over_n", epsilonScope |-> "h_only"],
     selection |-> [type |-> "min_z", smooth |-> FALSE, repeats |-> TRUE, adjustment |-> None],
     missingAtPredict |-> "h_zero"]
Version ==
    [kernel |-> BuildNlasr2012(Sections, "us").kernel, objective |-> BuildObjective(Sections.selection),
     rounds |-> 2, pooling |-> "equal_per_observation"]
Weighting == [weighting |-> "seasonal_rank_ic", icWindow |-> "expanding", trailingK |-> None,
              minObservations |-> 1, floor |-> 0, hedgeRule |-> None, zscore |-> "per_date_cross_sectional",
              zscoreUniverse |-> "scoring", normalization |-> "none"]

\* The trading days of a market: monthly ones, or eleven weeks with a holiday.
DaysOf(w) == IF w.spec.grid = "weekly" THEN {d \in 0 .. 72 : d % 7 < 5} \ {32} ELSE Calendar(0 .. Final + 4)
View(w, asOf) ==
    LET rows == MarketTables(w, DaysOf(w))
    IN FromPit(DaysOf(w), rows, asOf)
Built(w, asOf, decisions) ==
    BuildTrainingExamples(View(w, asOf), w.spec, asOf, decisions, [d \in decisions |-> Alive(w, d)],
                            [x \in Names \X decisions |-> x[1] % 2])

\* What a run makes of the rows known at asOf, for the months up to last.
Prepared(w, asOf, last) ==
    LET decisions == {Closing(m) : m \in 1 .. last}
        dates == {2 * d + 1 : d \in decisions}
        prices == MarketTables(w, DaysOf(w)).prices
        pit == [rows |-> [prices |-> {r \in prices : r.known <= asOf}], lags |-> [prices |-> 0]]
        built == Built(w, asOf, decisions)
    IN [records |-> built.records, grid |-> built.grid,
        panel |-> F!ComputeFeaturePanel(pit, F!BuildPipelineRegistry, "g029_price_features_v1", dates,
                                        [t \in dates |-> Alive(w, t \div 2)],
                                        "ascending_raw_higher_rank", "average_rank_stable_sort")]

Signal(m) == 2 * Closing(m) + 1

\* One run ends after the last month's windows are over; beside it are the runs
\* that had ended at each month, on the rows known by then.
Later == Final + 3
Endings == (First .. Final) \cup {Later}
Retained(records, fit) ==
    {[at |-> 2 * r.point.decision + 1, security |-> r.security, label |-> r.label,
      end |-> r.point.targetEnd, cutoff |-> 2 * r.point.decision + 1] :
       r \in {x \in records : x.point.targetEnd <= fit}}
Outcome(records, m) ==
    LET at == {r \in records : r.point.decision = Closing(m)}
    IN [returns |-> [s \in {r.security : r \in at} |-> (CHOOSE r \in at : r.security = s).raw],
        end |-> Max({0} \cup {r.point.targetEnd : r \in at})]

Month0 == [month |-> First - 1, ensemble |-> None, ledger |-> {}, scores |-> <<>>]

Trained(p, m) ==
    LET with(history) == IF history = None THEN BoostingError("unlabelled")
                         ELSE TrainEnsemble(Roster, history, Signal(m), Version)
    IN with(History(p.panel, Retained(p.records, Signal(m))))
ScoreAndRealize(p, r, m, ensemble, ranks) ==
    LET keep(scored) ==
            [month |-> m, ensemble |-> ensemble, scores |-> Append(r.scores, scored),
             ledger |-> IF scored.error # "none" THEN r.ledger
                        ELSE RealizeComponentIcs(r.ledger, {}, ensemble, ranks, Outcome(p.records, m), Signal(m))]
    IN keep(IF ensemble.error # "none" THEN ensemble
            ELSE ScoreStage(ensemble, Weighting, p.panel, ranks, r.ledger, Signal(m)))
StepRun(w, p, r, m) ==
    ScoreAndRealize(p, r, m, IF (m - First) % 2 = 0 THEN Trained(p, m) ELSE r.ensemble,
                    F!CrossSection(p.panel, Signal(m), Alive(w, Closing(m))))

-----------------------------------------------------------------------------
(* Features by themselves: two securities with some of the rows a feature     *)
(* reads, statements restated after they were first told.                     *)
Today == 1000
Bars == {[security |-> s, day |-> d, close |-> 20 + s + ((d \div 5) % 7), mcap |-> 90 + (d % 4), volume |-> 3,
          known |-> 2 * d + 1] : s \in {1, 2}, d \in {630, 960} \cup {Today - 5 * i : i \in 0 .. 7}}
Statements == {[security |-> 1, metric |-> m, period |-> v[1], vintage |-> v[2], value |-> v[3], known |-> 2 * v[4]] :
                 m \in {"BOOK_VALUE", "EPS_WAD", "TOT_ASSET"},
                 v \in {<<460, 1, 30, 505>>, <<820, 1, 50, 865>>, <<820, 2, 70, 905>>, <<910, 1, 40, 915>>}}
Estimates == {[security |-> 1, metric |-> "EPS", vintage |-> v[1], value |-> v[2], known |-> 2 * v[3]] :
                v \in {<<1, 4, 880>>, <<2, 5, 905>>, <<3, 7, 990>>, <<4, 9, 999>>}}
Stores == [rows : [prices : {Bars, {b \in Bars : b.day < Today}},
                   fundamentals : {Statements, {r \in Statements : r.vintage = 1}},
                   estimates : {Estimates, {r \in Estimates : r.vintage # 4}}],
           lags : [prices : {0, 1}, fundamentals : {0, 92}, estimates : {0, 6}]]
FeatureKeys == {F!Key(F!Library[i]) : i \in DOMAIN F!Library}

(* Boosting by itself: three observations and two factors.                    *)
Columns == {<<None, 500, 1000>>, <<500, None, 500>>}
Kernels == {[Version.kernel EXCEPT !.bins = b, !.scheme = c, !.missing = m] :
              b \in 1 .. 2, c \in {"equal_count", "equal_width"}, m \in {"h_zero", "propagate_nan"}}
Objectives == {[Version.objective EXCEPT !.repeats = r, !.adjustment = a] :
                 r \in BOOLEAN, a \in {"coverage_honest", "raw_covered_only"}}
\* The classifier as it is read back from the artifact it was kept in.
ReadBack(rounds, rowCount) ==
    Deserialize(Serialize([rounds |-> rounds, composition |-> "sum", rowCount |-> rowCount, fitAsOf |-> 0,
                           maxTargetEnd |-> None, maxKnowledge |-> None]), {"piecewise_constant"})

-----------------------------------------------------------------------------
Init ==
    /\ prep = None /\ run = None /\ feature = None /\ boosted = None
    /\ \/ world \in [seed : 1 .. 3, gone : Gone, spec : Families(Configs, {None})]
       \/ world \in [seed : 1 .. 3, gone : GoneInWeek,
                     spec : Families(WeeklyConfigs, {None, "close_to_open"})]

MakeTargets ==
    /\ prep = None /\ feature = None /\ boosted = None /\ world.spec.grid = "weekly"
    /\ \E asOf \in {2 * 41 + 1, 2 * 72} : prep' = [e \in {Later} |-> Built(world, asOf, {d \in DaysOf(world) : d >= 7})]
    /\ UNCHANGED <<world, run, feature, boosted>>

MakeTargetsAndPanel ==
    /\ prep = None /\ feature = None /\ boosted = None /\ world.spec.grid = "month_end"
    /\ prep' = [e \in Endings |-> Prepared(world, Signal(e), Min({e, Final}))]
    /\ run' = [e \in Endings |-> Month0]
    /\ UNCHANGED <<world, feature, boosted>>

ScoreMonth ==
    /\ run # None /\ run[Later].month < Final
    /\ LET m == run[Later].month + 1
       IN run' = [e \in Endings |-> IF m <= e THEN StepRun(world, prep[e], run[e], m) ELSE run[e]]
    /\ UNCHANGED <<world, prep, feature, boosted>>

\* The parts by themselves, beside the first market.
Alone == /\ prep = None /\ feature = None /\ boosted = None
         /\ world.seed = 1 /\ world.gone = None /\ world.spec = FromConfig(Config("1M", "universe"), None)
         /\ UNCHANGED <<world, prep, run>>

ComputeOne(pit, key, asOf) ==
    LET ctx == F!ContextOf(F!BuildDefaultRegistry, pit, key, asOf)
    IN F!Compute(ctx, {1, 2}, [s \in {1, 2} |-> F!Observe(ctx, s)])

ComputeFeature ==
    /\ Alone
    /\ \E pit \in Stores, key \in FeatureKeys, day \in {Today, Today - 8, Today - 90} :
         feature' = [pit |-> pit, key |-> key, asOf |-> 2 * day,
                     result |-> ComputeOne(pit, key, 2 * day)]
    /\ UNCHANGED boosted

BoostOnce ==
    /\ Alone
    /\ \E a \in [1 .. 3 -> {None, 500, 1000}], b \in Columns, labels \in [1 .. 3 -> {-1, 1}],
          kernel \in Kernels, objective \in Objectives :
         LET matrix == [factors |-> <<"a", "b">>, columns |-> [a |-> a, b |-> b], labels |-> labels]
         IN /\ ~KernelError(kernel)
            /\ boosted' = [matrix |-> matrix, objective |-> objective, result |-> Boost(matrix, kernel, objective, 2)]
    /\ UNCHANGED feature

Next == MakeTargets \/ MakeTargetsAndPanel \/ ScoreMonth \/ ComputeFeature \/ BoostOnce
Spec == Init /\ [][Next]_vars

-----------------------------------------------------------------------------
\* Returns of windows that follow one another compound to the return of both:
\* a delisting is earned once, in the window that it ends.
ReturnsCompound ==
    prep # None /\ (run = None \/ run[Later].month < First) /\ StartField(world.spec) = EndField(world.spec) =>
        LET view == View(world, 2 * Max(DaysOf(world)) + 1)
            of(s, a, b) == ForwardReturn(view, s, a, b, world.spec)
            grid == Range(prep[Later].grid)
        IN \A s \in Names, a \in grid, b \in grid, c \in grid :
             LET parts == {of(s, a, b), of(s, b, c)}
             IN a < b /\ b < c /\ (\A r \in parts \cup {of(s, a, c)} : r.why = "none") =>
                  Abs(((ReturnUnit + of(s, a, b).value) * (ReturnUnit + of(s, b, c).value)) \div ReturnUnit
                        - (ReturnUnit + of(s, a, c).value)) <= 4

\* A window is over before a later one starts.  A window that starts at a close
\* and ends at an open goes on through the night after its last close, in which
\* the later one may start; no session is in both.
OverBefore(spec, days, p, q) ==
    \/ p.targetEnd <= q.targetStart
    \/ spec.basis = "close_to_open" /\ \A d \in days : ~ (q.start < d /\ d < p.end)

\* Records that are called clean share no session with the window of another:
\* what purging keeps does not overlap, in instants and not only in grid steps,
\* but for the one night that windows from a close to an open may share, although
\* the overlap accounting has them tile the timeline (targets/overlap.py).
CleanWindowsApart ==
    prep # None =>
        \A r, q \in prep[Later].records :
            r.overlap.status = "clean" /\ r.point.index < q.point.index =>
                OverBefore(world.spec, DaysOf(world), r.point, q.point)

\* No score of a month looks ahead: the run that had ended that month, on the
\* rows known by then, gives the same scores in it.
NoLookAhead ==
    run # None =>
        \A m \in First .. Final :
            LET months == Min({m, run[Later].month}) - First + 1
            IN SubSeq(run[m].scores, 1, months) = SubSeq(run[Later].scores, 1, months)

\* A feature's stamp is late enough: the rows that were usable by then, under
\* the lag of the store and of the feature, give the same values; and it is not
\* later than the time of computation.
FeatureStampHolds ==
    feature # None /\ feature.result.rows # {} =>
        LET spec == F!BuildDefaultRegistry.specs[feature.key]
            stamp == Max({r.known : r \in feature.result.rows})
            lag(t) == F!EffectiveLag(feature.pit, t, IF t = "prices" THEN None ELSE spec.lag)
            usable == [t \in DOMAIN feature.pit.rows |->
                         {r \in feature.pit.rows[t] : r.known + 2 * lag(t) <= stamp}]
            again == ComputeOne([feature.pit EXCEPT !.rows = usable], feature.key, feature.asOf)
            values(result) == {<<r.security, r.value, r.observed>> : r \in result.rows}
        IN values(again) = values(feature.result) /\ stamp <= feature.asOf

\* A round never makes the classifier worse on what it was trained on, as it is
\* read back: the mass of the weights does not grow before it is normalised, and
\* it is not below twice the score the factor was chosen by.
LossNeverGrows ==
    boosted # None /\ boosted.result.error \in {"none", "no_candidate"} /\ boosted.result.rounds # <<>> =>
        \E r \in {boosted.result}, kept \in {ReadBack(boosted.result.rounds, Len(boosted.matrix.labels))} :
          \A l \in DOMAIN r.rounds :
             LET column == boosted.matrix.columns[r.selected[l]]
                 mass == Total(ExpReweight(r.trace[l], boosted.matrix.labels,
                                           [i \in DOMAIN column |-> Predict(kept.rounds[l], column[i])]))
             IN mass <= Total(r.trace[l]) /\ 2 * r.scores[l] <= mass + 8
=============================================================================

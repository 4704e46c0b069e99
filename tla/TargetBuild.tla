----------------------------- MODULE TargetBuild -----------------------------
(* One target family (targets/spec.py) and the build of its training examples *)
(* over a window of decision days (targets/engine.py).                        *)
EXTENDS TargetMarket

HorizonFamily == [h \in {"1M", "3M", "1W", "4W"} |->
    CASE h = "1M" -> [grid |-> "month_end", steps |-> 1] [] h = "3M" -> [grid |-> "month_end", steps |-> 3]
      [] h = "1W" -> [grid |-> "weekly", steps |-> 1] [] h = "4W" -> [grid |-> "weekly", steps |-> 4]]
ExecutionField(mode) == IF mode = "next_open" THEN "open" ELSE "close"
DefaultBasis(mode) == IF mode = "next_open" THEN "open_to_close" ELSE "close_to_close"

Refused(spec) ==
    \/ HorizonFamily[spec.horizon].grid # spec.grid
    \/ spec.grid = "weekly" /\ spec.anchor \notin 0 .. 4
    \/ spec.top + spec.middle + spec.bottom # 10
    \/ ~({spec.top, spec.bottom} \subseteq 1 .. 9)
    \/ spec.tieRule # "stable_sort"
    \/ spec.vol = "rolling_std" /\ (\/ spec.grid # "weekly" \/ None \in {spec.window, spec.minWeeks}
                                    \/ spec.minWeeks < 2
                                    \/ spec.group = "sector_region_residual" /\ spec.order = None)
    \/ spec.cellRank /\ spec.group # "neutralization_cell"
    \/ spec.group = "country_demeaned" /\ spec.weighting = None
    \/ IF spec.mode = "t_plus_k_moc" THEN spec.k = None \/ spec.k < 1 ELSE spec.k # None
    \/ StartField(spec) # ExecutionField(spec.mode)
    \/ spec.embargo < 0
    \/ spec.lag # None /\ spec.lag < 0

\* A lag or a window is a count with the unit it was written in: "w" or "m".
BadCount(count, unit) == count # None /\ (count.unit # unit \/ (unit = "w" /\ count.n < 2))
Counted(count) == IF count = None THEN None ELSE count.n

\* The family a version's sections ask for, or None when they are refused.
FromConfig(config, basis) ==
    LET unit == IF config.grid = "month_end" THEN "m" ELSE "w"
        spec == [config EXCEPT !.lag = Counted(@), !.window = Counted(@), !.minWeeks = Counted(@),
                               !.basis = IF basis = None THEN DefaultBasis(config.mode) ELSE basis]
    IN IF \/ config.rebalance # config.grid
          \/ BadCount(config.lag, unit) \/ BadCount(config.window, "w") \/ BadCount(config.minWeeks, "w")
          \/ Refused(spec)
       THEN None
       ELSE spec

Steps(spec) == HorizonFamily[spec.horizon].steps
ExecutionDayShift(spec) ==
    CASE spec.mode = "same_close" -> 0 [] spec.mode = "t_plus_k_moc" -> spec.k [] OTHER -> 1

-----------------------------------------------------------------------------
\* The window of the grid point at an index, or None when the calendar ends.
PointTiming(spec, days, grid, i) ==
    LET h == Steps(spec)
        shift(d) == IF d = None THEN None ELSE ShiftTradingDays(days, d, ExecutionDayShift(spec))
        end == IF StartField(spec) = EndField(spec) THEN shift(grid[i + h])
               ELSE IF spec.basis = "open_to_close" THEN grid[i + h]
               ELSE IF shift(grid[i + h]) = None THEN None
               ELSE ShiftTradingDays(days, shift(grid[i + h]), 1)
    IN IF i + h > Len(grid) THEN None
       ELSE IF None \in {shift(grid[i]), shift(grid[i + 1]), end} THEN None
       ELSE [index |-> i, decision |-> grid[i], start |-> shift(grid[i]), end |-> end,
             targetStart |-> Instant(shift(grid[i]), StartField(spec)),
             targetEnd |-> Instant(end, EndField(spec)),
             holdingEnd |-> Instant(shift(grid[i + 1]), StartField(spec))]

Skip(day, s, reason) == [day |-> day, security |-> s, reason |-> reason]

\* The records and skips of one grid point, from the outcome and the volatility
\* of each member.
GridPointRows(view, spec, point, overlap, members, group, outcome, vol) ==
    LET caps == [s \in DOMAIN vol |-> LookUp(view.cap, <<s, point.decision>>)]
        barred == [s \in DOMAIN vol |->
                     IF vol[s].why # "none" THEN vol[s].why
                     ELSE IF spec.weighting = "cap_weighted" /\ caps[s] = None THEN "missing_market_cap"
                     ELSE "none"]
        eligible == {s \in DOMAIN vol : barred[s] = "none"}
        stage == LabelStage(spec, [s \in eligible |-> outcome[s].value], [s \in eligible |-> group[s]],
                            [s \in eligible |-> vol[s].sigma], [s \in eligible |-> caps[s]])
        record(s, staged) ==
            [security |-> s, point |-> point, raw |-> outcome[s].value, delisted |-> outcome[s].delisted,
             group |-> group[s], ineligible |-> barred[s], label |-> IF s \in eligible THEN staged.labels[s] ELSE 0,
             transformed |-> LookUp(staged.transformed, s), overlap |-> overlap]
        records(staged) == {record(s, staged) : s \in DOMAIN vol}
    IN [records |-> records(stage),
        skips |-> IF members = {} THEN {Skip(point.decision, None, "empty_universe")}
                  ELSE {Skip(point.decision, s, outcome[s].why) : s \in members \ DOMAIN vol}]

BuildGridPoint(view, spec, point, grid, members, groupOf, overlap) ==
    LET group == [s \in members |-> IF spec.group = "universe" THEN "all" ELSE groupOf[<<s, point.decision>>]]
        outcomes == [s \in members |-> IF group[s] = None THEN Failure("missing_group")
                                       ELSE ForwardReturn(view, s, point.start, point.end, spec)]
        weekly == IF spec.grid = "weekly" THEN grid ELSE <<>>
        vol(s) == IF spec.vol = "none" THEN [why |-> "none", sigma |-> 1]
                  ELSE WeeklyVolatility(view, s, weekly, point.index, spec)
        rows(outcome) ==
            GridPointRows(view, spec, point, overlap, members, group, outcome,
                          [s \in {r \in members : outcome[r].why = "none"} |-> vol(s)])
    IN rows(outcomes)

\* Why a grid point in the window makes no examples, or "none".
WhyNotBuilt(spec, point, i, grid, asOf) ==
    IF point = None THEN "calendar_exhausted"
    ELSE IF point.targetEnd > asOf THEN "unrealized_window"
    ELSE IF spec.lag # None /\ i + spec.lag > GridIndexAtOrBefore(grid, asOf \div 2)
      THEN "training_lag_excluded"
    ELSE "none"

Examples(built, grid, why, retained) ==
    LET candidates == {i \in DOMAIN why : why[i] = "none"}
    IN [records |-> UNION {built[i].records : i \in retained},
        skips |-> UNION {built[i].skips : i \in retained}
                    \cup {Skip(grid[i], None, why[i]) : i \in DOMAIN why \ candidates}
                    \cup {Skip(grid[i], None, "overlap_purged") : i \in candidates \ retained},
        grid |-> grid,
        emitted |-> {grid[i] : i \in {j \in retained : built[j].records # {}}}]

BuildRetained(view, spec, universe, groupOf, grid, point, why, retained) ==
    Examples([i \in retained |->
                BuildGridPoint(view, spec, point[i], grid, universe[point[i].decision], groupOf,
                               OverlapMetadata(i, Steps(spec), retained, spec.overlap, spec.embargo))],
             grid, why, retained)

BuildOnGrid(view, spec, asOf, universe, groupOf, grid, point) ==
    LET why == [i \in DOMAIN point |-> WhyNotBuilt(spec, point[i], i, grid, asOf)]
        candidates == {i \in DOMAIN why : why[i] = "none"}
    IN BuildRetained(view, spec, universe, groupOf, grid, point, why,
                     IF spec.overlap = "purged" THEN PurgedRetention(candidates, Steps(spec)) ELSE candidates)

BuildTrainingExamples(view, spec, asOf, window, universe, groupOf) ==
    LET on(grid) == BuildOnGrid(view, spec, asOf, universe, groupOf, grid,
                                [i \in {j \in DOMAIN grid : grid[j] \in window} |->
                                   PointTiming(spec, view.days, grid, i)])
    IN on(RebalanceGrid(spec.grid, view.days, spec.anchor))
=============================================================================

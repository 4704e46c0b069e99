------------------------------ MODULE Boosting ------------------------------
(* The boosting loop (models/boosting.py), the hard-bin kernel of the 2012    *)
(* model (nlasr/kernel.py) and its selection objective (selection.py).        *)
(*                                                                            *)
(* An observation is a number; a rank is in 1 .. RankUnit or None for a       *)
(* missing one; weights, masses and h are counted in 1/Unit.  The value of a  *)
(* bin is ln(pos / neg) / 2, and is kept as the odds <<pos, neg>>: the        *)
(* exponential of it is their root, and it is itself the area tangent of      *)
(* (pos - neg) / (pos + neg).                                                 *)
EXTENDS Figures

CONSTANTS Unit, RankUnit

BoostingError(reason) == [error |-> reason]
Missing(column) == {i \in DOMAIN column : column[i] = None}
CoveredRows(column) == DOMAIN column \ Missing(column)

-----------------------------------------------------------------------------
(* The kernel.  A kernel is [bins, scheme, epsilonMode, fixed, missing].      *)
KernelError(kernel) ==
    \/ kernel.bins < 2
    \/ IF kernel.epsilonMode = "fixed" THEN kernel.fixed = None \/ kernel.fixed <= 0 ELSE kernel.fixed # None

\* The edges between the bins: the last rank of each share of the observations,
\* or equal parts of the domain.
EqualCountEdges(ranks, q) ==
    LET n == Len(ranks)
        sorted == SortSeq(ranks, LAMBDA x, y : x < y)
    IN [j \in 1 .. q - 1 |-> sorted[(j * n + q - 1) \div q]]
EqualWidthEdges(q) == [j \in 1 .. q - 1 |-> (j * RankUnit) \div q]

\* The bin of a rank: an edge belongs to the bin below it.
Bin(edges, rank) == 1 + Cardinality({j \in DOMAIN edges : edges[j] < rank})

\* Epsilon is one labelled observation's share, whether or not it is covered.
Epsilon(kernel, labels) ==
    IF kernel.epsilonMode = "fixed" THEN kernel.fixed ELSE Unit \div Cardinality(DOMAIN labels)

\* The value of each bin, as odds.
Odds(pos, neg, epsilon) == [j \in DOMAIN pos |-> <<pos[j] + epsilon, neg[j] + epsilon>>]

FitFactor(kernel, id, column, labels, weights) ==
    LET covered == CoveredRows(column)
        rows == InOrder(covered, LAMBDA i, k : i < k)
        edges == IF kernel.scheme = "equal_count"
                 THEN EqualCountEdges([n \in DOMAIN rows |-> column[rows[n]]], kernel.bins)
                 ELSE EqualWidthEdges(kernel.bins)
        mass(y) == [j \in 1 .. kernel.bins |->
                      SumOver(weights, {i \in covered : labels[i] = y /\ Bin(edges, column[i]) = j})]
    IN IF covered = {} THEN BoostingError("zero_covered")
       ELSE [error |-> "none", id |-> id, edges |-> edges, pos |-> mass(1), neg |-> mass(-1),
             values |-> Odds(mass(1), mass(-1), Epsilon(kernel, labels)),
             epsilon |-> Epsilon(kernel, labels), missing |-> kernel.missing]

\* What a fitted factor says of a rank, as odds: nothing of a missing one, or
\* no number at all.
Predict(fit, rank) ==
    IF rank # None THEN fit.values[Bin(fit.edges, rank)]
    ELSE IF fit.missing = "h_zero" THEN <<1, 1>> ELSE None

\* ln(pos / neg) / 2, by its series.
HalfLog(odds) ==
    LET z == (Unit * (odds[1] - odds[2])) \div (odds[1] + odds[2])
        terms == FoldLeft(LAMBDA t, n : [p |-> (((t.p * z) \div Unit) * z) \div Unit,
                                         sum |-> t.sum + t.p \div n],
                          [p |-> z, sum |-> 0], <<1, 3, 5, 7, 9, 11>>)
    IN terms.sum

\* The version's leaves: the region may have a bin count of its own, and the two
\* leaves that say whether Z is smoothed must agree.
KernelFromConfig(config, missing, region) ==
    IF config.epsilonMode = "fixed" THEN BoostingError("fixed_has_no_value")
    ELSE [error |-> "none", scheme |-> config.scheme, epsilonMode |-> config.epsilonMode, fixed |-> None,
          missing |-> missing,
          bins |-> IF region \in DOMAIN config.overrides THEN config.overrides[region] ELSE config.bins]

BuildNlasr2012(version, region) ==
    IF version.kernel.type # "piecewise_constant" THEN BoostingError("other_kernel")
    ELSE IF version.selection.type # "min_z" THEN BoostingError("other_selection")
    ELSE IF version.selection.smooth # (version.kernel.epsilonScope = "h_and_z")
      THEN BoostingError("epsilon_scopes_disagree")
    ELSE IF version.missingAtPredict \notin {"h_zero", "propagate_nan"} THEN BoostingError("missing_policy")
    ELSE [kernel |-> KernelFromConfig(version.kernel, version.missingAtPredict, region),
          error |-> "none"]

-----------------------------------------------------------------------------
(* The objective.  An objective is [smooth, repeats, adjustment].             *)
ZStatistic(fit, epsilon) ==
    LET term == [j \in DOMAIN fit.pos |-> Root((fit.pos[j] + epsilon) * (fit.neg[j] + epsilon))]
    IN Total(term)

\* A factor answers for half of the weight it does not cover.
ScoreFactor(objective, fit, column, weights) ==
    LET z == ZStatistic(fit, IF objective.smooth THEN fit.epsilon ELSE 0)
    IN IF objective.adjustment = "raw_covered_only" THEN z
       ELSE z + SumOver(weights, Missing(column)) \div 2

BuildObjective(selection) ==
    IF selection.type # "min_z" THEN BoostingError("not_built_here")
    ELSE [error |-> "none", smooth |-> selection.smooth, repeats |-> selection.repeats,
          adjustment |-> IF selection.adjustment = None THEN "coverage_honest" ELSE selection.adjustment]

-----------------------------------------------------------------------------
(* The loop.  A matrix is the factors in order, a column of ranks for each,   *)
(* and a label for every observation.  This kernel never asks the loop to     *)
(* stop or to skip a factor.                                                  *)
MatrixError(matrix) ==
    \/ matrix.factors = <<>> \/ ~IsInjective(matrix.factors)
    \/ DOMAIN matrix.columns # Range(matrix.factors)
    \/ DOMAIN matrix.labels = {}
    \/ \E f \in DOMAIN matrix.columns : DOMAIN matrix.columns[f] # DOMAIN matrix.labels
    \/ ~(Range(matrix.labels) \subseteq {-1, 1})
    \/ \E f \in DOMAIN matrix.columns :
         ~(Range(matrix.columns[f]) \subseteq (1 .. RankUnit) \cup {None})

\* Mutant of ExpReweight: the observations that were right gain weight.
ReweightRight(weights, labels, h) ==
    [i \in DOMAIN weights |->
        LET odds == IF labels[i] = 1 THEN h[i] ELSE <<h[i][2], h[i][1]>>
        IN Root((weights[i] * weights[i] * odds[1]) \div odds[2])]

\* The weights times exp(-y h), not yet normalised.
ExpReweight(weights, labels, h) ==
    [i \in DOMAIN weights |->
        LET odds == IF labels[i] = 1 THEN h[i] ELSE <<h[i][2], h[i][1]>>
        IN Root((weights[i] * weights[i] * odds[2]) \div odds[1])]

\* No weight is rounded away: all stay positive.
Renormalize(weights) == [i \in DOMAIN weights |-> Max({1, (Unit * weights[i]) \div Total(weights)})]

\* The first candidate whose score is beaten by none.
Best(scored) ==
    LET least == Min({c.score : c \in Range(scored)})
    IN SelectInSeq(scored, LAMBDA c : c.score = least)

\* The factor chosen joins the classifier, and the weight moves to what it got
\* wrong.  The weights of every round are kept.
Chosen(state, best, weights) ==
    [error |-> "none", weights |-> weights, rounds |-> Append(state.rounds, best.fit),
     selected |-> Append(state.selected, best.fit.id), scores |-> Append(state.scores, best.score),
     trace |-> Append(state.trace, weights)]

Fail(state, reason) == [state EXCEPT !.error = reason]
Step(state, best, h, labels) ==
    IF None \in Range(h) THEN Fail(state, "not_finite")
    ELSE Chosen(state, best, Renormalize(ExpReweight(state.weights, labels, h)))

PredictColumn(fit, column) == [i \in DOMAIN column |-> Predict(fit, column[i])]
Choose(state, objective, matrix, fits) ==
    LET scored == [n \in DOMAIN fits |->
                     [fit |-> fits[n],
                      score |-> ScoreFactor(objective, fits[n], matrix.columns[fits[n].id], state.weights)]]
    IN scored[Best(scored)]

\* One round: fit every factor that may still be chosen, and keep the best.
BoostRound(state, kernel, objective, matrix) ==
    LET eligible == SelectSeq(matrix.factors, LAMBDA f : objective.repeats \/ f \notin Range(state.selected))
        keep(best) == Step(state, best, PredictColumn(best.fit, matrix.columns[best.fit.id]), matrix.labels)
        judge(fits) ==
            IF \E n \in DOMAIN fits : fits[n].error # "none" THEN Fail(state, "zero_covered")
            ELSE IF fits = <<>> THEN Fail(state, "no_candidate")
            ELSE keep(Choose(state, objective, matrix, fits))
    IN IF state.error # "none" THEN state
       ELSE judge([n \in DOMAIN eligible |->
                     FitFactor(kernel, eligible[n], matrix.columns[eligible[n]], matrix.labels, state.weights)])

Boost(matrix, kernel, objective, nRounds) ==
    LET uniform == [i \in DOMAIN matrix.labels |-> Unit \div Cardinality(DOMAIN matrix.labels)]
        start == [error |-> "none", rounds |-> <<>>, selected |-> <<>>, scores |-> <<>>,
                  weights |-> uniform, trace |-> <<uniform>>]
    IN IF MatrixError(matrix) THEN BoostingError("matrix")
       ELSE IF nRounds <= 0 THEN BoostingError("no_rounds")
       ELSE FoldLeft(LAMBDA state, l : BoostRound(state, kernel, objective, matrix), start,
                     [l \in 1 .. nRounds |-> l])

-----------------------------------------------------------------------------
(* The strong classifier and the artifact it is kept in.                      *)

\* H of one row of ranks by factor: a number, or None when a rank has none.
PredictBoosted(rounds, row) ==
    LET odds == [l \in DOMAIN rounds |-> Predict(rounds[l], row[rounds[l].id])]
    IN IF None \in Range(odds) THEN None ELSE SumAlong(HalfLog, odds)
MissingColumns(rounds, factors) == {rounds[l].id : l \in DOMAIN rounds} \ factors

\* What a model may know is bounded by the time it was fit.
FittedModelError(m) ==
    \/ m.rowCount <= 0
    \/ \E bound \in {m.maxKnowledge, m.maxTargetEnd} :
         bound # None /\ (m.fitAsOf = None \/ bound > m.fitAsOf)

SerializeRound(fit) ==
    [kind |-> "piecewise_constant", id |-> fit.id, edges |-> fit.edges, pos |-> fit.pos, neg |-> fit.neg,
     values |-> fit.values, epsilon |-> fit.epsilon, missing |-> fit.missing]
DecodeRound(entry) ==
    [error |-> "none", id |-> entry.id, edges |-> entry.edges, pos |-> entry.pos, neg |-> entry.neg,
     values |-> entry.values, epsilon |-> entry.epsilon, missing |-> entry.missing]

Serialize(m) == [m EXCEPT !.rounds = [l \in DOMAIN @ |-> SerializeRound(@[l])]]
Deserialize(payload, kinds) ==
    IF \/ \E l \in DOMAIN payload.rounds : payload.rounds[l].kind \notin kinds
       \/ payload.composition \notin {"sum", "average_linear_forecasts"}
       \/ FittedModelError(payload)
    THEN BoostingError("payload")
    ELSE [payload EXCEPT !.rounds = [l \in DOMAIN @ |-> DecodeRound(@[l])]]
=============================================================================

------------------------------- MODULE Level3 -------------------------------
(* The constrained optimizer of src/lasr/portfolio/level3_*.py.  The solver   *)
(* itself is scipy's: here it may answer any point of the split program,      *)
(* long part u and short part v of every name, or fail.  What the module      *)
(* states is the program it is given, the conflicts found before it runs and  *)
(* the checks of the book it answers.  Weights are whole units and the        *)
(* tolerances, which cover the solver's rounding, are zero.                   *)
EXTENDS Figures, Functions

Lesser(a, b) == IF a = None \/ b <= a THEN b ELSE a
Within(value, bound) == bound # None => value <= bound

\* A configuration holds the constraints cons and the optional sections risk,
\* costs and aversion.
ConfigError(config) ==
    \/ Abs(config.cons.net) > config.cons.gross
    \/ config.cons.vol # None /\ config.risk = None
    \/ config.aversion # None /\ config.risk = None

-----------------------------------------------------------------------------
\* Sample covariance shrunk towards its diagonal by delta percent, times
\* 100 T(T-1) for the T returns of each name.
Covariance(returns, delta) ==
    LET T == Len(returns[CHOOSE s \in DOMAIN returns : TRUE])
        cross(r, q) == T * Total([i \in 1 .. T |-> returns[r][i] * returns[q][i]])
                       - Total(returns[r]) * Total(returns[q])
    IN [p \in (DOMAIN returns) \X (DOMAIN returns) |->
          (IF p[1] = p[2] THEN 100 ELSE 100 - delta) * cross(p[1], p[2])]

RiskInputError(returns, delta) ==
    \/ DOMAIN returns = {} \/ delta \notin 0 .. 100
    \/ \E s, r \in DOMAIN returns : Len(returns[s]) # Len(returns[r])
    \/ \E s \in DOMAIN returns : Len(returns[s]) < 2

Variance(sigma, w) ==
    Total([p \in (DOMAIN w) \X (DOMAIN w) |-> w[p[1]] * sigma[p] * w[p[2]]])

\* A covariance with a direction of no variance is refused: a cap on the
\* variance says nothing along it.
FullRank(sigma, ids, reach) ==
    \A x \in [ids -> -reach .. reach] : (\E s \in ids : x[s] # 0) => Variance(sigma, x) > 0

-----------------------------------------------------------------------------
\* The prepared problem: names that left the universe are closed whatever the
\* solver does, a name hard to borrow has no short part, and the trade of a name
\* is bounded by its volume.
Prepare(alpha, config, prev, attr, nav, model) ==
    LET ids == DOMAIN alpha IN
    [ids |-> ids, config |-> config, cons |-> config.cons, attr |-> attr, nav |-> nav,
     alpha |-> alpha, model |-> model,
     sigma |-> IF model = None THEN None ELSE Covariance(model.returns, model.delta),
     prev |-> [s \in ids |-> Weight(prev, s)],
     exits |-> [s \in {x \in DOMAIN prev \ ids : prev[x] # 0} |-> prev[s]],
     shortable |-> {s \in ids : ~attr[s].hard}]

TradeCap(p, s) == (p.attr[s].adv * p.cons.adv) \div p.nav
ExitsTwoWay(p) == Total([s \in DOMAIN p.exits |-> Abs(p.exits[s])])
Groups(p, kind) == {p.attr[s][kind] : s \in p.ids}
Limit(p, kind) == IF kind = "sector" THEN p.cons.sector ELSE p.cons.country

\* The model supplied is the one the configuration declares, or there is none.
ModelMatches(p) ==
    IF p.config.risk = None THEN p.model = None
    ELSE /\ p.model # None
         /\ p.model.substitute
         /\ p.model.periods = p.config.risk.periods
         /\ p.model.delta = p.config.risk.delta

PrepareErrors(p, reach) ==
    LET lacks(bound, field, S) == bound # None /\ \E s \in S : p.attr[s][field] = None
        needsRank == p.cons.vol # None \/ p.config.aversion # None
    IN IF p.ids = {} THEN "config"
       ELSE IF \/ lacks(p.cons.beta, "beta", p.ids) \/ lacks(p.cons.sector, "sector", p.ids)
               \/ lacks(p.cons.country, "country", p.ids)
            THEN "missing attribute"
       ELSE IF p.cons.adv # None /\ (p.nav = None \/ p.nav <= 0) THEN "config"
       ELSE IF lacks(p.cons.adv, "adv", p.ids \cup DOMAIN p.exits) THEN "missing attribute"
       ELSE IF p.cons.adv # None /\ \E s \in DOMAIN p.exits : Abs(p.exits[s]) > TradeCap(p, s)
            THEN "infeasible"
       ELSE IF ~ModelMatches(p) THEN "config"
       ELSE IF p.model # None /\ ~(p.ids \subseteq DOMAIN p.model.returns) THEN "risk input"
       ELSE IF needsRank /\ ~FullRank(p.sigma, p.ids, reach) THEN "risk input"
       ELSE "none"

\* Twice what each side must hold; in "upper bound" mode only the net is due.
LongRequired(p) == IF p.cons.equality THEN p.cons.gross + p.cons.net
                   ELSE IF p.cons.net > 0 THEN 2 * p.cons.net ELSE 0
ShortRequired(p) == IF p.cons.equality THEN p.cons.gross - p.cons.net
                    ELSE IF p.cons.net < 0 THEN -2 * p.cons.net ELSE 0

\* A mutant: the moves of the gross and of the net are added.
LeastTwoWaySummed(p) ==
    ExitsTwoWay(p) + Abs(p.cons.gross - Total([s \in p.ids |-> Abs(p.prev[s])]))
    + Abs(p.cons.net - Total(p.prev))

\* Twice the least one-way turnover that reaches the targets.
LeastTwoWay(p) ==
    LET gross == Total([s \in p.ids |-> Abs(p.prev[s])])
        grossMove == IF p.cons.equality THEN Abs(p.cons.gross - gross)
                     ELSE IF gross > p.cons.gross THEN gross - p.cons.gross ELSE 0
    IN ExitsTwoWay(p) + Max({grossMove, Abs(p.cons.net - Total(p.prev))})

ReachableGross(p) ==
    Total([s \in p.ids |-> Lesser(p.cons.cap, TradeCap(p, s) + Abs(p.prev[s]))])

StaticConflicts(p) ==
    LET cons == p.cons
        holds(side, required) == cons.cap # None => 2 * Cardinality(side) * cons.cap >= required
        conflict(name, found) == IF found THEN {name} ELSE {}
    IN conflict("cap, long side", ~holds(p.ids, LongRequired(p)))
       \cup conflict("borrow, short side",
                     ShortRequired(p) > 0 /\ (p.shortable = {} \/ ~holds(p.shortable, ShortRequired(p))))
       \cup conflict("turnover", cons.turnover # None /\ 2 * cons.turnover < LeastTwoWay(p))
       \cup conflict("adv", cons.adv # None /\ cons.equality /\ ReachableGross(p) < cons.gross)
       \cup conflict("group net",
                     \E kind \in {"sector", "country"} :
                        /\ Limit(p, kind) # None
                        /\ Abs(cons.net) > Limit(p, kind) * Cardinality(Groups(p, kind)))

-----------------------------------------------------------------------------
Moved(p, w) == [s \in p.ids |-> Abs(w[s] - p.prev[s])]
TwoWay(p, w) == Total(Moved(p, w)) + ExitsTwoWay(p)
Exposure(p, w) == Total([s \in p.ids |-> p.attr[s].beta * w[s]])
GroupNet(p, w, kind, g) == Total([s \in {x \in p.ids : p.attr[x][kind] = g} |-> w[s]])
GroupsKept(p, w) ==
    \A kind \in {"sector", "country"} : \A g \in Groups(p, kind) :
        Within(Abs(GroupNet(p, w, kind, g)), Limit(p, kind))
VolKept(p, w) == p.cons.vol # None => p.model.periods * Variance(p.sigma, w) <= p.cons.vol

\* The program given to the solver, over the split x = [u, v].
Bound(p) == Lesser(p.cons.cap, p.cons.gross)
Collapsed(x) == [s \in DOMAIN x.u |-> x.u[s] - x.v[s]]
InProgram(p, x) ==
    LET w == Collapsed(x) split == Total(x.u) + Total(x.v) IN
    /\ \A s \in p.ids : /\ x.u[s] \in 0 .. Bound(p)
                        /\ x.v[s] \in 0 .. (IF s \in p.shortable THEN Bound(p) ELSE 0)
    /\ Total(w) = p.cons.net
    /\ IF p.cons.equality THEN split = p.cons.gross ELSE split <= p.cons.gross
    /\ p.cons.adv # None => \A s \in p.ids : Moved(p, w)[s] <= TradeCap(p, s)
    /\ p.cons.turnover # None => TwoWay(p, w) <= 2 * p.cons.turnover
    /\ p.cons.beta # None => Exposure(p, w) \in -p.cons.beta .. p.cons.beta
    /\ GroupsKept(p, w)
    /\ VolKept(p, w)

\* A gross met only by long and short of the same name is no gross.
Wash(p, x) ==
    /\ p.cons.equality
    /\ \E s \in p.ids : x.u[s] > 0 /\ x.v[s] > 0
    /\ Total([s \in p.ids |-> Abs(Collapsed(x)[s])]) < p.cons.gross

\* The constraints checked once more on the collapsed book, by name.
Violations(p, w) ==
    LET cons == p.cons
        gross == Total([s \in p.ids |-> Abs(w[s])])
        broken(name, ok) == IF ok THEN {} ELSE {name}
    IN broken("gross", IF cons.equality THEN gross = cons.gross ELSE gross <= cons.gross)
       \cup broken("net", Total(w) = cons.net)
       \cup broken("position", \A s \in p.ids : Within(Abs(w[s]), cons.cap))
       \cup broken("beta", cons.beta # None => Abs(Exposure(p, w)) <= cons.beta)
       \cup broken("groups", GroupsKept(p, w))
       \cup broken("turnover", cons.turnover # None => TwoWay(p, w) <= 2 * cons.turnover)
       \cup broken("adv", cons.adv # None => \A s \in p.ids : Moved(p, w)[s] <= TradeCap(p, s))
       \cup broken("volatility", VolKept(p, w))
       \cup broken("borrow", \A s \in p.ids \ p.shortable : w[s] >= 0)

\* The constraints that bind, named when a gross is met only by a wash.
ActiveInequalities(p, w) ==
    LET binds(name, slack) == IF slack <= 0 THEN {name} ELSE {} IN
    (IF p.cons.cap = None THEN {}
     ELSE binds("cap", p.cons.cap - Max({Abs(w[s]) : s \in p.ids})))
    \cup (IF p.cons.turnover = None THEN {} ELSE binds("turnover", 2 * p.cons.turnover - TwoWay(p, w)))
    \cup (IF p.cons.adv = None THEN {}
          ELSE binds("adv", Min({TradeCap(p, s) - Moved(p, w)[s] : s \in p.ids})))
    \cup (IF p.cons.beta = None THEN {} ELSE binds("beta", p.cons.beta - Abs(Exposure(p, w))))
    \cup (IF p.cons.vol = None THEN {} ELSE binds("volatility", p.cons.vol - p.model.periods * Variance(p.sigma, w)))

\* What the build answers when the solver ends with `converged' at x.
Build(p, reach, converged, x) ==
    LET w == Collapsed(x)
        refused(error) == [error |-> error, weights |-> <<>>]
    IN IF PrepareErrors(p, reach) # "none" THEN refused(PrepareErrors(p, reach))
       ELSE IF StaticConflicts(p) # {} \/ ~converged \/ Wash(p, x) THEN refused("infeasible")
       ELSE IF Violations(p, w) # {} THEN refused("optimization failed")
       ELSE [error |-> "none", weights |-> Restrict(w, {s \in p.ids : w[s] # 0})]

-----------------------------------------------------------------------------
=============================================================================

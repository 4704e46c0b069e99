---------------------------- MODULE Construction ----------------------------
(* The two closed-form books of src/lasr/portfolio: the equal-weight          *)
(* fractile book (level 1) and the signal-weighted book with its residuals    *)
(* and position caps (level 2).  Ids are numbers, their order the order of    *)
(* the code's strings.  Weights are whole units of value; a quotient rounds   *)
(* towards minus infinity, where the code rounds a float.                     *)
EXTENDS Figures, Functions

\* A construction answers a book, or the error it refuses with.
Refused(error) == [error |-> error, weights |-> <<>>]
Answered(book) == [error |-> "none", weights |-> book]
NonZero(book) == Restrict(book, {s \in DOMAIN book : book[s] # 0})
Portfolio(book) ==
    IF \E s \in DOMAIN book : book[s] = 0 THEN Refused("zero weight") ELSE Answered(book)
Gross(book) == Total([s \in DOMAIN book |-> Abs(book[s])])
Net(book) == Total(book)

\* How many names stand before s in ascending (value, id) order.
StableRank(values, s) ==
    Cardinality({r \in DOMAIN values : \/ values[r] < values[s]
                                       \/ values[r] = values[s] /\ r < s})

AssignFractiles(scores, k) ==
    [s \in DOMAIN scores |-> (StableRank(scores, s) * k) \div Cardinality(DOMAIN scores)]

FractileErrors(scores, k) ==
    IF k < 2 THEN "config"
    ELSE IF Cardinality(DOMAIN scores) < k THEN "universe too small" ELSE "none"

Leg(scores, k, bin) == {s \in DOMAIN scores : AssignFractiles(scores, k)[s] = bin}
Top(scores, k) == Leg(scores, k, k - 1)
Bottom(scores, k) == Leg(scores, k, 0)

\* The version's portfolio section: the fractile count of the region's key.
FromConfig(config, mapping, key) ==
    LET bad == \/ config.mapping # mapping
               \/ key \notin DOMAIN config.fractiles
               \/ mapping = "fractile_ls" /\ config.weighting # "equal"
               \/ mapping = "signal_weighted" /\ config.scaling \notin {"absent", "dollar_neutral"}
    IN IF bad THEN [error |-> "config", k |-> 0]
       ELSE [error |-> "none", k |-> config.fractiles[key]]

BuildSimple(scores, k, half) ==
    LET top == Top(scores, k) bottom == Bottom(scores, k) IN
    IF FractileErrors(scores, k) # "none" THEN Refused(FractileErrors(scores, k))
    ELSE Portfolio([s \in top \cup bottom |->
             IF s \in top THEN half \div Cardinality(top)
                          ELSE -(half \div Cardinality(bottom))])

-----------------------------------------------------------------------------
\* A score of the names of ids as a fraction: of[s] / den, den > 0.
Centered(values, ids) ==
    [den |-> Cardinality(ids),
     of |-> [s \in ids |-> Cardinality(ids) * values[s] - SumOver(values, ids)]]

\* What the least-squares line score ~ beta leaves over; with one beta for all
\* there is no slope, and the centred score is the answer.
Residuals(values, beta, ids) ==
    LET y == Centered(values, ids)
        x == Centered(beta, ids)
        sxx == SumOver([s \in ids |-> x.of[s] * x.of[s]], ids)
        sxy == SumOver([s \in ids |-> x.of[s] * y.of[s]], ids)
    IN IF sxx = 0 THEN y
       ELSE [den |-> y.den * sxx, of |-> [s \in ids |-> y.of[s] * sxx - sxy * x.of[s]]]

ResidualError(mode, selected, beta) ==
    CASE mode = "none" /\ DOMAIN beta # {} -> "config"
      [] mode # "none" /\ ~(selected \subseteq DOMAIN beta) -> "missing exposure"
      [] OTHER -> "none"

\* Two legs over a common denominator.
JoinLegs(l, r) == [s \in DOMAIN l.of \cup DOMAIN r.of |->
                     IF s \in DOMAIN l.of THEN l.of[s] * r.den ELSE r.of[s] * l.den]

\* The weighting score of the selected names, up to one common positive factor.
Residualize(scores, mode, long, short, beta) ==
    CASE mode = "none" -> Centered(scores, long \cup short).of
      [] mode = "joint" -> Residuals(scores, beta, long \cup short).of
      [] mode = "per_leg" -> JoinLegs(Residuals(scores, beta, long), Residuals(scores, beta, short))

\* One pass of the cap: every name over it is pinned to it, and the names still
\* free share what is left in proportion to what they had.
CapPass(cap, total, state) ==
    LET overs == {s \in DOMAIN state.current \ state.pinned : state.current[s] > cap}
        pinned == state.pinned \cup overs
        free == DOMAIN state.current \ pinned
        remaining == total - cap * Cardinality(pinned)
        freeSum == SumOver(state.current, free)
        share(s) == IF freeSum = 0 \/ remaining <= 0 THEN 0
                    ELSE (state.current[s] * remaining) \div freeSum
    IN IF overs = {} THEN state
       ELSE [pinned |-> pinned,
             current |-> [s \in DOMAIN state.current |-> IF s \in pinned THEN cap ELSE share(s)]]

\* A mutant: the cap is applied once.
ApplyCapsOnce(magnitudes, cap, total) ==
    CapPass(cap, total, [pinned |-> {}, current |-> magnitudes]).current

\* Every pass pins a name or is the last, so there are no more passes than names.
ApplyCaps(magnitudes, cap, total) ==
    LET passes[n \in 0 .. Cardinality(DOMAIN magnitudes)] ==
            IF n = 0 THEN [pinned |-> {}, current |-> magnitudes]
            ELSE CapPass(cap, total, passes[n - 1])
    IN passes[Cardinality(DOMAIN magnitudes)].current

\* One side of the book: the magnitudes scaled to half the gross, then capped.
NoCap == 0
Side(magnitudes, half, cap) ==
    LET total == Total(magnitudes)
        scaled == [s \in DOMAIN magnitudes |-> (magnitudes[s] * half) \div total]
    IN IF cap = NoCap THEN scaled ELSE ApplyCaps(scaled, cap, half)

\* The book of weighting scores: a side for each sign.
WeightedBook(w, half, cap) ==
    LET positive == {s \in DOMAIN w : w[s] > 0}
        negative == {s \in DOMAIN w : w[s] < 0}
        tooTight(side) == cap # NoCap /\ Cardinality(side) * cap < half
        longs == Side([s \in positive |-> w[s]], half, cap)
        shorts == Side([s \in negative |-> -w[s]], half, cap)
        sides == [s \in positive \cup negative |-> IF s \in positive THEN longs[s] ELSE -shorts[s]]
    IN IF positive = {} \/ negative = {} THEN Refused("degenerate leg")
       ELSE IF tooTight(positive) \/ tooTight(negative) THEN Refused("infeasible cap")
       ELSE Portfolio(NonZero(sides))

BuildSignalWeighted(scores, k, half, cap, mode, beta) ==
    LET long == Top(scores, k)
        short == Bottom(scores, k)
    IN IF FractileErrors(scores, k) # "none" THEN Refused(FractileErrors(scores, k))
       ELSE IF ResidualError(mode, long \cup short, beta) # "none"
            THEN Refused(ResidualError(mode, long \cup short, beta))
       ELSE WeightedBook(Residualize(scores, mode, long, short, beta), half, cap)
=============================================================================

------------------------------- MODULE Figures -------------------------------
(* Sums, sizes and roots of figures, shared by the modules that calculate.    *)
EXTENDS Integers, Sequences, FiniteSets, FiniteSetsExt, SequencesExt

CONSTANT None   \* a figure, a row or an input that is absent

Abs(x) == IF x < 0 THEN -x ELSE x

\* The sum of f[s] for the s in S, of all of f, and of e(x) along a sequence.
SumOver(f, S) == MapThenSumSet(LAMBDA s : f[s], S)
Total(f) == SumOver(f, DOMAIN f)
\* n times the sum of the squares of f less the square of its sum.
Spread(f) == Cardinality(DOMAIN f) * Total([s \in DOMAIN f |-> f[s] * f[s]]) - Total(f) * Total(f)
SumAlong(e(_), seq) == Total([i \in DOMAIN seq |-> e(seq[i])])

Power(x, n) == LET p[i \in 0 .. n] == IF i = 0 THEN 1 ELSE x * p[i - 1] IN p[n]

\* What a book holds of s.
Weight(book, s) == IF s \in DOMAIN book THEN book[s] ELSE 0

\* The members of a set in a strict total order.
InOrder(S, before(_, _)) ==
    LET place == [x \in S |-> 1 + Cardinality({y \in S : before(y, x)})]
    IN [n \in 1 .. Cardinality(S) |-> CHOOSE x \in S : place[x] = n]

\* The largest integer whose square is at most x, found bit by bit.
Root(x) ==
    FoldLeft(LAMBDA r, bit : IF (r + bit) * (r + bit) <= x THEN r + bit ELSE r, 0,
             <<16384, 8192, 4096, 2048, 1024, 512, 256, 128, 64, 32, 16, 8, 4, 2, 1>>)
=============================================================================

--------------------------- MODULE PortfolioProofs ---------------------------
(* Proofs about the portfolio.  Of the position ledger: a terminal return is *)
(* realized once, and the cash ledger explains the NAV.  Of the books: what  *)
(* the equal-weight and the signal-weighted book hold.  Of the optimizer:    *)
(* that it refuses nothing feasible and answers nothing else, and what it    *)
(* reports as binding.  Of the costs: that no borrowing is free in silence,  *)
(* that slicing the orders of a day makes it no cheaper, and that the months *)
(* add up.                                                                   *)
EXTENDS MCPortfolio, FiniteSetTheorems, NaturalsInduction, WellFoundedInduction, TLAPS

-----------------------------------------------------------------------------
(* Terminal returns.                                                         *)

\* A realized event belongs to a banned security.
EventsEnded == \A e \in terminations : e.security \in ended

\* The inductive invariant: without EventsEnded, a security could have an
\* event and still be held.
OnceInv == ended \subseteq Securities /\ EventsEnded /\ RealizedOnce

LEMMA OnceInit == Init => OnceInv
  BY DEF Init, OnceInv, EventsEnded, RealizedOnce

\* A refused run stays where it is.
LEMMA OnceRefuse == ASSUME OnceInv, NEW why, Refuse(why) PROVE OnceInv'
  BY DEF OnceInv, EventsEnded, RealizedOnce, Refuse

\* The traded book holds nothing that was terminated.
LEMMA OnceRebalance == ASSUME OnceInv, Rebalance PROVE OnceInv'
<1>1. PICK target \in [Securities -> Weights \cup {0}], cost \in Charges, borrow \in Charges :
        Trade(target, cost, borrow) \/ TradeRefused(target, cost, borrow)
  BY DEF Rebalance
<1>2. CASE TradeRefused(target, cost, borrow)
  BY <1>2, OnceRefuse DEF TradeRefused
<1>3. CASE Trade(target, cost, borrow)
  <2>1. UNCHANGED <<ended, terminations>> /\ positions' = Book(target, Nav(cash, positions))
    BY <1>3 DEF Trade
  <2>2. \A s \in ended : target[s] = 0
    BY <1>3 DEF Trade, Reintroduces
  <2>3. \A s \in ended' : positions'[s] = 0
    BY <2>1, <2>2 DEF Book, OnceInv
  <2> QED
    BY <2>1, <2>3 DEF OnceInv, EventsEnded, RealizedOnce
<1> QED
  BY <1>1, <1>2, <1>3

\* A step closes what it terminates, and nothing that was closed before.
LEMMA OnceMark == ASSUME OnceInv, MarkStep PROVE OnceInv'
<1>1. PICK returns \in [Securities -> Returns], terminated \in SUBSET Securities :
        Mark(returns, terminated)
  BY DEF MarkStep
<1> DEFINE marked == Marked(returns)
           closed == terminated \cap Held
           after  == [s \in Securities |-> IF s \in closed THEN 0 ELSE marked[s]]
<1>2. CASE Refuse("nav")
  BY <1>2, OnceRefuse
<1>3. CASE /\ positions' = after
           /\ ended' = ended \cup terminated
           /\ terminations' = terminations \cup {Event(s, marked) : s \in closed}
  <2>1. closed \cap ended = {}
    BY DEF Held, OnceInv, RealizedOnce
  <2>2. ended' \subseteq Securities /\ EventsEnded'
    BY <1>3 DEF OnceInv, EventsEnded, Event
  <2>3. ASSUME NEW s \in ended' PROVE positions'[s] = 0
    <3>1. s \in Securities
      BY <2>2
    <3>2. s \in closed \/ s \notin Held
      BY <1>3 DEF Held, OnceInv, RealizedOnce
    <3>3. s \notin Held => marked[s] = 0
      BY <3>1 DEF Marked
    <3> QED
      BY <1>3, <3>1, <3>2, <3>3
  <2>4. ASSUME NEW e \in terminations', NEW f \in terminations', e.security = f.security
        PROVE  e = f
    <3>1. ASSUME NEW g \in terminations', g \notin terminations
          PROVE  g.security \in closed /\ g = Event(g.security, marked)
      BY <1>3, <3>1 DEF Event
    <3>2. CASE e \in terminations /\ f \in terminations
      BY <2>4, <3>2 DEF OnceInv, RealizedOnce
    <3>3. CASE e \notin terminations /\ f \notin terminations
      BY <2>4, <3>1, <3>3
    <3>4. CASE e \in terminations /\ f \notin terminations
      BY <2>1, <2>4, <3>1, <3>4 DEF OnceInv, EventsEnded
    <3>5. CASE e \notin terminations /\ f \in terminations
      BY <2>1, <2>4, <3>1, <3>5 DEF OnceInv, EventsEnded
    <3> QED
      BY <3>2, <3>3, <3>4, <3>5
  <2> QED
    BY <2>2, <2>3, <2>4 DEF OnceInv, RealizedOnce
<1> QED
  BY <1>1, <1>2, <1>3 DEF Mark

\* Every step keeps the invariant.
LEMMA OnceStep == OnceInv /\ [Next]_vars => OnceInv'
<1> SUFFICES ASSUME OnceInv, [Next]_vars PROVE OnceInv'
  OBVIOUS
<1>1. CASE Rebalance
  BY <1>1, OnceRebalance
<1>2. CASE MarkStep
  BY <1>2, OnceMark
<1>3. CASE MarkMissing
  BY <1>3, OnceRefuse DEF MarkMissing
<1>4. CASE Close
  <2>1. CASE Refuse("residual")
    BY <2>1, OnceRefuse
  <2>2. CASE UNCHANGED <<positions, ended, terminations, period>>
    BY <2>2 DEF OnceInv, EventsEnded, RealizedOnce
  <2> QED
    BY <1>4, <2>1, <2>2 DEF Close
<1>5. CASE UNCHANGED vars
  BY <1>5 DEF vars, OnceInv, EventsEnded, RealizedOnce
<1> QED
  BY <1>1, <1>2, <1>3, <1>4, <1>5 DEF Next

\* For any securities, weights, returns and charges, and any number of
\* periods: a security's terminal return enters the ledger at most once
\* (run_accounting; CI-049).
THEOREM TerminalReturnOnce == Spec => []RealizedOnce
<1>1. OnceInv => RealizedOnce
  BY DEF OnceInv
<1> QED
  BY OnceInit, OnceStep, <1>1, PTL DEF Spec

-----------------------------------------------------------------------------
(* Sums are linear.  The facts about the fold they are made of are proved    *)
(* from the smallest set that would break them.                              *)

\* Every set of natural numbers that is not empty has a least element.
LEMMA LeastNat ==
  ASSUME NEW T \in SUBSET Nat, T # {}
  PROVE  \E x \in T : \A y \in T : x <= y
<1> DEFINE Below == OpToRel(<, Nat)
<1>1. IsWellFoundedOn(Below, Nat)
  BY NatLessThanWellFounded
<1>2. \A x, y \in Nat : y < x => <<y, x>> \in Below
  BY DEF OpToRel
<1> HIDE DEF Below
<1>3. PICK x \in T : \A y \in T : <<y, x>> \notin Below
  BY <1>1, WFMin
<1>4. ASSUME NEW y \in T PROVE x <= y
  <2>1. x \in Nat /\ y \in Nat
    OBVIOUS
  <2>2. ~ (y < x)
    BY <1>2, <1>3, <2>1
  <2>3. QED
    BY <2>1, <2>2
<1>5. QED
  BY <1>4

-----------------------------------------------------------------------------
\* A sum takes one element after another, the same ones whatever it adds up.
First(S) == CHOOSE s \in S : TRUE

\* g adds up f over every set of D.
AddsUp(f, g, D) == g = [S \in D |-> IF S = {} THEN 0 ELSE f[First(S)] + g[S \ {First(S)}]]

Sums(f, U) == CHOOSE g : AddsUp(f, g, SUBSET U)

LEMMA SumIsSums == \A f, S : SumOver(f, S) = Sums(f, S)[S]
  BY DEF SumOver, MapThenSumSet, MapThenFoldSet, Sums, AddsUp, First

UpTo(n, U) == {S \in SUBSET U : Cardinality(S) <= n}

LEMMA SmallerSet ==
  ASSUME NEW U, IsFiniteSet(U), NEW S \in SUBSET U
  PROVE  /\ IsFiniteSet(S) /\ Cardinality(S) \in 0 .. Cardinality(U)
         /\ Cardinality(U) \in Nat
         /\ S # {} => /\ First(S) \in S
                      /\ S \ {First(S)} \in SUBSET U
                      /\ Cardinality(S \ {First(S)}) = Cardinality(S) - 1
                      /\ Cardinality(S) > 0
<1>1. IsFiniteSet(S) /\ Cardinality(S) \in Nat /\ Cardinality(U) \in Nat
      /\ Cardinality(S) <= Cardinality(U)
  BY FS_Subset, FS_CardinalityType
<1>2. ASSUME S # {} PROVE First(S) \in S
  BY <1>2 DEF First
<1>3. ASSUME S # {} PROVE Cardinality(S \ {First(S)}) = Cardinality(S) - 1 /\ Cardinality(S) > 0
  <2>1. Cardinality(S \ {First(S)}) = Cardinality(S) - 1
    BY <1>1, <1>2, <1>3, FS_RemoveElement
  <2>2. Cardinality(S) # 0
    BY <1>1, <1>3, FS_EmptySet
  <2> QED
    BY <1>1, <2>1, <2>2
<1> QED
  BY <1>1, <1>2, <1>3

LEMMA SumsUpTo ==
  ASSUME NEW U, IsFiniteSet(U), NEW f, NEW n \in Nat
  PROVE  \E g : AddsUp(f, g, UpTo(n, U))
<1> DEFINE Adds(g, m) == AddsUp(f, g, UpTo(m, U))
<1> DEFINE T == {m \in Nat : ~ \E g : Adds(g, m)}
<1> SUFFICES ASSUME T # {} PROVE FALSE
  OBVIOUS
<1>1. PICK m \in T : \A k \in T : m <= k
  <2> T \in SUBSET Nat
    OBVIOUS
  <2> QED
    BY LeastNat
<1>2. CASE m = 0
  <2> DEFINE g == [S \in UpTo(0, U) |-> 0]
  <2>1. \A S \in UpTo(0, U) : S = {}
    <3> SUFFICES ASSUME NEW S \in UpTo(0, U) PROVE S = {}
      OBVIOUS
    <3>1. S \in SUBSET U /\ Cardinality(S) <= 0
      BY DEF UpTo
    <3>2. IsFiniteSet(S) /\ Cardinality(S) \in 0 .. Cardinality(U)
          /\ Cardinality(U) \in Nat
      BY <3>1, SmallerSet
    <3>3. Cardinality(S) = 0
      BY <3>1, <3>2
    <3> QED
      BY <3>2, <3>3, FS_EmptySet
  <2>2. g = [S \in UpTo(0, U) |-> IF S = {} THEN 0 ELSE f[First(S)] + g[S \ {First(S)}]]
    BY <2>1
  <2>3. Adds(g, 0)
    BY <2>2 DEF AddsUp
  <2> QED
    BY <1>2, <2>3
<1>3. CASE m # 0
  <2>1. m - 1 \in Nat /\ ~ (m <= m - 1)
    BY <1>3
  <2>2. PICK g : Adds(g, m - 1)
    BY <1>1, <2>1
  <2> DEFINE h == [S \in UpTo(m, U) |->
        IF Cardinality(S) <= m - 1 THEN g[S] ELSE f[First(S)] + g[S \ {First(S)}]]
  <2>3. ASSUME NEW S \in UpTo(m, U)
        PROVE  h[S] = IF S = {} THEN 0 ELSE f[First(S)] + h[S \ {First(S)}]
    <3>1. S \in SUBSET U /\ Cardinality(S) <= m /\ Cardinality(S) \in Nat
      <4>1. S \in SUBSET U /\ Cardinality(S) <= m
        BY DEF UpTo
      <4>2. Cardinality(S) \in 0 .. Cardinality(U) /\ Cardinality(U) \in Nat
        BY <4>1, SmallerSet
      <4> QED
        BY <4>1, <4>2
    <3>2. CASE S = {}
      <4>1. Cardinality(S) = 0 /\ S \in UpTo(m - 1, U)
        BY <2>1, <3>1, <3>2, FS_EmptySet DEF UpTo
      <4> QED
        BY <2>1, <2>2, <3>2, <4>1 DEF AddsUp
    <3>3. CASE S # {}
      <4> DEFINE R == S \ {First(S)}
      <4>0. R \in SUBSET U /\ Cardinality(R) = Cardinality(S) - 1
        BY <3>1, <3>3, SmallerSet
      <4>1. R \in UpTo(m - 1, U) /\ R \in UpTo(m, U) /\ Cardinality(R) <= m - 1
        BY <2>1, <3>1, <4>0 DEF UpTo
      <4>2. h[R] = g[R]
        BY <4>1
      <4>3. CASE Cardinality(S) <= m - 1
        <5>1. S \in UpTo(m - 1, U)
          BY <3>1, <4>3 DEF UpTo
        <5>2. g[S] = f[First(S)] + g[R]
          BY <2>2, <3>3, <5>1 DEF AddsUp
        <5> QED
          BY <3>3, <4>2, <4>3, <5>2
      <4>4. CASE ~ (Cardinality(S) <= m - 1)
        BY <3>3, <4>2, <4>4
      <4> QED
        BY <4>3, <4>4
    <3> QED
      BY <3>2, <3>3
  <2>4. h = [S \in UpTo(m, U) |-> IF S = {} THEN 0 ELSE f[First(S)] + h[S \ {First(S)}]]
    BY <2>3
  <2>5. Adds(h, m)
    BY <2>4 DEF AddsUp
  <2> QED
    BY <1>1, <2>5
<1> QED
  BY <1>2, <1>3

LEMMA SumsUnfold ==
  ASSUME NEW U, IsFiniteSet(U), NEW f, NEW S \in SUBSET U
  PROVE  Sums(f, U)[S] = IF S = {} THEN 0 ELSE f[First(S)] + Sums(f, U)[S \ {First(S)}]
<1>1. UpTo(Cardinality(U), U) = SUBSET U /\ Cardinality(U) \in Nat
  <2>1. \A R \in SUBSET U :
          /\ Cardinality(R) \in 0 .. Cardinality(U)
          /\ Cardinality(U) \in Nat
    BY SmallerSet
  <2> QED
    BY <2>1 DEF UpTo
<1>2. \E g : AddsUp(f, g, SUBSET U)
  <2> DEFINE n == Cardinality(U)
  <2>1. n \in Nat
    BY <1>1
  <2> HIDE DEF n
  <2>2. \E g : AddsUp(f, g, UpTo(n, U))
    BY <2>1, SumsUpTo
  <2> QED
    BY <1>1, <2>2 DEF n
<1>3. Sums(f, U) = [R \in SUBSET U |->
                   IF R = {} THEN 0 ELSE f[First(R)] + Sums(f, U)[R \ {First(R)}]]
  BY <1>2 DEF Sums, AddsUp
<1> QED
  BY <1>3

\* A set of sets that has no smallest member, by what Sum takes out, is empty.
LEMMA NoBadSet ==
  ASSUME NEW U, IsFiniteSet(U), NEW Bad \in SUBSET (SUBSET U), {} \notin Bad,
         \A S \in SUBSET U :
           S # {} /\ S \ {First(S)} \notin Bad => S \notin Bad
  PROVE  Bad = {}
<1> SUFFICES ASSUME Bad # {} PROVE FALSE
  OBVIOUS
<1> DEFINE T == {Cardinality(S) : S \in Bad}
<1>1. T \in SUBSET Nat /\ T # {}
  <2>1. \A S \in Bad : Cardinality(S) \in 0 .. Cardinality(U)
                       /\ Cardinality(U) \in Nat
    BY SmallerSet
  <2> QED
    BY <2>1
<1>2. PICK c \in T : \A d \in T : c <= d
  BY <1>1, LeastNat
<1>3. PICK S \in Bad : Cardinality(S) = c
  BY <1>2
<1>4. S \in SUBSET U /\ S # {}
  BY <1>3
<1>5. S \ {First(S)} \in SUBSET U /\ Cardinality(S \ {First(S)}) = Cardinality(S) - 1
  BY <1>4, SmallerSet
<1>6. S \ {First(S)} \in Bad
  BY <1>3, <1>4
<1>7. c <= c - 1 /\ c \in Nat
  BY <1>1, <1>2, <1>3, <1>5, <1>6
<1> QED
  BY <1>7

Integral(D) == [D -> Int]

LEMMA SumsInt ==
  ASSUME NEW U, IsFiniteSet(U), NEW f \in Integral(U)
  PROVE  \A S \in SUBSET U : Sums(f, U)[S] \in Int
<1> DEFINE Bad == {S \in SUBSET U : Sums(f, U)[S] \notin Int}
<1>1. {} \notin Bad
  <2>1. Sums(f, U)[{}] = 0
    BY SumsUnfold
  <2> QED
    BY <2>1
<1>2. ASSUME NEW S \in SUBSET U, S # {}, S \ {First(S)} \notin Bad
      PROVE  S \notin Bad
  <2>1. First(S) \in U /\ S \ {First(S)} \in SUBSET U
    BY <1>2, SmallerSet
  <2>2. Sums(f, U)[S] = f[First(S)] + Sums(f, U)[S \ {First(S)}]
    BY <1>2, SumsUnfold
  <2>3. f[First(S)] \in Int /\ Sums(f, U)[S \ {First(S)}] \in Int
    BY <1>2, <2>1 DEF Integral
  <2> QED
    BY <2>2, <2>3
<1>3. Bad = {}
  <2> Bad \in SUBSET (SUBSET U)
    OBVIOUS
  <2> HIDE DEF Bad
  <2> QED
    BY <1>1, <1>2, NoBadSet
<1> QED
  BY <1>3

LEMMA Distributes ==
  ASSUME NEW a \in Int, NEW x \in Int, NEW y \in Int PROVE a * (x + y) = a * x + a * y
  OBVIOUS

LEMMA SumsLinear ==
  ASSUME NEW U, IsFiniteSet(U), NEW f \in Integral(U), NEW g \in Integral(U), NEW h \in Integral(U), NEW a \in Int,
         \A s \in U : h[s] = f[s] + a * g[s]
  PROVE  \A S \in SUBSET U : Sums(h, U)[S] = Sums(f, U)[S] + a * Sums(g, U)[S]
<1> DEFINE Bad == {S \in SUBSET U : Sums(h, U)[S] # Sums(f, U)[S] + a * Sums(g, U)[S]}
<1>1. {} \notin Bad
  <2>1. Sums(f, U)[{}] = 0 /\ Sums(g, U)[{}] = 0 /\ Sums(h, U)[{}] = 0
    BY SumsUnfold
  <2> QED
    BY <2>1
<1>2. ASSUME NEW S \in SUBSET U, S # {}, S \ {First(S)} \notin Bad
      PROVE  S \notin Bad
  <2> DEFINE s == First(S)
             R == S \ {s}
  <2>1. s \in U /\ R \in SUBSET U
    BY <1>2, SmallerSet
  <2>2. /\ Sums(f, U)[S] = f[s] + Sums(f, U)[R]
        /\ Sums(g, U)[S] = g[s] + Sums(g, U)[R]
        /\ Sums(h, U)[S] = h[s] + Sums(h, U)[R]
    BY <1>2, SumsUnfold
  <2>3. f[s] \in Int /\ g[s] \in Int /\ Sums(f, U)[R] \in Int /\ Sums(g, U)[R] \in Int
    BY <2>1, SumsInt DEF Integral
  <2>4. h[s] = f[s] + a * g[s] /\ Sums(h, U)[R] = Sums(f, U)[R] + a * Sums(g, U)[R]
    BY <1>2, <2>1
  <2>5. a * (g[s] + Sums(g, U)[R]) = a * g[s] + a * Sums(g, U)[R]
    BY <2>3, Distributes
  <2>6. a * g[s] \in Int /\ a * Sums(g, U)[R] \in Int
    BY <2>3
  <2>7. Sums(h, U)[S] = Sums(f, U)[S] + a * Sums(g, U)[S]
    <3> HIDE DEF s, R
    <3> QED
      BY <2>2, <2>3, <2>4, <2>5, <2>6
  <2> QED
    BY <2>7
<1>3. Bad = {}
  <2> Bad \in SUBSET (SUBSET U)
    OBVIOUS
  <2> HIDE DEF Bad
  <2> QED
    BY <1>1, <1>2, NoBadSet
<1> QED
  BY <1>3


\* A sum over a set is linear, and that of a constant counts it.
LEMMA SumOverInt ==
  ASSUME NEW S, IsFiniteSet(S), NEW f \in Integral(S) PROVE SumOver(f, S) \in Int
  BY SumIsSums, SumsInt

LEMMA SumOverLinear ==
  ASSUME NEW S, IsFiniteSet(S), NEW a \in Int,
         NEW f \in Integral(S), NEW g \in Integral(S), NEW h \in Integral(S),
         \A s \in S : h[s] = f[s] + a * g[s]
  PROVE  SumOver(h, S) = SumOver(f, S) + a * SumOver(g, S)
  BY SumIsSums, SumsLinear

LEMMA SumOverConstant ==
  ASSUME NEW S, IsFiniteSet(S), NEW c \in Int, NEW f, \A s \in S : f[s] = c
  PROVE  SumOver(f, S) = c * Cardinality(S)
<1> DEFINE Bad == {R \in SUBSET S : Sums(f, S)[R] # c * Cardinality(R)}
<1>1. {} \notin Bad
  <2>1. Sums(f, S)[{}] = 0 /\ Cardinality({}) = 0
    BY SumsUnfold, FS_EmptySet
  <2> QED
    BY <2>1
<1>2. ASSUME NEW R \in SUBSET S, R # {}, R \ {First(R)} \notin Bad
      PROVE  R \notin Bad
  <2> DEFINE s == First(R)
             Q == R \ {s}
  <2>1. s \in S /\ Q \in SUBSET S /\ Cardinality(Q) = Cardinality(R) - 1
        /\ Cardinality(R) \in 0 .. Cardinality(S) /\ Cardinality(S) \in Nat
    BY <1>2, SmallerSet
  <2>2. Sums(f, S)[R] = f[s] + Sums(f, S)[Q]
    BY <1>2, SumsUnfold
  <2>3. f[s] = c /\ Sums(f, S)[Q] = c * Cardinality(Q)
    BY <1>2, <2>1
  <2>4. c * (Cardinality(R) - 1) = c * Cardinality(R) - c /\ c * Cardinality(R) \in Int
    BY <2>1
  <2>5. Sums(f, S)[R] = c * Cardinality(R)
    <3> HIDE DEF s, Q
    <3> QED
      BY <2>1, <2>2, <2>3, <2>4
  <2> QED
    BY <2>5
<1>3. Bad = {}
  <2> Bad \in SUBSET (SUBSET S)
    OBVIOUS
  <2> HIDE DEF Bad
  <2> QED
    BY <1>1, <1>2, NoBadSet
<1> QED
  BY <1>3, SumIsSums

-----------------------------------------------------------------------------
(* The sums of the ledger.                                                   *)

Ints == Integral(Securities)

LEMMA SumIsSumOver == \A f : DOMAIN f = Securities => Total(f) = SumOver(f, Securities)
  BY DEF Total

LEMMA SumInt == ASSUME NEW f \in Ints PROVE Total(f) \in Int
  BY AccountingAssumption, SumIsSumOver, SumOverInt DEF Ints, Integral

LEMMA SumLinear ==
  ASSUME NEW f \in Ints, NEW g \in Ints, NEW h \in Ints, NEW a \in Int,
         \A s \in Securities : h[s] = f[s] + a * g[s]
  PROVE  Total(h) = Total(f) + a * Total(g)
  BY AccountingAssumption, SumIsSumOver, SumOverLinear DEF Ints, Integral

LEMMA SumFlat == Flat \in Ints /\ Total(Flat) = 0
<1>1. Flat \in Ints /\ Total(Flat) \in Int
  BY SumInt DEF Flat, Ints, Integral
<1>2. Total(Flat) = Total(Flat) + 1 * Total(Flat)
  BY <1>1, SumLinear DEF Flat
<1>3. \A x \in Int : x = x + 1 * x => x = 0
  OBVIOUS
<1> QED
  BY <1>1, <1>2, <1>3

-----------------------------------------------------------------------------
(* The state keeps its types, and a run its bounds.                          *)

Bounded == /\ Len(rows) \in 0 .. MaxPeriods
           /\ at \in {"rebalance", "mark"} => Len(rows) < MaxPeriods

TypeInv == TypeOK /\ Bounded

LEMMA TypeInit == Init => TypeInv
<1> SUFFICES ASSUME Init PROVE TypeInv
  OBVIOUS
<1>1. period \in Period
  BY AccountingAssumption DEF Init, Period, Flat
<1>2. rows \in Seq(Row) /\ Len(rows) = 0 /\ Held = {}
  BY DEF Init, Held, Flat
<1>3. cash \in Int /\ positions \in [Securities -> Int]
  BY AccountingAssumption DEF Init, Flat
<1> QED
  BY <1>1, <1>2, <1>3, AccountingAssumption DEF Init, TypeInv, TypeOK, Bounded

LEMMA TypeRefuse ==
  ASSUME TypeInv, NEW why \in Refusals, Refuse(why) PROVE TypeInv'
<1>1. /\ at' \in Refusals /\ at' \notin {"rebalance", "mark", "done"}
      /\ UNCHANGED <<cash, positions, ended, terminations, period, rows>>
  BY DEF Refuse, Refusals
<1>2. Held' = Held
  BY <1>1 DEF Held
<1> QED
  BY <1>1, <1>2 DEF TypeInv, TypeOK, Bounded

\* Targets, returns and charges are whole numbers, and so is what comes of them.
LEMMA TradeInts ==
  ASSUME TypeInv, NEW target \in [Securities -> Weights \cup {0}]
  PROVE  /\ target \in Ints /\ Nav(cash, positions) \in Int
         /\ Book(target, Nav(cash, positions)) \in Ints
         /\ [s \in Securities |-> Book(target, Nav(cash, positions))[s] - positions[s]] \in Ints
<1>1. target \in Ints
  <2>1. Weights \cup {0} \subseteq Int
    BY AccountingAssumption
  <2> QED
    BY <2>1 DEF Ints, Integral
<1>2. positions \in Ints /\ cash \in Int
  BY DEF TypeInv, TypeOK, Ints, Integral
<1>3. Nav(cash, positions) \in Int
  BY <1>2, SumInt DEF Nav
<1>4. Book(target, Nav(cash, positions)) \in Ints
  BY <1>1, <1>3 DEF Book, Ints, Integral
<1> QED
  BY <1>1, <1>2, <1>3, <1>4 DEF Ints, Integral

LEMMA TypeTrade ==
  ASSUME TypeInv, NEW target \in [Securities -> Weights \cup {0}],
         NEW cost \in Charges, NEW borrow \in Charges, Trade(target, cost, borrow)
  PROVE  TypeInv'
<1> DEFINE start == Nav(cash, positions)
           marked == Book(target, start)
           diff  == [s \in Securities |-> marked[s] - positions[s]]
<1>1. target \in Ints /\ start \in Int /\ marked \in Ints /\ diff \in Ints
  BY TradeInts
<1>2. cost \in Int /\ borrow \in Int
  BY AccountingAssumption
<1>3. cash' \in Int
  <2>1. cash' = cash - Total(diff) - cost /\ cash \in Int
    BY DEF Trade, TypeInv, TypeOK
  <2> QED
    BY <1>1, <1>2, <2>1, SumInt
<1>4. positions' = marked
  BY DEF Trade
<1>5. period' \in Period
  <2>1. period' = [target |-> target, start |-> start, cost |-> cost, borrow |-> borrow,
                   factor |-> [s \in Securities |-> 1], pnl |-> 0, steps |-> 0]
    BY DEF Trade
  <2> HIDE DEF start
  <2> QED
    BY <1>1, <1>2, <2>1, AccountingAssumption DEF Period
<1>6. \A s \in Held' : period'.target[s] # 0
  BY <1>4 DEF Held, Book, Trade
<1>7. at = "rebalance" /\ at' = "mark" /\ UNCHANGED <<ended, terminations, rows>>
  BY DEF Trade
<1> HIDE DEF start, marked, diff
<1> QED
  BY <1>1, <1>3, <1>4, <1>5, <1>6, <1>7 DEF TypeInv, TypeOK, Bounded, Ints, Integral

\* What a step of returns makes of the book, the factors and the profit.
LEMMA MarkInts ==
  ASSUME TypeInv, NEW returns \in [Securities -> Returns], NEW closed \in SUBSET Securities
  PROVE  /\ returns \in Ints /\ Marked(returns) \in Ints /\ Factors(returns) \in Ints
         /\ [s \in Securities |-> IF s \in Held THEN positions[s] * returns[s] ELSE 0] \in Ints
         /\ [s \in Securities |-> IF s \in closed THEN Marked(returns)[s] ELSE 0] \in Ints
         /\ [s \in Securities |-> IF s \in closed THEN 0 ELSE Marked(returns)[s]] \in Ints
         /\ Profit(returns) \in Int /\ Proceeds(closed, Marked(returns)) \in Int
<1>1. returns \in Ints
  <2>1. Returns \subseteq Int
    BY AccountingAssumption
  <2> QED
    BY <2>1 DEF Ints, Integral
<1>2. positions \in Ints /\ period.factor \in Ints
  BY DEF TypeInv, TypeOK, Period, Ints, Integral
<1>3. Marked(returns) \in Ints
  BY <1>1, <1>2 DEF Marked, Ints, Integral
<1>4. Factors(returns) \in Ints
  BY <1>1, <1>2 DEF Factors, Ints, Integral
<1>5. [s \in Securities |-> IF s \in Held THEN positions[s] * returns[s] ELSE 0] \in Ints
  BY <1>1, <1>2 DEF Ints, Integral
<1>6. /\ [s \in Securities |-> IF s \in closed THEN Marked(returns)[s] ELSE 0] \in Ints
      /\ [s \in Securities |-> IF s \in closed THEN 0 ELSE Marked(returns)[s]] \in Ints
  BY <1>3 DEF Ints, Integral
<1>7. Profit(returns) \in Int
  BY <1>5, SumInt DEF Profit
<1>8. Proceeds(closed, Marked(returns)) \in Int
  BY <1>6, SumInt DEF Proceeds
<1> QED
  BY <1>1, <1>3, <1>4, <1>5, <1>6, <1>7, <1>8

LEMMA TypeMark ==
  ASSUME TypeInv, NEW returns \in [Securities -> Returns],
         NEW terminated \in SUBSET Securities, Mark(returns, terminated)
  PROVE  TypeInv'
<1> DEFINE marked == Marked(returns)
           closed == terminated \cap Held
           after  == [s \in Securities |-> IF s \in closed THEN 0 ELSE marked[s]]
<1>1. CASE Refuse("nav")
  BY <1>1, TypeRefuse DEF Refusals
<1>2. CASE ~ Refuse("nav")
  <2>1. /\ at = "mark" /\ period.steps < MaxSteps
        /\ cash' = cash + Proceeds(closed, marked) /\ positions' = after
        /\ ended' = ended \cup terminated
        /\ terminations' = terminations \cup {Event(s, marked) : s \in closed}
        /\ period' = [period EXCEPT !.factor = Factors(returns),
                                    !.pnl = @ + Profit(returns), !.steps = @ + 1]
        /\ UNCHANGED <<at, rows>>
    BY <1>2 DEF Mark
  <2>2. closed \in SUBSET Securities
    OBVIOUS
  <2>3. /\ marked \in Ints /\ Factors(returns) \in Ints /\ after \in Ints
        /\ Profit(returns) \in Int /\ Proceeds(closed, marked) \in Int
    BY <2>2, MarkInts
  <2>4. cash' \in Int /\ positions' \in [Securities -> Int] /\ ended' \subseteq Securities
    <3>1. cash \in Int /\ ended \subseteq Securities
      BY DEF TypeInv, TypeOK
    <3> HIDE DEF marked, closed, after
    <3> QED
      BY <2>1, <2>3, <3>1 DEF Ints, Integral
  <2>5. ASSUME NEW e \in terminations'
        PROVE  /\ e.security \in ended' /\ e.period \in 0 .. MaxPeriods
               /\ e.step \in 0 .. MaxSteps /\ e.value \in Int
    <3>1. CASE e \in terminations
      BY <2>1, <3>1 DEF TypeInv, TypeOK
    <3>2. CASE e \notin terminations
      <4>1. PICK s \in closed : e = Event(s, marked)
        BY <2>1, <2>5, <3>2
      <4>2. s \in Securities /\ s \in terminated
        OBVIOUS
      <4>3. /\ e.security = s /\ e.period = Len(rows) /\ e.step = period.steps
            /\ e.value = marked[s]
        BY <4>1 DEF Event
      <4>4. period.steps \in 0 .. MaxSteps /\ Len(rows) \in 0 .. MaxPeriods
        BY DEF TypeInv, TypeOK, Bounded, Period
      <4>5. marked[s] \in Int
        BY <2>3, <4>2 DEF Ints, Integral
      <4> HIDE DEF marked
      <4> QED
        BY <2>1, <4>2, <4>3, <4>4, <4>5
    <3> QED
      BY <3>1, <3>2
  <2>6. period' \in Period
    <3>1. period \in Period
      BY DEF TypeInv, TypeOK
    <3>2. period.steps + 1 \in 0 .. MaxSteps /\ period.pnl + Profit(returns) \in Int
      BY <2>1, <2>3, <3>1, AccountingAssumption DEF Period
    <3> QED
      BY <2>1, <2>3, <3>1, <3>2 DEF Period, Ints, Integral
  <2>7. ASSUME NEW s \in Held' PROVE period'.target[s] # 0
    <3>1. s \in Securities /\ after[s] # 0
      BY <2>1 DEF Held
    <3>2. s \in Held
      BY <3>1 DEF Marked
    <3>3. period'.target = period.target
      BY <2>1 DEF TypeInv, TypeOK, Period
    <3> QED
      BY <3>2, <3>3 DEF TypeInv, TypeOK
  <2>8. at' = "mark" /\ rows' = rows
    BY <2>1
  <2> HIDE DEF marked, closed, after
  <2> QED
    BY <2>4, <2>5, <2>6, <2>7, <2>8, <2>1 DEF TypeInv, TypeOK, Bounded
<1> QED
  BY <1>1, <1>2

\* The row of a period that closes.
ClosedRow ==
  [start |-> period.start, end |-> Nav(cash - period.borrow, positions),
   pnl |-> period.pnl, cost |-> period.cost, borrow |-> period.borrow]

LEMMA CloseInts ==
  ASSUME TypeInv
  PROVE  /\ cash - period.borrow \in Int /\ ClosedRow \in Row
         /\ ClosedRow.end = Nav(cash, positions) - period.borrow
<1>1. /\ cash \in Int /\ positions \in Ints /\ period.start \in Int /\ period.pnl \in Int
      /\ period.cost \in Int /\ period.borrow \in Int
  BY DEF TypeInv, TypeOK, Period, Ints, Integral
<1>2. Total(positions) \in Int
  BY <1>1, SumInt
<1>3. /\ Nav(cash - period.borrow, positions) \in Int
      /\ Nav(cash - period.borrow, positions) = Nav(cash, positions) - period.borrow
  BY <1>1, <1>2 DEF Nav
<1> QED
  BY <1>1, <1>3 DEF ClosedRow, Row

LEMMA TypeClose == ASSUME TypeInv, Close PROVE TypeInv'
<1>1. CASE Refuse("residual")
  BY <1>1, TypeRefuse DEF Refusals
<1>2. CASE ~ Refuse("residual")
  <2>1. /\ at = "mark" /\ cash' = cash - period.borrow
        /\ rows' = Append(rows, ClosedRow)
        /\ at' \in {"done"} \cup (IF Len(rows) + 1 < MaxPeriods THEN {"rebalance"} ELSE {})
        /\ UNCHANGED <<positions, ended, terminations, period>>
    BY <1>2 DEF Close, ClosedRow
  <2>2. cash' \in Int /\ ClosedRow \in Row
    BY <2>1, CloseInts
  <2>3. rows \in Seq(Row) /\ Len(rows) \in 0 .. MaxPeriods /\ Len(rows) < MaxPeriods
    BY <2>1 DEF TypeInv, TypeOK, Bounded
  <2>4. rows' \in Seq(Row) /\ Len(rows') = Len(rows) + 1 /\ rows' # <<>>
    BY <2>1, <2>2, <2>3
  <2>5. Held' = Held
    BY <2>1 DEF Held
  <2>6. Bounded' /\ at' \in {"rebalance", "done"}
    BY <2>1, <2>3, <2>4, AccountingAssumption DEF Bounded
  <2> QED
    BY <2>1, <2>2, <2>4, <2>5, <2>6 DEF TypeInv, TypeOK
<1> QED
  BY <1>1, <1>2

LEMMA TypeStep == TypeInv /\ [Next]_vars => TypeInv'
<1> SUFFICES ASSUME TypeInv, [Next]_vars PROVE TypeInv'
  OBVIOUS
<1>1. CASE Rebalance
  <2>1. PICK target \in [Securities -> Weights \cup {0}], cost \in Charges, borrow \in Charges :
          Trade(target, cost, borrow) \/ TradeRefused(target, cost, borrow)
    BY <1>1 DEF Rebalance
  <2>2. CASE Trade(target, cost, borrow)
    BY <2>2, TypeTrade
  <2>3. CASE TradeRefused(target, cost, borrow)
    BY <2>3, TypeRefuse DEF TradeRefused, Refusals
  <2> QED
    BY <2>1, <2>2, <2>3
<1>2. CASE MarkStep
  BY <1>2, TypeMark DEF MarkStep
<1>3. CASE MarkMissing
  BY <1>3, TypeRefuse DEF MarkMissing, Refusals
<1>4. CASE Close
  BY <1>4, TypeClose
<1>5. CASE UNCHANGED vars
  BY <1>5 DEF vars, TypeInv, TypeOK, Bounded, Held
<1> QED
  BY <1>1, <1>2, <1>3, <1>4, <1>5 DEF Next

-----------------------------------------------------------------------------
(* The cash ledger explains the NAV.                                         *)

\* While a period runs, its NAV has moved by profit less cost since it began,
\* and it began where the last row ended, as the next one will.
Chained ==
  /\ at = "mark" => Nav(cash, positions) = period.start + period.pnl - period.cost
  /\ at = "mark" /\ rows # <<>> => period.start = rows[Len(rows)].end
  /\ at = "rebalance" /\ rows # <<>> => Nav(cash, positions) = rows[Len(rows)].end

\* What is still held is worth its weight of the opening NAV, compounded: it is
\* what makes the profit of one more step the same in both computations.
Valued ==
  \A s \in Held : positions[s] = period.start * (period.target[s] * period.factor[s])

RowsExplained ==
  \A i \in DOMAIN rows :
    /\ rows[i].end - rows[i].start = rows[i].pnl - rows[i].cost - rows[i].borrow
    /\ i > 1 => rows[i].start = rows[i - 1].end

\* The inductive invariant.
NavInv == /\ at # "residual"
          /\ at = "mark" => Reconciled /\ Valued
          /\ Chained
          /\ RowsExplained

LEMMA NavInit == Init => NavInv
  BY DEF Init, NavInv, Chained, RowsExplained

LEMMA NavRefuse ==
  ASSUME NavInv, NEW why \in Refusals \ {"residual"}, Refuse(why) PROVE NavInv'
<1>1. at' \notin {"residual", "mark", "rebalance"} /\ rows' = rows
  BY DEF Refuse, Refusals
<1> QED
  BY <1>1 DEF NavInv, Chained, RowsExplained

\* A trade moves the NAV by its cost, and the period starts from weights alone.
LEMMA NavTrade ==
  ASSUME TypeInv, NavInv, NEW target \in [Securities -> Weights \cup {0}],
         NEW cost \in Charges, NEW borrow \in Charges, Trade(target, cost, borrow)
  PROVE  NavInv'
<1> DEFINE start == Nav(cash, positions)
           marked == Book(target, start)
           diff  == [s \in Securities |-> marked[s] - positions[s]]
<1>1. target \in Ints /\ start \in Int /\ marked \in Ints /\ diff \in Ints
  BY TradeInts
<1>2. cost \in Int /\ cash \in Int /\ positions \in Ints
  BY AccountingAssumption DEF TypeInv, TypeOK, Ints, Integral
<1>3. /\ at = "rebalance" /\ at' = "mark" /\ rows' = rows
      /\ cash' = cash - Total(diff) - cost
      /\ positions' = marked
      /\ period' = [target |-> target, start |-> start, cost |-> cost, borrow |-> borrow,
                    factor |-> [s \in Securities |-> 1], pnl |-> 0, steps |-> 0]
  BY DEF Trade
<1>4. Total(marked) = Total(positions) + Total(diff)
  <2>1. \A s \in Securities : marked[s] = positions[s] + 1 * diff[s]
    BY <1>1, <1>2 DEF Ints, Integral
  <2>2. Total(marked) = Total(positions) + 1 * Total(diff)
    <3> HIDE DEF marked, diff
    <3> QED
      BY <1>1, <1>2, <2>1, SumLinear
  <2> QED
    BY <1>1, <2>2, SumInt
<1>5. Nav(cash, positions)' = start - cost
  <2>1. Total(positions) \in Int /\ Total(diff) \in Int
    BY <1>1, <1>2, SumInt
  <2>2. Nav(cash, positions)' = cash' + Total(marked) /\ start = cash + Total(positions)
    BY <1>3 DEF Nav
  <2> QED
    BY <1>2, <1>3, <1>4, <2>1, <2>2
<1>6. Reconciled'
  <2>1. /\ period'.pnl = 0 /\ period'.start = start
        /\ [s \in Securities |-> period'.target[s] * (period'.factor[s] - 1)] = Flat
    BY <1>1, <1>3 DEF Flat, Ints, Integral
  <2>2. start * 0 = 0
    BY <1>1
  <2> QED
    BY <2>1, <2>2, SumFlat DEF Reconciled
<1>7. Valued'
  <2>1. ASSUME NEW s \in Held'
        PROVE  positions'[s] = period'.start * (period'.target[s] * period'.factor[s])
    <3>1. s \in Securities /\ marked[s] # 0
      BY <1>3 DEF Held
    <3>2. marked[s] = target[s] * start
      BY <3>1 DEF Book
    <3>3. period'.start = start /\ period'.target[s] = target[s] /\ period'.factor[s] = 1
      BY <1>3, <3>1
    <3>4. target[s] \in Int
      BY <1>1, <3>1 DEF Ints, Integral
    <3> HIDE DEF start, marked
    <3> QED
      BY <1>1, <1>3, <3>2, <3>3, <3>4
  <2> QED
    BY <2>1 DEF Valued
<1>8. Chained'
  <2>1. Nav(cash, positions)' = period'.start + period'.pnl - period'.cost
    BY <1>1, <1>2, <1>3, <1>5
  <2>2. rows' # <<>> => period'.start = rows'[Len(rows')].end
    BY <1>3 DEF NavInv, Chained
  <2> QED
    BY <1>3, <2>1, <2>2 DEF Chained
<1> QED
  BY <1>3, <1>6, <1>7, <1>8 DEF NavInv, RowsExplained

\* What one more step adds to the profit, per unit of the opening NAV.
Gain(returns) ==
  [s \in Securities |-> IF s \in Held THEN period.target[s] * period.factor[s] * returns[s] ELSE 0]

\* What the weights and the factors say the profit is, per unit of it.
Worth == [s \in Securities |-> period.target[s] * (period.factor[s] - 1)]

LEMMA TimesAgain ==
  ASSUME NEW a \in Int, NEW b \in Int, NEW c \in Int, NEW r \in Int
  PROVE  /\ (a * (b * c)) * r = a * (b * c * r)
         /\ (a * (b * c)) * (1 + r) = a * (b * (c * (1 + r)))
         /\ b * (c * (1 + r) - 1) = b * (c - 1) + b * c * r
  OBVIOUS

LEMMA GainAgain == \A b, c, r \in Int : b * (c * (1 + r) - 1) = b * (c - 1) + b * c * r
  BY TimesAgain

\* The profit of a step is the opening NAV's share of the gain.
LEMMA ProfitIsGain ==
  ASSUME TypeInv, Valued, NEW returns \in [Securities -> Returns]
  PROVE  /\ Gain(returns) \in Ints /\ Worth \in Ints /\ period.start \in Int
         /\ Profit(returns) = period.start * Total(Gain(returns))
<1> DEFINE profit == [s \in Securities |-> IF s \in Held THEN positions[s] * returns[s] ELSE 0]
<1>1. returns \in Ints /\ profit \in Ints
  BY MarkInts
<1>2. period.start \in Int /\ period.target \in Ints /\ period.factor \in Ints
  <2>1. Weights \cup {0} \subseteq Int
    BY AccountingAssumption
  <2> QED
    BY <2>1 DEF TypeInv, TypeOK, Period, Ints, Integral
<1>3. Gain(returns) \in Ints /\ Worth \in Ints
  BY <1>1, <1>2 DEF Gain, Worth, Ints, Integral
<1>4. ASSUME NEW s \in Securities
      PROVE  profit[s] = Flat[s] + period.start * Gain(returns)[s]
  <2>1. /\ period.target[s] \in Int /\ period.factor[s] \in Int /\ returns[s] \in Int
        /\ Flat[s] = 0
    BY <1>1, <1>2 DEF Ints, Integral, Flat
  <2>2. CASE s \in Held
    <3>1. positions[s] = period.start * (period.target[s] * period.factor[s])
      BY <2>2 DEF Valued
    <3>2. profit[s] = positions[s] * returns[s]
          /\ Gain(returns)[s] = period.target[s] * period.factor[s] * returns[s]
      BY <2>2 DEF Gain
    <3>3. positions[s] * returns[s]
            = period.start * (period.target[s] * period.factor[s] * returns[s])
      BY <1>2, <2>1, <3>1, TimesAgain
    <3>4. period.start * (period.target[s] * period.factor[s] * returns[s]) \in Int
      BY <1>2, <2>1
    <3> HIDE DEF profit
    <3> QED
      BY <2>1, <3>2, <3>3, <3>4
  <2>3. CASE s \notin Held
    <3>1. profit[s] = 0 /\ Gain(returns)[s] = 0
      BY <2>3 DEF Gain
    <3> HIDE DEF profit
    <3> QED
      BY <1>2, <2>1, <3>1
  <2> QED
    BY <2>2, <2>3
<1>5. Profit(returns) = Total(profit)
  BY DEF Profit
<1>6. Total(profit) = Total(Flat) + period.start * Total(Gain(returns))
  <2> HIDE DEF profit
  <2> QED
    BY <1>1, <1>2, <1>3, <1>4, SumLinear, SumFlat
<1>7. period.start * Total(Gain(returns)) \in Int
  BY <1>2, <1>3, SumInt
<1> QED
  BY <1>2, <1>3, <1>5, <1>6, <1>7, SumFlat

\* A step moves the NAV by its profit, whatever it closes.
LEMMA MarkMovesNav ==
  ASSUME TypeInv, NEW returns \in [Securities -> Returns], NEW closed \in SUBSET Securities
  PROVE  Nav(cash + Proceeds(closed, Marked(returns)),
             [s \in Securities |-> IF s \in closed THEN 0 ELSE Marked(returns)[s]])
           = Nav(cash, positions) + Profit(returns)
<1> DEFINE marked == Marked(returns)
           after  == [s \in Securities |-> IF s \in closed THEN 0 ELSE marked[s]]
           paid   == [s \in Securities |-> IF s \in closed THEN marked[s] ELSE 0]
           profit == [s \in Securities |-> IF s \in Held THEN positions[s] * returns[s] ELSE 0]
<1>1. /\ returns \in Ints /\ marked \in Ints /\ after \in Ints /\ paid \in Ints /\ profit \in Ints
      /\ cash \in Int /\ positions \in Ints
  <2>1. cash \in Int /\ positions \in Ints
    BY DEF TypeInv, TypeOK, Ints, Integral
  <2> QED
    BY <2>1, MarkInts
<1>2. \A s \in Securities : marked[s] = after[s] + 1 * paid[s]
  <2> SUFFICES ASSUME NEW s \in Securities PROVE marked[s] = after[s] + 1 * paid[s]
    OBVIOUS
  <2>1. marked[s] \in Int
    BY <1>1 DEF Ints, Integral
  <2> HIDE DEF marked
  <2> QED
    BY <2>1
<1>3. \A s \in Securities : marked[s] = positions[s] + 1 * profit[s]
  <2> SUFFICES ASSUME NEW s \in Securities PROVE marked[s] = positions[s] + 1 * profit[s]
    OBVIOUS
  <2>1. positions[s] \in Int /\ returns[s] \in Int
    BY <1>1 DEF Ints, Integral
  <2>2. s \notin Held => positions[s] = 0
    BY DEF Held
  <2>3. positions[s] * (1 + returns[s]) = positions[s] + positions[s] * returns[s]
    BY <2>1
  <2> QED
    BY <2>1, <2>2, <2>3 DEF Marked
<1>4. Proceeds(closed, marked) = Total(paid) /\ Profit(returns) = Total(profit)
  BY DEF Proceeds, Profit
<1> HIDE DEF marked, after, paid, profit
<1>5. Total(marked) = Total(after) + 1 * Total(paid) /\ Total(marked) = Total(positions) + 1 * Total(profit)
  BY <1>1, <1>2, <1>3, SumLinear
<1>6. Total(after) \in Int /\ Total(paid) \in Int /\ Total(positions) \in Int /\ Total(profit) \in Int
  BY <1>1, SumInt
<1>7. Nav(cash + Proceeds(closed, marked), after) = Nav(cash, positions) + Profit(returns)
  BY <1>1, <1>4, <1>5, <1>6 DEF Nav
<1> QED
  BY <1>7 DEF marked, after

LEMMA NavMark ==
  ASSUME TypeInv, TypeInv', NavInv, NEW returns \in [Securities -> Returns],
         NEW terminated \in SUBSET Securities, Mark(returns, terminated)
  PROVE  NavInv'
<1> DEFINE marked == Marked(returns)
           closed == terminated \cap Held
           after  == [s \in Securities |-> IF s \in closed THEN 0 ELSE marked[s]]
<1>1. CASE Refuse("nav")
  BY <1>1, NavRefuse DEF Refusals
<1>2. CASE ~ Refuse("nav")
  <2>1. /\ at = "mark" /\ cash' = cash + Proceeds(closed, marked) /\ positions' = after
        /\ period' = [period EXCEPT !.factor = Factors(returns),
                                    !.pnl = @ + Profit(returns), !.steps = @ + 1]
        /\ UNCHANGED <<at, rows>>
    BY <1>2 DEF Mark
  <2>2. Reconciled /\ Valued /\ Chained
    BY <2>1 DEF NavInv
  <2>3. /\ period'.start = period.start /\ period'.target = period.target
        /\ period'.cost = period.cost /\ period'.factor = Factors(returns)
        /\ period'.pnl = period.pnl + Profit(returns)
    BY <2>1 DEF TypeInv, TypeOK, Period
  <2>4. /\ Gain(returns) \in Ints /\ Worth \in Ints /\ period.start \in Int
        /\ Profit(returns) = period.start * Total(Gain(returns))
    BY <2>2, ProfitIsGain
  <2>5. /\ period.pnl \in Int /\ period.cost \in Int /\ Profit(returns) \in Int
        /\ period.target \in Ints /\ period.factor \in Ints /\ returns \in Ints
    <3>1. Weights \cup {0} \subseteq Int
      BY AccountingAssumption
    <3>2. returns \in Ints /\ Profit(returns) \in Int
      BY MarkInts
    <3> QED
      BY <3>1, <3>2 DEF TypeInv, TypeOK, Period, Ints, Integral
  <2>6. Nav(cash, positions)' = Nav(cash, positions) + Profit(returns)
    <3>1. Nav(cash, positions)' = Nav(cash + Proceeds(closed, marked), after)
      BY <2>1 DEF Nav
    <3>2. closed \in SUBSET Securities
      OBVIOUS
    <3> QED
      BY <3>1, <3>2, MarkMovesNav
  <2>7. Chained'
    <3>1. Nav(cash, positions) = period.start + period.pnl - period.cost
      BY <2>1, <2>2 DEF Chained
    <3>2. Nav(cash, positions)' = period'.start + period'.pnl - period'.cost
      BY <2>3, <2>4, <2>5, <2>6, <3>1
    <3>3. rows' # <<>> => period'.start = rows'[Len(rows')].end
      BY <2>1, <2>2, <2>3 DEF Chained
    <3>4. at' = "mark"
      BY <2>1
    <3> QED
      BY <3>2, <3>3, <3>4 DEF Chained
  <2>8. Valued'
    <3>1. ASSUME NEW s \in Held'
          PROVE  positions'[s] = period'.start * (period'.target[s] * period'.factor[s])
      <4>1. s \in Securities /\ after[s] # 0
        BY <2>1 DEF Held
      <4>2. s \in Held /\ after[s] = positions[s] * (1 + returns[s])
        BY <4>1 DEF Marked
      <4>3. positions[s] = period.start * (period.target[s] * period.factor[s])
        BY <2>2, <4>2 DEF Valued
      <4>4. period'.factor[s] = period.factor[s] * (1 + returns[s])
        <5>1. Factors(returns)[s] = period.factor[s] * (1 + returns[s])
          BY <4>1, <4>2 DEF Factors
        <5> QED
          BY <2>3, <5>1
      <4>5. /\ period.target[s] \in Int /\ period.factor[s] \in Int /\ returns[s] \in Int
            /\ positions'[s] = after[s]
        BY <2>1, <2>5, <4>1 DEF Ints, Integral
      <4> HIDE DEF after
      <4> QED
        BY <2>3, <2>4, <4>2, <4>3, <4>4, <4>5, TimesAgain
    <3> QED
      BY <3>1 DEF Valued
  <2>9. Reconciled'
    <3> DEFINE worth == [s \in Securities |-> period'.target[s] * (period'.factor[s] - 1)]
    <3>1. worth \in Ints /\ \A s \in Securities : worth[s] = Worth[s] + 1 * Gain(returns)[s]
      <4> SUFFICES ASSUME NEW s \in Securities
                   PROVE  worth[s] \in Int /\ worth[s] = Worth[s] + 1 * Gain(returns)[s]
        BY DEF Ints, Integral
      <4>1. /\ period.target[s] \in Int /\ period.factor[s] \in Int /\ returns[s] \in Int
            /\ period'.target[s] = period.target[s]
            /\ period'.factor[s] = Factors(returns)[s]
            /\ Worth[s] = period.target[s] * (period.factor[s] - 1)
        BY <2>3, <2>5 DEF Ints, Integral, Worth
      <4>2. CASE s \in Held
        <5>1. /\ Factors(returns)[s] = period.factor[s] * (1 + returns[s])
              /\ Gain(returns)[s] = period.target[s] * period.factor[s] * returns[s]
          BY <4>2 DEF Factors, Gain
        <5>2. period.target[s] * (period.factor[s] * (1 + returns[s]) - 1)
                = period.target[s] * (period.factor[s] - 1)
                  + period.target[s] * period.factor[s] * returns[s]
          BY <4>1, GainAgain, Zenon
        <5> QED
          BY <4>1, <5>1, <5>2
      <4>3. CASE s \notin Held
        <5>1. Factors(returns)[s] = period.factor[s] /\ Gain(returns)[s] = 0
          BY <4>3 DEF Factors, Gain
        <5> QED
          BY <4>1, <5>1
      <4> QED
        BY <4>2, <4>3
    <3>2. Total(worth) = Total(Worth) + 1 * Total(Gain(returns))
      <4> HIDE DEF worth
      <4> QED
        BY <2>4, <3>1, SumLinear
    <3>3. Total(Worth) \in Int /\ Total(Gain(returns)) \in Int
      BY <2>4, SumInt
    <3>4. period.pnl = period.start * Total(Worth)
      BY <2>2 DEF Reconciled, Worth
    <3>5. period.start * (Total(Worth) + Total(Gain(returns)))
            = period.start * Total(Worth) + period.start * Total(Gain(returns))
      BY <2>4, <3>3, Distributes
    <3>6. Total(worth) = Total(Worth) + Total(Gain(returns))
      <4> HIDE DEF worth
      <4> QED
        BY <3>2, <3>3
    <3>7. period'.pnl = period'.start * Total(worth)
      <4> HIDE DEF worth
      <4> QED
        BY <2>3, <2>4, <3>4, <3>5, <3>6
    <3> QED
      BY <3>7 DEF Reconciled
  <2>10. at' = "mark" /\ rows' = rows
    BY <2>1
  <2> QED
    BY <2>7, <2>8, <2>9, <2>10 DEF NavInv, RowsExplained
<1> QED
  BY <1>1, <1>2

\* The row says what the period did, and the next one starts from it.
LEMMA NavClose == ASSUME TypeInv, NavInv, Close PROVE NavInv'
<1>1. at = "mark" /\ Reconciled /\ Chained /\ RowsExplained
  BY DEF Close, NavInv
<1>2. /\ cash' = cash - period.borrow /\ positions' = positions
      /\ rows' = Append(rows, ClosedRow)
      /\ at' \in {"done", "rebalance"}
  BY <1>1 DEF Close, ClosedRow
<1>3. /\ ClosedRow.start = period.start /\ ClosedRow.pnl = period.pnl
      /\ ClosedRow.cost = period.cost /\ ClosedRow.borrow = period.borrow
      /\ ClosedRow.end = Nav(cash, positions) - period.borrow
  BY CloseInts DEF ClosedRow
<1>4. /\ rows \in Seq(Row) /\ Len(rows) \in Nat /\ ClosedRow \in Row
      /\ period.start \in Int /\ period.pnl \in Int /\ period.cost \in Int /\ period.borrow \in Int
  BY CloseInts DEF TypeInv, TypeOK, Period
<1>5. /\ Len(rows') = Len(rows) + 1 /\ rows'[Len(rows) + 1] = ClosedRow /\ rows' # <<>>
      /\ \A i \in 1 .. Len(rows) : rows'[i] = rows[i]
  BY <1>2, <1>4
<1>6. ClosedRow.end - ClosedRow.start = ClosedRow.pnl - ClosedRow.cost - ClosedRow.borrow
  <2>1. Nav(cash, positions) = period.start + period.pnl - period.cost
    BY <1>1 DEF Chained
  <2> QED
    BY <1>3, <1>4, <2>1
<1>7. Len(rows) >= 1 => ClosedRow.start = rows[Len(rows)].end
  BY <1>1, <1>3, <1>4 DEF Chained
<1>8. RowsExplained'
  <2> SUFFICES ASSUME NEW i \in DOMAIN rows'
               PROVE  /\ rows'[i].end - rows'[i].start
                           = rows'[i].pnl - rows'[i].cost - rows'[i].borrow
                      /\ i > 1 => rows'[i].start = rows'[i - 1].end
    BY DEF RowsExplained
  <2>1. i \in 1 .. Len(rows) + 1
    BY <1>2, <1>4, <1>5
  <2>2. CASE i \in 1 .. Len(rows)
    <3>1. i \in DOMAIN rows /\ rows'[i] = rows[i]
      BY <1>4, <1>5, <2>2
    <3>2. i > 1 => rows'[i - 1] = rows[i - 1]
      BY <1>4, <1>5, <2>2
    <3> QED
      BY <1>1, <3>1, <3>2 DEF RowsExplained
  <2>3. CASE i = Len(rows) + 1
    <3>1. rows'[i] = ClosedRow /\ i - 1 = Len(rows)
      BY <1>4, <1>5, <2>3
    <3>2. i > 1 => Len(rows) >= 1 /\ rows'[i - 1] = rows[Len(rows)]
      BY <1>4, <1>5, <2>3
    <3> QED
      BY <1>6, <1>7, <3>1, <3>2
  <2> QED
    BY <1>4, <2>1, <2>2, <2>3
<1>9. Chained'
  <2>1. Nav(cash, positions)' = ClosedRow.end
    BY <1>2 DEF Nav, ClosedRow
  <2>2. rows'[Len(rows')] = ClosedRow
    BY <1>5
  <2> QED
    BY <1>2, <2>1, <2>2 DEF Chained
<1> QED
  BY <1>2, <1>8, <1>9 DEF NavInv

LEMMA NavStep == TypeInv /\ TypeInv' /\ NavInv /\ [Next]_vars => NavInv'
<1> SUFFICES ASSUME TypeInv, TypeInv', NavInv, [Next]_vars PROVE NavInv'
  OBVIOUS
<1>1. CASE Rebalance
  <2>1. PICK target \in [Securities -> Weights \cup {0}], cost \in Charges, borrow \in Charges :
          Trade(target, cost, borrow) \/ TradeRefused(target, cost, borrow)
    BY <1>1 DEF Rebalance
  <2>2. CASE Trade(target, cost, borrow)
    BY <2>2, NavTrade
  <2>3. CASE TradeRefused(target, cost, borrow)
    BY <2>3, NavRefuse DEF TradeRefused, Refusals
  <2> QED
    BY <2>1, <2>2, <2>3
<1>2. CASE MarkStep
  BY <1>2, NavMark DEF MarkStep
<1>3. CASE MarkMissing
  BY <1>3, NavRefuse DEF MarkMissing, Refusals
<1>4. CASE Close
  BY <1>4, NavClose
<1>5. CASE UNCHANGED vars
  BY <1>5 DEF vars, NavInv, Chained, Valued, RowsExplained, Reconciled, Nav, Held
<1> QED
  BY <1>1, <1>2, <1>3, <1>4, <1>5 DEF Next

\* Cash, positions, the open period and every row keep their types, only what
\* the period targets is held, and a run is done with a row at least
\* (run_accounting).
THEOREM LedgerTyped == Spec => []TypeOK
<1>1. TypeInv => TypeOK
  BY DEF TypeInv
<1> QED
  BY TypeInit, TypeStep, <1>1, PTL DEF Spec

\* The engine's residual check never fires, and the cash ledger explains the
\* NAV at every mark and in every row, for any finite set of securities, any
\* weights, returns and charges, any number of periods and steps
\* (run_accounting; CI-045).
THEOREM LedgerExplainsNav == Spec => []CashExplainsNav
<1>1. NavInv => CashExplainsNav
  BY DEF NavInv, Chained, RowsExplained, CashExplainsNav
<1> QED
  BY TypeInit, TypeStep, NavInit, NavStep, <1>1, PTL DEF Spec

-----------------------------------------------------------------------------
(* The legs of a fractile book.                                              *)

\* A cross-section: finitely many names, by number, with whole scores.
IsCrossSection(scores) ==
  /\ IsFiniteSet(DOMAIN scores) /\ DOMAIN scores \subseteq Int
  /\ scores \in [DOMAIN scores -> Int]

\* Who stands before s in the stable order.
Ahead(scores, s) ==
  {r \in DOMAIN scores : scores[r] < scores[s] \/ (scores[r] = scores[s] /\ r < s)}

LEMMA RankOrders ==
  ASSUME NEW scores, IsCrossSection(scores), NEW r \in DOMAIN scores, NEW s \in DOMAIN scores,
         r \in Ahead(scores, s)
  PROVE  StableRank(scores, r) < StableRank(scores, s)
<1> DEFINE D == DOMAIN scores
           A == Ahead(scores, r)
           B == Ahead(scores, s)
<1>1. r \in Int /\ s \in Int /\ scores[r] \in Int /\ scores[s] \in Int
  BY DEF IsCrossSection
<1>2. A \subseteq B
  <2> SUFFICES ASSUME NEW q \in A PROVE q \in B
    OBVIOUS
  <2>1. q \in D /\ q \in Int /\ scores[q] \in Int
    BY DEF IsCrossSection, Ahead
  <2> QED
    BY <1>1, <2>1 DEF Ahead
<1>3. r \notin A /\ r \in B
  BY <1>1 DEF Ahead
<1>4. IsFiniteSet(B) /\ Cardinality(A) <= Cardinality(B) /\ Cardinality(A) # Cardinality(B)
      /\ IsFiniteSet(A)
  <2>1. IsFiniteSet(B)
    BY FS_Subset DEF IsCrossSection, Ahead
  <2> HIDE DEF A, B
  <2> QED
    BY <1>2, <1>3, <2>1, FS_Subset
<1>5. Cardinality(A) \in Nat /\ Cardinality(B) \in Nat
  BY <1>4, FS_CardinalityType
<1> QED
  BY <1>4, <1>5 DEF StableRank, Ahead

LEMMA RankRange ==
  ASSUME NEW scores, IsCrossSection(scores), NEW s \in DOMAIN scores
  PROVE  /\ StableRank(scores, s) \in 0 .. Cardinality(DOMAIN scores) - 1
         /\ Cardinality(DOMAIN scores) \in Nat \ {0}
<1> DEFINE D == DOMAIN scores
           A == Ahead(scores, s)
<1>1. IsFiniteSet(D) /\ Cardinality(D) \in Nat
  BY FS_CardinalityType DEF IsCrossSection
<1>2. IsFiniteSet(D \ {s}) /\ Cardinality(D \ {s}) = Cardinality(D) - 1
  BY <1>1, FS_RemoveElement
<1>3. s \notin A /\ A \in SUBSET (D \ {s})
  BY DEF Ahead, IsCrossSection
<1>4. Cardinality(A) \in Nat /\ Cardinality(A) <= Cardinality(D) - 1
  <2> HIDE DEF A
  <2> QED
    BY <1>2, <1>3, FS_Subset, FS_CardinalityType
<1>5. Cardinality(D) # 0
  BY <1>1, FS_EmptySet
<1> QED
  BY <1>1, <1>4, <1>5 DEF StableRank, Ahead

\* The ranks are the numbers from 0, each of one name.
LEMMA RankBijects ==
  ASSUME NEW scores, IsCrossSection(scores)
  PROVE  [s \in DOMAIN scores |-> StableRank(scores, s)]
           \in Bijection(DOMAIN scores, 0 .. Cardinality(DOMAIN scores) - 1)
<1> DEFINE D == DOMAIN scores
           n == Cardinality(D)
           rank == [s \in D |-> StableRank(scores, s)]
<1>1. IsFiniteSet(D) /\ n \in Nat
  BY FS_CardinalityType DEF IsCrossSection
<1>2. IsFiniteSet(0 .. n - 1) /\ Cardinality(0 .. n - 1) = n
  <2> HIDE DEF n
  <2> QED
    BY <1>1, FS_Interval
<1>3. rank \in [D -> 0 .. n - 1]
  BY RankRange
<1>4. ASSUME NEW r \in D, NEW s \in D, rank[r] = rank[s] PROVE r = s
  <2>1. r = s \/ r \in Ahead(scores, s) \/ s \in Ahead(scores, r)
    <3>1. r \in Int /\ s \in Int /\ scores[r] \in Int /\ scores[s] \in Int
      BY DEF IsCrossSection
    <3> QED
      BY <3>1 DEF Ahead
  <2>2. rank[r] \in Int /\ rank[s] \in Int
    BY <1>3
  <2> QED
    BY <1>4, <2>1, <2>2, RankOrders
<1>5. rank \in Injection(D, 0 .. n - 1)
  BY <1>3, <1>4 DEF Injection, IsInjective
<1>6. rank \in Surjection(D, 0 .. n - 1)
  <2> HIDE DEF rank, n, D
  <2>1. Cardinality(D) = Cardinality(0 .. n - 1)
    BY <1>2 DEF n
  <2> QED
    BY <1>2, <1>5, <2>1, FS_Injection
<1> QED
  BY <1>5, <1>6 DEF Bijection

LEMMA DivBounds ==
  ASSUME NEW a \in Int, NEW n \in Nat, n > 0
  PROVE  /\ a \div n \in Int
         /\ n * (a \div n) <= a /\ a < n * (a \div n) + n
  OBVIOUS

LEMMA Apart ==
  ASSUME NEW n \in Nat, NEW x \in Int, NEW y \in Int, x < y PROVE n * x + n <= n * y
<1>1. y - x - 1 \in Nat
  OBVIOUS
<1>2. n * (y - x - 1) >= 0
  BY <1>1
<1>3. n * (y - x - 1) = n * y - n * x - n
  OBVIOUS
<1> QED
  BY <1>2, <1>3

LEMMA DivIs ==
  ASSUME NEW a \in Int, NEW n \in Nat, n > 0, NEW c \in Int
  PROVE  a \div n = c <=> n * c <= a /\ a < n * c + n
<1> DEFINE d == a \div n
<1>1. d \in Int /\ n * d <= a /\ a < n * d + n
  BY DivBounds
<1> HIDE DEF d
<1>2. ASSUME n * c <= a, a < n * c + n PROVE d = c
  <2>1. n * c \in Int /\ n * d \in Int
    BY <1>1
  <2>2. ~ (c < d)
    BY <1>1, <1>2, <2>1, Apart
  <2>3. ~ (d < c)
    BY <1>1, <1>2, <2>1, Apart
  <2> QED
    BY <1>1, <2>2, <2>3
<1> QED
  BY <1>1, <1>2 DEF d

\* Of n ranks in k fractiles, with n = k * q + m, the top one has the last q and
\* the bottom one the first q, or q + 1 when there is a rest.
LEMMA Fractiles ==
  ASSUME NEW n \in Nat, NEW k \in Nat, 2 <= k, k <= n, NEW q \in Nat, NEW m \in 0 .. k - 1,
         n = k * q + m, NEW i \in 0 .. n - 1
  PROVE  /\ (i * k) \div n = 0 <=> i <= (IF m = 0 THEN q - 1 ELSE q)
         /\ (i * k) \div n = k - 1 <=> n - q <= i
<1>0. n > 0 /\ i \in Nat /\ i * k = k * i /\ k * i \in Nat /\ k * q \in Nat
  OBVIOUS
<1>1. (i * k) \div n = 0 <=> k * i < n
  <2>1. (i * k) \div n = 0 <=> n * 0 <= k * i /\ k * i < n * 0 + n
    BY <1>0, DivIs
  <2> QED
    BY <1>0, <2>1
<1>2. (i * k) \div n = k - 1 <=> n * k - n <= k * i
  <2>1. (i * k) \div n = k - 1 <=> n * (k - 1) <= k * i /\ k * i < n * (k - 1) + n
    BY <1>0, DivIs
  <2>2. n * (k - 1) = n * k - n /\ n * k \in Int /\ n * k = k * n
    OBVIOUS
  <2>3. k * i + k <= k * n
    BY Apart
  <2> QED
    BY <1>0, <2>1, <2>2, <2>3
<1>3. /\ i < q => k * i + k <= k * q
      /\ q < i => k * q + k <= k * i
  BY <1>0, Apart
<1>4. k * i < n <=> i <= (IF m = 0 THEN q - 1 ELSE q)
  <2>1. CASE i < q
    BY <1>0, <1>3, <2>1
  <2>2. CASE i = q
    BY <1>0, <2>2
  <2>3. CASE q < i
    BY <1>0, <1>3, <2>3
  <2> QED
    BY <1>0, <2>1, <2>2, <2>3
<1>5. n * k - n <= k * i <=> n - q <= i
  <2>1. n * k = k * n /\ k * n \in Int /\ k * (n - q) = k * n - k * q /\ n - q \in Int
    BY <1>0
  <2>2. CASE n - q < i
    <3>1. k * (n - q) + k <= k * i
      BY <1>0, <2>1, <2>2, Apart
    <3> QED
      BY <1>0, <2>1, <2>2, <3>1
  <2>3. CASE n - q = i
    BY <1>0, <2>1, <2>3
  <2>4. CASE i < n - q
    <3>1. k * i + k <= k * (n - q)
      BY <1>0, <2>1, <2>4, Apart
    <3> QED
      BY <1>0, <2>1, <2>4, <3>1
  <2> QED
    BY <1>0, <2>1, <2>2, <2>3, <2>4
<1> QED
  BY <1>1, <1>2, <1>4, <1>5

\* As many names as ranks.
LEMMA RanksCount ==
  ASSUME NEW scores, IsCrossSection(scores), NEW lo \in Nat, NEW hi \in Int,
         lo <= hi + 1, hi <= Cardinality(DOMAIN scores) - 1
  PROVE  LET some == {s \in DOMAIN scores : StableRank(scores, s) \in lo .. hi}
         IN  IsFiniteSet(some) /\ Cardinality(some) = hi + 1 - lo
<1> DEFINE D == DOMAIN scores
           n == Cardinality(D)
           rank == [s \in D |-> StableRank(scores, s)]
           some == {s \in D : StableRank(scores, s) \in lo .. hi}
           ranked == [s \in some |-> StableRank(scores, s)]
<1>1. rank \in Injection(D, 0 .. n - 1) /\ rank \in Surjection(D, 0 .. n - 1)
  BY RankBijects DEF Bijection
<1>2. IsFiniteSet(some) /\ n \in Nat
  BY FS_Subset, FS_CardinalityType DEF IsCrossSection
<1>3. ranked \in [some -> lo .. hi]
  OBVIOUS
<1>4. ranked \in Injection(some, lo .. hi)
  <2>1. \A r, s \in D : StableRank(scores, r) = StableRank(scores, s) => r = s
    BY <1>1 DEF Injection, IsInjective
  <2> QED
    BY <1>3, <2>1 DEF Injection, IsInjective
<1>5. ranked \in Surjection(some, lo .. hi)
  <2>1. ASSUME NEW i \in lo .. hi PROVE \E s \in some : ranked[s] = i
    <3>1. i \in 0 .. n - 1
      BY <1>2
    <3>2. PICK s \in D : rank[s] = i
      BY <1>1, <3>1 DEF Surjection
    <3> QED
      BY <3>2
  <2> QED
    BY <1>3, <2>1 DEF Surjection
<1>6. Cardinality(lo .. hi) = hi + 1 - lo
  BY FS_Interval
<1>7. Cardinality(some) = Cardinality(lo .. hi)
  <2> HIDE DEF some, ranked
  <2> QED
    BY <1>2, <1>4, <1>5, FS_Surjection
<1> QED
  BY <1>2, <1>6, <1>7

\* The bottom leg is the first fractile of the order and the top one the last;
\* both have names, no name is in both, and they differ by one name at most.
LEMMA Legs ==
  ASSUME NEW scores, IsCrossSection(scores), NEW k \in Int,
         FractileErrors(scores, k) = "none"
  PROVE  LET top == Top(scores, k)  bottom == Bottom(scores, k) IN
         /\ IsFiniteSet(top) /\ IsFiniteSet(bottom)
         /\ Cardinality(top) \in Nat \ {0} /\ Cardinality(bottom) \in Nat \ {0}
         /\ Cardinality(bottom) - Cardinality(top) \in 0 .. 1
         /\ top \cap bottom = {}
         /\ \A r \in top, s \in bottom : StableRank(scores, s) < StableRank(scores, r)
<1> DEFINE D == DOMAIN scores
           n == Cardinality(D)
           top == Top(scores, k)
           bottom == Bottom(scores, k)
<1>1. k \in Nat /\ 2 <= k /\ k <= n /\ n \in Nat
  <2>1. n \in Nat
    BY FS_CardinalityType DEF IsCrossSection
  <2> QED
    BY <2>1 DEF FractileErrors
<1> DEFINE q == n \div k
           m == n - k * q
           last == IF m = 0 THEN q - 1 ELSE q
<1>2. q \in Int /\ k * q <= n /\ n < k * q + k
  <2> HIDE DEF n
  <2> QED
    BY <1>1, DivBounds
<1>3. q \in Nat /\ q >= 1
  <2> HIDE DEF n, q
  <2>1. CASE q < 1
    <3>1. k * q + k <= k * 1
      BY <1>1, <1>2, <2>1, Apart
    <3> QED
      BY <1>1, <1>2, <3>1
  <2> QED
    BY <1>2, <2>1
<1>4. m \in 0 .. k - 1 /\ n = k * q + m
  <2> HIDE DEF n, q
  <2> QED
    BY <1>1, <1>2, <1>3
<1>5. \A s \in D : StableRank(scores, s) \in 0 .. n - 1
  BY RankRange
<1>6. \A s \in D : AssignFractiles(scores, k)[s] = (StableRank(scores, s) * k) \div n
  BY DEF AssignFractiles
<1> HIDE DEF n, q, m
<1>7. /\ bottom = {s \in D : StableRank(scores, s) \in 0 .. last}
      /\ top = {s \in D : StableRank(scores, s) \in n - q .. n - 1}
  <2>1. ASSUME NEW s \in D
        PROVE  /\ AssignFractiles(scores, k)[s] = 0 <=> StableRank(scores, s) \in 0 .. last
               /\ AssignFractiles(scores, k)[s] = k - 1 <=> StableRank(scores, s) \in n - q .. n - 1
    <3> DEFINE i == StableRank(scores, s)
    <3>1. i \in 0 .. n - 1 /\ AssignFractiles(scores, k)[s] = (i * k) \div n
      BY <1>5, <1>6
    <3> HIDE DEF i
    <3>2. /\ (i * k) \div n = 0 <=> i <= last
          /\ (i * k) \div n = k - 1 <=> n - q <= i
      BY <1>1, <1>3, <1>4, <3>1, Fractiles
    <3>3. AssignFractiles(scores, k)[s] = 0 <=> i \in 0 .. last
      BY <1>1, <1>3, <3>1, <3>2
    <3>4. AssignFractiles(scores, k)[s] = k - 1 <=> i \in n - q .. n - 1
      BY <1>1, <1>3, <3>1, <3>2
    <3> QED
      BY <3>3, <3>4 DEF i
  <2> QED
    BY <2>1 DEF Top, Bottom, Leg
<1>8. k * q >= 2 * q /\ last < n - q + 0 /\ last \in Nat /\ last + 1 - q \in 0 .. 1 /\ n - q \in Nat
  <2>1. k * q >= 2 * q
    <3>1. (k - 2) * q >= 0
      BY <1>1, <1>3
    <3>2. (k - 2) * q = k * q - 2 * q
      BY <1>1, <1>3
    <3> QED
      BY <1>1, <1>3, <3>1, <3>2
  <2>2. k * q \in Nat
    BY <1>1, <1>3
  <2> QED
    BY <1>1, <1>3, <1>4, <2>1, <2>2
<1>9. IsFiniteSet(bottom) /\ Cardinality(bottom) = last + 1
  BY <1>1, <1>3, <1>7, <1>8, RanksCount DEF n
<1>10. IsFiniteSet(top) /\ Cardinality(top) = q
  <2>1. n - q \in Nat /\ n - 1 \in Int /\ n - q <= n - 1 + 1
    BY <1>1, <1>3, <1>8
  <2>2. IsFiniteSet(top) /\ Cardinality(top) = n - 1 + 1 - (n - q)
    BY <1>7, <2>1, RanksCount DEF n
  <2> QED
    BY <1>1, <1>3, <2>2
<1>11. ASSUME NEW r \in top, NEW s \in bottom
       PROVE  StableRank(scores, s) < StableRank(scores, r)
  <2>1. StableRank(scores, r) \in n - q .. n - 1 /\ StableRank(scores, s) \in 0 .. last
    BY <1>7
  <2> QED
    BY <1>1, <1>3, <1>8, <2>1
<1>12. top \cap bottom = {}
  <2>1. \A s \in top \cap bottom : StableRank(scores, s) \in Int /\ StableRank(scores, s) < StableRank(scores, s)
    BY <1>1, <1>5, <1>7, <1>11
  <2> QED
    BY <2>1
<1>13. Cardinality(bottom) - Cardinality(top) \in 0 .. 1
  BY <1>3, <1>8, <1>9, <1>10
<1>14. Cardinality(top) \in Nat \ {0} /\ Cardinality(bottom) \in Nat \ {0}
  BY <1>3, <1>8, <1>9, <1>10
<1> HIDE DEF top, bottom
<1>15. QED
  BY <1>9, <1>10, <1>11, <1>12, <1>13, <1>14 DEF top, bottom

\* Who stands later in the stable order does not score less.
LEMMA LaterScoresMore ==
  ASSUME NEW scores, IsCrossSection(scores), NEW r \in DOMAIN scores, NEW s \in DOMAIN scores,
         StableRank(scores, s) < StableRank(scores, r)
  PROVE  scores[r] >= scores[s]
<1>1. scores[r] \in Int /\ scores[s] \in Int
  BY DEF IsCrossSection
<1>2. StableRank(scores, s) \in Int /\ StableRank(scores, r) \in Int
  BY RankRange
<1>3. r \notin Ahead(scores, s)
  BY <1>2, RankOrders
<1> QED
  BY <1>1, <1>3 DEF Ahead

\* A leg of n equal whole positions is within n units of what it shares out.
LEMMA EqualShares ==
  ASSUME NEW half \in Nat, NEW S, IsFiniteSet(S), Cardinality(S) \in Nat \ {0}
  PROVE  /\ half \div Cardinality(S) \in Nat
         /\ Cardinality(S) * (half \div Cardinality(S)) <= half
         /\ half < Cardinality(S) * (half \div Cardinality(S)) + Cardinality(S)
<1> DEFINE n == Cardinality(S)
           d == half \div n
<1>1. n \in Nat /\ n > 0
  OBVIOUS
<1> HIDE DEF n
<1>2. d \in Int /\ n * d <= half /\ half < n * d + n
  BY <1>1, DivBounds
<1>3. d \in Nat
  <2> HIDE DEF d
  <2>1. CASE d < 0
    <3>1. n * d + n <= n * 0
      BY <1>1, <1>2, <2>1, Apart
    <3> QED
      BY <1>1, <1>2, <3>1
  <2> QED
    BY <1>2, <2>1
<1> QED
  BY <1>2, <1>3 DEF n

\* Who is held long, and who short.
LongsOf(weights) == {s \in DOMAIN weights : weights[s] > 0}
ShortsOf(weights) == {s \in DOMAIN weights : weights[s] < 0}

\* For any cross-section, any number of fractiles and any gross, a book that
\* build_simple_portfolio answers is long the top fractile and short the bottom
\* one and nothing else; each leg holds half of the gross but for less than a
\* unit a name; the legs differ by one name at most, and no name that is held
\* long scores less than one that is short.
THEOREM SimpleBookBalanced ==
  ASSUME NEW scores, IsCrossSection(scores), NEW k \in Int, NEW half \in Nat,
         NEW marked, marked = BuildSimple(scores, k, half), marked.error = "none",
         NEW longs, longs = LongsOf(marked.weights), NEW shorts, shorts = ShortsOf(marked.weights)
  PROVE  /\ longs = Top(scores, k) /\ shorts = Bottom(scores, k)
         /\ DOMAIN marked.weights = longs \cup shorts
         /\ SumOver(marked.weights, longs) \in half - Cardinality(longs) + 1 .. half
         /\ - SumOver(marked.weights, shorts) \in half - Cardinality(shorts) + 1 .. half
         /\ Cardinality(shorts) - Cardinality(longs) \in 0 .. 1
         /\ \A r \in longs, s \in shorts : scores[r] >= scores[s]
<1> DEFINE top == Top(scores, k)
           bottom == Bottom(scores, k)
           up == half \div Cardinality(top)
           down == half \div Cardinality(bottom)
           weights == [s \in top \cup bottom |-> IF s \in top THEN up ELSE -down]
<1>1. FractileErrors(scores, k) = "none"
  BY DEF BuildSimple, Refused
<1>2. /\ IsFiniteSet(top) /\ IsFiniteSet(bottom)
      /\ Cardinality(top) \in Nat \ {0} /\ Cardinality(bottom) \in Nat \ {0}
      /\ Cardinality(bottom) - Cardinality(top) \in 0 .. 1
      /\ top \cap bottom = {}
      /\ \A r \in top, s \in bottom : StableRank(scores, s) < StableRank(scores, r)
  BY <1>1, Legs
<1>3. marked = Portfolio(weights)
  BY <1>1 DEF BuildSimple
<1>4. /\ up \in Nat /\ Cardinality(top) * up <= half /\ half < Cardinality(top) * up + Cardinality(top)
      /\ down \in Nat /\ Cardinality(bottom) * down <= half
      /\ half < Cardinality(bottom) * down + Cardinality(bottom)
  <2> HIDE DEF top, bottom
  <2> QED
    BY <1>2, EqualShares
<1> HIDE DEF top, bottom, up, down
<1>5. marked.weights = weights /\ \A s \in top \cup bottom : weights[s] # 0
  <2>1. DOMAIN weights = top \cup bottom
    OBVIOUS
  <2> HIDE DEF weights
  <2>2. ~ \E s \in DOMAIN weights : weights[s] = 0
    <3> SUFFICES ASSUME \E s \in DOMAIN weights : weights[s] = 0 PROVE FALSE
      OBVIOUS
    <3>1. Portfolio(weights) = Refused("zero weight")
      BY DEF Portfolio
    <3>2. Refused("zero weight").error # "none"
      BY DEF Refused
    <3> QED
      BY <1>3, <3>1, <3>2
  <2>3. marked = Answered(weights)
    BY <1>3, <2>2 DEF Portfolio
  <2> QED
    BY <2>1, <2>2, <2>3 DEF Answered
<1>6. up > 0 /\ down > 0
  <2>1. PICK r \in top : TRUE
    BY <1>2, FS_EmptySet
  <2>2. PICK s \in bottom : TRUE
    BY <1>2, FS_EmptySet
  <2>3. weights[r] = up /\ weights[s] = -down
    BY <1>2, <2>1, <2>2
  <2>4. weights[r] # 0 /\ weights[s] # 0
    BY <1>5, <2>1, <2>2
  <2> HIDE DEF weights
  <2> QED
    BY <1>4, <2>3, <2>4
<1>7. longs = top /\ shorts = bottom
  BY <1>2, <1>4, <1>5, <1>6 DEF LongsOf, ShortsOf
<1>8. SumOver(weights, top) = up * Cardinality(top)
  BY <1>2, <1>4, SumOverConstant
<1>9. SumOver(weights, bottom) = (-down) * Cardinality(bottom)
  <2>1. \A s \in bottom : weights[s] = -down
    BY <1>2
  <2>2. -down \in Int
    BY <1>4
  <2> HIDE DEF weights
  <2> QED
    BY <1>2, <2>1, <2>2, SumOverConstant
<1>10. SumOver(marked.weights, longs) \in half - Cardinality(longs) + 1 .. half
  <2>1. up * Cardinality(top) = Cardinality(top) * up /\ Cardinality(top) * up \in Int
    BY <1>2, <1>4
  <2> HIDE DEF weights
  <2>2. SumOver(marked.weights, longs) = Cardinality(top) * up
    BY <1>5, <1>7, <1>8, <2>1
  <2>3. Cardinality(top) * up \in half - Cardinality(top) + 1 .. half
    BY <1>2, <1>4, <2>1
  <2> QED
    BY <1>7, <2>2, <2>3
<1>11. - SumOver(marked.weights, shorts) \in half - Cardinality(shorts) + 1 .. half
  <2>1. -((-down) * Cardinality(bottom)) = Cardinality(bottom) * down
        /\ Cardinality(bottom) * down \in Int
    BY <1>2, <1>4
  <2> HIDE DEF weights
  <2>2. - SumOver(marked.weights, shorts) = Cardinality(bottom) * down
    BY <1>5, <1>7, <1>9, <2>1
  <2>3. Cardinality(bottom) * down \in half - Cardinality(bottom) + 1 .. half
    BY <1>2, <1>4, <2>1
  <2> QED
    BY <1>7, <2>2, <2>3
<1>12. ASSUME NEW r \in longs, NEW s \in shorts PROVE scores[r] >= scores[s]
  <2>1. r \in DOMAIN scores /\ s \in DOMAIN scores
    BY <1>7 DEF top, bottom, Top, Bottom, Leg
  <2> QED
    BY <1>2, <1>7, <2>1, LaterScoresMore
<1> QED
  BY <1>2, <1>5, <1>7, <1>10, <1>11, <1>12 DEF top, bottom

-----------------------------------------------------------------------------
(* Sums over parts of a set, and what is shared out in proportion.           *)

\* A set of sets is empty that has no member all smaller sets are outside of.
LEMMA NoSmallestBad ==
  ASSUME NEW U, IsFiniteSet(U), NEW Bad \in SUBSET (SUBSET U),
         \A S \in SUBSET U :
           (\A R \in SUBSET U : Cardinality(R) < Cardinality(S) => R \notin Bad) => S \notin Bad
  PROVE  Bad = {}
<1> SUFFICES ASSUME Bad # {} PROVE FALSE
  OBVIOUS
<1> DEFINE T == {Cardinality(S) : S \in Bad}
<1>1. \A S \in SUBSET U : Cardinality(S) \in Nat
  BY FS_Subset, FS_CardinalityType
<1>2. T \in SUBSET Nat /\ T # {}
  BY <1>1
<1>3. PICK c \in T : \A d \in T : c <= d
  BY <1>2, LeastNat
<1>4. PICK S \in Bad : Cardinality(S) = c
  BY <1>3
<1>5. ASSUME NEW R \in SUBSET U, Cardinality(R) < Cardinality(S) PROVE R \notin Bad
  <2> SUFFICES ASSUME R \in Bad PROVE FALSE
    OBVIOUS
  <2>1. c <= Cardinality(R) /\ c \in Nat /\ Cardinality(R) \in Nat
    BY <1>1, <1>2, <1>3
  <2> QED
    BY <1>4, <1>5, <2>1
<1> QED
  BY <1>4, <1>5

\* A sum may take out any of its elements.
LEMMA SumsAny ==
  ASSUME NEW U, IsFiniteSet(U), NEW f \in Integral(U), NEW V \in SUBSET U, NEW z \in V
  PROVE  Sums(f, U)[V] = f[z] + Sums(f, U)[V \ {z}]
<1> DEFINE Splits(S, x) == Sums(f, U)[S] = f[x] + Sums(f, U)[S \ {x}]
           Bad == {S \in SUBSET U : \E x \in S : ~ Splits(S, x)}
<1>1. ASSUME NEW S \in SUBSET U,
             \A R \in SUBSET U : Cardinality(R) < Cardinality(S) => R \notin Bad
      PROVE  S \notin Bad
  <2> SUFFICES ASSUME NEW x \in S PROVE Splits(S, x)
    OBVIOUS
  <2> DEFINE y == First(S)
  <2>1. y \in S /\ Splits(S, y)
    BY SmallerSet, SumsUnfold
  <2> HIDE DEF y
  <2>2. CASE x = y
    BY <2>1, <2>2
  <2>3. CASE x # y
    <3> DEFINE A == S \ {y}
               B == S \ {x}
               C == S \ {x, y}
    <3>1. /\ A \in SUBSET U /\ B \in SUBSET U /\ C \in SUBSET U
          /\ x \in A /\ y \in B /\ A \ {x} = C /\ B \ {y} = C
      BY <2>1, <2>3
    <3>2. IsFiniteSet(S) /\ Cardinality(S) \in Nat
      BY FS_Subset, FS_CardinalityType
    <3>3. Cardinality(A) < Cardinality(S) /\ Cardinality(B) < Cardinality(S)
      <4>1. Cardinality(A) = Cardinality(S) - 1 /\ Cardinality(B) = Cardinality(S) - 1
        BY <2>1, <3>2, FS_RemoveElement
      <4> QED
        BY <3>2, <4>1
    <3>4. Splits(A, x) /\ Splits(B, y)
      BY <1>1, <3>1, <3>3
    <3>5. Sums(f, U)[C] \in Int /\ f[x] \in Int /\ f[y] \in Int
      BY <2>1, <3>1, SumsInt DEF Integral
    <3>6. /\ Sums(f, U)[S] = f[y] + Sums(f, U)[A]
          /\ Sums(f, U)[A] = f[x] + Sums(f, U)[C]
          /\ Sums(f, U)[B] = f[y] + Sums(f, U)[C]
      BY <2>1, <3>1, <3>4
    <3> HIDE DEF A, C
    <3>7. Sums(f, U)[S] = f[x] + Sums(f, U)[B]
      BY <3>5, <3>6
    <3> QED
      BY <3>7
  <2> QED
    BY <2>2, <2>3
<1>2. Bad = {}
  <2> Bad \in SUBSET (SUBSET U)
    OBVIOUS
  <2> HIDE DEF Bad
  <2> QED
    BY <1>1, NoSmallestBad
<1> QED
  BY <1>2

\* A sum over a part is the sum of what is zero outside of it.
LEMMA SumOverPart ==
  ASSUME NEW D, IsFiniteSet(D), NEW P \in SUBSET D, NEW f \in Integral(D)
  PROVE  SumOver(f, P) = SumOver([s \in D |-> IF s \in P THEN f[s] ELSE 0], D)
<1> DEFINE g == [s \in D |-> IF s \in P THEN f[s] ELSE 0]
           h == [s \in P |-> f[s]]
           Bad == {R \in SUBSET D : Sums(g, D)[R] # Sums(h, P)[R \cap P]}
<1>1. IsFiniteSet(P) /\ h \in Integral(P) /\ g \in Integral(D)
  BY FS_Subset DEF Integral
<1>2. {} \notin Bad
  <2>1. Sums(g, D)[{}] = 0
    BY SumsUnfold
  <2>2. Sums(h, P)[{}] = 0
    BY <1>1, SumsUnfold
  <2>3. {} \cap P = {}
    OBVIOUS
  <2> HIDE DEF g, h
  <2> QED
    BY <2>1, <2>2, <2>3
<1>3. ASSUME NEW R \in SUBSET D, R # {}, R \ {First(R)} \notin Bad PROVE R \notin Bad
  <2> DEFINE x == First(R)
             Q == R \ {x}
  <2>1. x \in R /\ x \in D /\ Q \in SUBSET D
    BY <1>3, SmallerSet
  <2>2. Sums(g, D)[R] = g[x] + Sums(g, D)[Q]
    BY <1>3, SumsUnfold
  <2>3. Sums(g, D)[Q] = Sums(h, P)[Q \cap P]
    BY <1>3, <2>1
  <2> HIDE DEF x
  <2>4. CASE x \in P
    <3>1. g[x] = f[x] /\ h[x] = f[x]
      BY <2>1, <2>4
    <3>2. R \cap P \in SUBSET P /\ x \in R \cap P /\ (R \cap P) \ {x} = Q \cap P
      BY <2>1, <2>4
    <3> HIDE DEF g, h, Q
    <3>3. Sums(h, P)[R \cap P] = h[x] + Sums(h, P)[(R \cap P) \ {x}]
      BY <1>1, <3>2, SumsAny
    <3> QED
      BY <2>2, <2>3, <3>1, <3>2, <3>3
  <2>5. CASE x \notin P
    <3>1. g[x] = 0 /\ R \cap P = Q \cap P
      BY <2>1, <2>5
    <3>2. Sums(g, D)[Q] \in Int
      BY <1>1, <2>1, SumsInt
    <3> HIDE DEF g, h, Q
    <3> QED
      BY <2>2, <2>3, <3>1, <3>2
  <2> QED
    BY <2>4, <2>5
<1>4. Bad = {}
  <2> Bad \in SUBSET (SUBSET D)
    OBVIOUS
  <2> HIDE DEF Bad
  <2> QED
    BY <1>2, <1>3, NoBadSet
<1>5. Sums(g, D)[D] = Sums(h, P)[P]
  <2>1. D \cap P = P
    OBVIOUS
  <2> HIDE DEF g, h
  <2> QED
    BY <1>4, <2>1
<1>6. SumOver(f, P) = SumOver(h, P)
  BY DEF SumOver, MapThenSumSet, MapThenFoldSet
<1> QED
  BY <1>5, <1>6, SumIsSums

LEMMA SumOverNat ==
  ASSUME NEW S, IsFiniteSet(S), NEW f, \A s \in S : f[s] \in Nat
  PROVE  SumOver(f, S) \in Nat
<1> DEFINE Bad == {R \in SUBSET S : Sums(f, S)[R] \notin Nat}
<1>1. {} \notin Bad
  <2>1. Sums(f, S)[{}] = 0
    BY SumsUnfold
  <2> QED
    BY <2>1
<1>2. ASSUME NEW R \in SUBSET S, R # {}, R \ {First(R)} \notin Bad
      PROVE  R \notin Bad
  <2>1. First(R) \in S /\ R \ {First(R)} \in SUBSET S
    BY <1>2, SmallerSet
  <2>2. Sums(f, S)[R] = f[First(R)] + Sums(f, S)[R \ {First(R)}]
    BY <1>2, SumsUnfold
  <2>3. f[First(R)] \in Nat /\ Sums(f, S)[R \ {First(R)}] \in Nat
    BY <1>2, <2>1
  <2> QED
    BY <2>2, <2>3
<1>3. Bad = {}
  <2> Bad \in SUBSET (SUBSET S)
    OBVIOUS
  <2> HIDE DEF Bad
  <2> QED
    BY <1>1, <1>2, NoBadSet
<1> QED
  BY <1>3, SumIsSums

LEMMA DivNat ==
  ASSUME NEW a \in Nat, NEW n \in Nat, n > 0 PROVE a \div n \in Nat
<1> DEFINE d == a \div n
<1>1. d \in Int /\ a < n * d + n
  BY DivBounds
<1> HIDE DEF d
<1>2. CASE d < 0
  <2>1. n * d + n <= n * 0
    BY <1>1, <1>2, Apart
  <2> QED
    BY <1>1, <2>1
<1> QED
  BY <1>1, <1>2 DEF d

\* Only the values in the set count.
LEMMA SumOverSame ==
  \A f, S : SumOver(f, S) = SumOver([s \in S |-> f[s]], S)
  BY DEF SumOver, MapThenSumSet, MapThenFoldSet

LEMMA SumOverWhole ==
  ASSUME NEW S, IsFiniteSet(S), NEW f, \A s \in S : f[s] \in Int
  PROVE  SumOver(f, S) \in Int
<1> DEFINE g == [s \in S |-> f[s]]
<1>1. g \in Integral(S)
  BY DEF Integral
<1>2. SumOver(g, S) \in Int
  <2> HIDE DEF g
  <2> QED
    BY <1>1, SumOverInt
<1> QED
  BY <1>2, SumOverSame

\* A sum is that of a part and that of the rest.
LEMMA SumOverSplit ==
  ASSUME NEW D, IsFiniteSet(D), NEW P \in SUBSET D, NEW f, \A s \in D : f[s] \in Int
  PROVE  SumOver(f, D) = SumOver(f, P) + SumOver(f, D \ P)
<1> DEFINE g == [s \in D |-> f[s]]
           R == D \ P
           in == [s \in D |-> IF s \in P THEN g[s] ELSE 0]
           out == [s \in D |-> IF s \in R THEN g[s] ELSE 0]
<1>1. g \in Integral(D) /\ in \in Integral(D) /\ out \in Integral(D) /\ R \in SUBSET D
  BY DEF Integral
<1>2. \A s \in D : g[s] = in[s] + 1 * out[s]
  OBVIOUS
<1>3. SumOver(g, D) = SumOver(in, D) + 1 * SumOver(out, D)
  <2> HIDE DEF g, in, out
  <2> QED
    BY <1>1, <1>2, SumOverLinear
<1>4. SumOver(g, P) = SumOver(in, D) /\ SumOver(g, R) = SumOver(out, D)
  <2> HIDE DEF g, R
  <2> QED
    BY <1>1, SumOverPart
<1>5. SumOver(in, D) \in Int /\ SumOver(out, D) \in Int
  <2> HIDE DEF in, out
  <2> QED
    BY <1>1, SumOverInt
<1>6. SumOver(g, D) = SumOver(f, D) /\ SumOver(g, P) = SumOver(f, P) /\ SumOver(g, R) = SumOver(f, R)
  <2>1. [s \in P |-> g[s]] = [s \in P |-> f[s]] /\ [s \in R |-> g[s]] = [s \in R |-> f[s]]
    BY <1>1
  <2>2. SumOver(g, P) = SumOver([s \in P |-> g[s]], P) /\ SumOver(f, P) = SumOver([s \in P |-> f[s]], P)
    BY SumOverSame
  <2>3. SumOver(g, R) = SumOver([s \in R |-> g[s]], R) /\ SumOver(f, R) = SumOver([s \in R |-> f[s]], R)
    BY SumOverSame
  <2>4. SumOver(g, D) = SumOver(f, D)
    BY SumOverSame
  <2> HIDE DEF g, R
  <2> QED
    BY <2>1, <2>2, <2>3, <2>4
<1> HIDE DEF g, in, out
<1> QED
  BY <1>3, <1>4, <1>5, <1>6

\* A sum of multiples is the multiple of the sum.
LEMMA SumOverTimes ==
  ASSUME NEW S, IsFiniteSet(S), NEW a \in Int, NEW f, \A s \in S : f[s] \in Int
  PROVE  SumOver([s \in S |-> a * f[s]], S) = a * SumOver(f, S)
<1> DEFINE g == [s \in S |-> f[s]]
           zero == [s \in S |-> 0]
           h == [s \in S |-> a * f[s]]
<1>1. g \in Integral(S) /\ zero \in Integral(S) /\ h \in Integral(S)
  BY DEF Integral
<1>2. \A s \in S : h[s] = zero[s] + a * g[s]
  OBVIOUS
<1>3. \A s \in S : zero[s] = 0
  OBVIOUS
<1>4. SumOver(g, S) = SumOver(f, S)
  BY SumOverSame
<1> HIDE DEF g, zero, h
<1>5. SumOver(h, S) = SumOver(zero, S) + a * SumOver(g, S)
  BY <1>1, <1>2, SumOverLinear
<1>6. SumOver(zero, S) = 0 * Cardinality(S)
  BY <1>3, SumOverConstant
<1>7. Cardinality(S) \in Nat /\ SumOver(g, S) \in Int
  BY <1>1, FS_CardinalityType, SumOverInt
<1>8. SumOver(h, S) = a * SumOver(f, S)
  BY <1>4, <1>5, <1>6, <1>7
<1> QED
  BY <1>8 DEF h

\* A sum is no larger than that of larger values.
LEMMA SumOverOrder ==
  ASSUME NEW S, IsFiniteSet(S), NEW f, NEW g,
         \A s \in S : f[s] \in Int /\ g[s] \in Int /\ f[s] <= g[s]
  PROVE  SumOver(f, S) <= SumOver(g, S)
<1> DEFINE f1 == [s \in S |-> f[s]]
           g1 == [s \in S |-> g[s]]
           h == [s \in S |-> g[s] - f[s]]
<1>1. f1 \in Integral(S) /\ g1 \in Integral(S) /\ h \in Integral(S)
  BY DEF Integral
<1>2. \A s \in S : h[s] = g1[s] + (-1) * f1[s]
  OBVIOUS
<1>3. \A s \in S : h[s] \in Nat
  OBVIOUS
<1>4. SumOver(f1, S) = SumOver(f, S) /\ SumOver(g1, S) = SumOver(g, S)
  BY SumOverSame
<1> HIDE DEF f1, g1, h
<1>5. SumOver(h, S) = SumOver(g1, S) + (-1) * SumOver(f1, S)
  BY <1>1, <1>2, SumOverLinear
<1>6. SumOver(h, S) \in Nat
  BY <1>3, SumOverNat
<1>7. SumOver(f1, S) \in Int /\ SumOver(g1, S) \in Int
  BY <1>1, SumOverInt
<1> QED
  BY <1>4, <1>5, <1>6, <1>7

LEMMA TimesOrder ==
  ASSUME NEW n \in Nat, n > 0, NEW x \in Int, NEW y \in Int, n * x <= n * y
  PROVE  x <= y
<1>1. CASE y < x
  <2>1. n * y + n <= n * x
    BY <1>1, Apart
  <2> QED
    BY <2>1
<1> QED
  BY <1>1

LEMMA DivOrder ==
  ASSUME NEW n \in Nat, n > 0, NEW a \in Int, NEW b \in Int, a <= b
  PROVE  a \div n <= b \div n
<1> DEFINE d == a \div n
           e == b \div n
<1>1. d \in Int /\ n * d <= a
  BY DivBounds
<1>2. e \in Int /\ b < n * e + n
  BY DivBounds
<1> HIDE DEF d, e
<1>3. CASE e < d
  <2>1. n * e + n <= n * d
    BY <1>1, <1>2, <1>3, Apart
  <2> QED
    BY <1>1, <1>2, <2>1
<1> QED
  BY <1>1, <1>2, <1>3 DEF d, e

LEMMA TimesKeepsOrder ==
  ASSUME NEW n \in Nat, NEW x \in Int, NEW y \in Int, x <= y PROVE x * n <= y * n
  OBVIOUS

\* What is shared out in proportion to f: never more than there is, less than it
\* by a unit a name at most, and no less to a name that has more.

LEMMA Shares ==
  ASSUME NEW S, IsFiniteSet(S), NEW f, \A s \in S : f[s] \in Nat,
         NEW room \in Nat, NEW whole, whole = SumOver(f, S), whole # 0,
         NEW g, \A s \in S : g[s] = (f[s] * room) \div whole
  PROVE  /\ \A s \in S : g[s] \in Nat
         /\ SumOver(g, S) \in room - Cardinality(S) .. room
         /\ \A r, s \in S : f[r] >= f[s] => g[r] >= g[s]
<1>1. whole \in Nat /\ whole > 0
  <2>1. SumOver(f, S) \in Nat
    BY SumOverNat
  <2> QED
    BY <2>1
<1>2. ASSUME NEW s \in S
      PROVE  g[s] \in Nat /\ whole * g[s] <= room * f[s] /\ room * f[s] <= whole * (g[s] + 1)
  <2>1. f[s] * room \in Nat /\ f[s] * room = room * f[s]
    OBVIOUS
  <2>2. g[s] \in Nat
    BY <1>1, <2>1, DivNat
  <2> DEFINE v == f[s] * room
  <2>3. whole * (v \div whole) <= v /\ v < whole * (v \div whole) + whole
    BY <1>1, <2>1, DivBounds
  <2>4. whole * (g[s] + 1) = whole * g[s] + whole
    BY <1>1, <2>2
  <2>5. g[s] = v \div whole /\ whole * g[s] \in Nat /\ v \in Nat
    BY <1>1, <2>1, <2>2
  <2> HIDE DEF v
  <2>6. whole * g[s] <= v /\ v <= whole * g[s] + whole
    BY <1>1, <2>3, <2>5
  <2> QED
    BY <2>1, <2>2, <2>4, <2>6 DEF v
<1> DEFINE G == [s \in S |-> whole * g[s]]
           F == [s \in S |-> room * f[s]]
           g1 == [s \in S |-> g[s] + 1]
           G1 == [s \in S |-> whole * g1[s]]
<1>3. SumOver(g, S) \in Int /\ SumOver(f, S) \in Int /\ Cardinality(S) \in Nat
  BY <1>2, SumOverWhole, FS_CardinalityType
<1>4. SumOver(G, S) = whole * SumOver(g, S) /\ SumOver(F, S) = room * SumOver(f, S)
  BY <1>1, <1>2, SumOverTimes
<1>5. SumOver(G, S) <= SumOver(F, S)
  <2>1. \A s \in S : G[s] \in Int /\ F[s] \in Int /\ G[s] <= F[s]
    BY <1>1, <1>2
  <2> HIDE DEF G, F
  <2> QED
    BY <2>1, SumOverOrder
<1>6. SumOver(g, S) <= room
  <2>1. whole * SumOver(g, S) <= whole * room
    <3>1. room * whole = whole * room
      BY <1>1
    <3> HIDE DEF G, F
    <3> QED
      BY <1>4, <1>5, <3>1
  <2> QED
    BY <1>1, <1>3, <2>1, TimesOrder
<1>7. SumOver(g1, S) = SumOver(g, S) + Cardinality(S)
  <2> DEFINE h == [s \in S |-> g[s]]
             one == [s \in S |-> 1]
  <2>1. h \in Integral(S) /\ one \in Integral(S) /\ g1 \in Integral(S)
    BY <1>2 DEF Integral
  <2>2. (\A s \in S : g1[s] = h[s] + 1 * one[s]) /\ (\A s \in S : one[s] = 1)
    BY <1>2
  <2>3. SumOver(h, S) = SumOver(g, S)
    BY SumOverSame
  <2> HIDE DEF h, one, g1
  <2>4. SumOver(g1, S) = SumOver(h, S) + 1 * SumOver(one, S)
    BY <2>1, <2>2, SumOverLinear
  <2>5. SumOver(one, S) = 1 * Cardinality(S)
    BY <2>2, SumOverConstant
  <2> QED
    BY <1>3, <2>3, <2>4, <2>5
<1>8. room <= SumOver(g, S) + Cardinality(S)
  <2>1. \A s \in S : F[s] \in Int /\ G1[s] \in Int /\ F[s] <= G1[s]
    BY <1>1, <1>2
  <2>2. SumOver(F, S) <= SumOver(G1, S)
    <3> HIDE DEF F, G1
    <3> QED
      BY <2>1, SumOverOrder
  <2>3. SumOver(G1, S) = whole * SumOver(g1, S)
    <3>1. \A s \in S : g1[s] \in Int
      BY <1>2
    <3> HIDE DEF g1
    <3> QED
      BY <1>1, <3>1, SumOverTimes
  <2>4. room * whole = whole * room
    BY <1>1
  <2> HIDE DEF F, G1, g1
  <2>5. whole * room <= whole * SumOver(g1, S)
    BY <1>4, <2>2, <2>3, <2>4
  <2>6. whole * room <= whole * (SumOver(g, S) + Cardinality(S))
    BY <1>7, <2>5
  <2> QED
    BY <1>1, <1>3, <2>6, TimesOrder
<1>9. ASSUME NEW r \in S, NEW s \in S, f[r] >= f[s] PROVE g[r] >= g[s]
  <2>1. f[s] * room <= f[r] * room /\ f[s] * room \in Int /\ f[r] * room \in Int
    BY <1>9, TimesKeepsOrder
  <2>2. (f[s] * room) \div whole <= (f[r] * room) \div whole
    BY <1>1, <2>1, DivOrder
  <2>3. g[s] <= g[r]
    BY <2>2
  <2> QED
    BY <1>2, <2>3
<1>10. SumOver(g, S) \in room - Cardinality(S) .. room
  BY <1>3, <1>6, <1>8
<1> QED
  BY <1>2, <1>9, <1>10

-----------------------------------------------------------------------------
(* The caps of a signal-weighted book.                                       *)

\* p is the passes up to the n-th.
PassesUpTo(p, n, start, cap, total) ==
  p = [i \in 0 .. n |-> IF i = 0 THEN start ELSE CapPass(cap, total, p[i - 1])]

Passes(n, start, cap, total) == CHOOSE p : PassesUpTo(p, n, start, cap, total)

Unpinned(magnitudes) == [pinned |-> {}, current |-> magnitudes]

LEMMA CapsArePasses ==
  \A magnitudes, cap, total :
    ApplyCaps(magnitudes, cap, total)
      = Passes(Cardinality(DOMAIN magnitudes), Unpinned(magnitudes), cap, total)
          [Cardinality(DOMAIN magnitudes)].current
  BY DEF ApplyCaps, Passes, PassesUpTo, Unpinned

LEMMA PassesExist ==
  ASSUME NEW n \in Nat, NEW start, NEW cap, NEW total
  PROVE  \E p : PassesUpTo(p, n, start, cap, total)
<1> DEFINE T == {m \in Nat : ~ \E p : PassesUpTo(p, m, start, cap, total)}
<1> SUFFICES ASSUME T # {} PROVE FALSE
  OBVIOUS
<1>1. PICK m \in T : \A k \in T : m <= k
  <2> T \in SUBSET Nat
    OBVIOUS
  <2> QED
    BY LeastNat
<1>2. CASE m = 0
  <2> DEFINE p == [i \in 0 .. 0 |-> start]
  <2>1. PassesUpTo(p, 0, start, cap, total)
    BY DEF PassesUpTo
  <2> QED
    BY <1>2, <2>1
<1>3. CASE m # 0
  <2>1. m - 1 \in Nat /\ ~ (m <= m - 1)
    BY <1>3
  <2>2. PICK p : PassesUpTo(p, m - 1, start, cap, total)
    BY <1>1, <2>1
  <2> DEFINE q == [i \in 0 .. m |-> IF i = m THEN CapPass(cap, total, p[m - 1]) ELSE p[i]]
  <2>3. ASSUME NEW i \in 0 .. m
        PROVE  q[i] = IF i = 0 THEN start ELSE CapPass(cap, total, q[i - 1])
    <3>1. CASE i = m
      BY <1>3, <2>1, <3>1
    <3>2. CASE i # m
      <4>1. i \in 0 .. m - 1 /\ (i # 0 => i - 1 \in 0 .. m - 1 /\ i - 1 \in 0 .. m /\ i - 1 # m)
        BY <2>1, <3>2
      <4>2. p[i] = IF i = 0 THEN start ELSE CapPass(cap, total, p[i - 1])
        BY <2>2, <4>1 DEF PassesUpTo
      <4> QED
        BY <3>2, <4>1, <4>2
    <3> QED
      BY <3>1, <3>2
  <2>4. q = [i \in 0 .. m |-> IF i = 0 THEN start ELSE CapPass(cap, total, q[i - 1])]
    BY <2>3
  <2>5. PassesUpTo(q, m, start, cap, total)
    BY <2>4 DEF PassesUpTo
  <2> QED
    BY <1>1, <2>5
<1> QED
  BY <1>2, <1>3

LEMMA PassesUnfold ==
  ASSUME NEW n \in Nat, NEW start, NEW cap, NEW total, NEW i \in 0 .. n
  PROVE  Passes(n, start, cap, total)[i]
           = IF i = 0 THEN start ELSE CapPass(cap, total, Passes(n, start, cap, total)[i - 1])
<1>1. PassesUpTo(Passes(n, start, cap, total), n, start, cap, total)
  BY PassesExist DEF Passes
<1> QED
  BY <1>1 DEF PassesUpTo

\* Positions are whole and together no more than the total; who is pinned is at
\* the cap, and who has more is pinned first or has no less.
InProportion(state, given) ==
  \A r, s \in DOMAIN given :
    given[r] >= given[s] /\ r \notin state.pinned =>
      s \notin state.pinned /\ state.current[r] >= state.current[s]

IsCapping(state, given, cap, total) ==
  /\ state = [pinned |-> state.pinned, current |-> state.current]
  /\ state.pinned \subseteq DOMAIN given /\ state.current \in [DOMAIN given -> Nat]
  /\ \A s \in state.pinned : state.current[s] = cap
  /\ SumOver(state.current, DOMAIN given) <= total
  /\ InProportion(state, given)

OverCap(state, cap) == {s \in DOMAIN state.current \ state.pinned : state.current[s] > cap}

\* A pass with somebody over the cap pins one name more at least.
LEMMA PassPins ==
  ASSUME NEW given, IsFiniteSet(DOMAIN given), NEW cap \in Nat, NEW total \in Int,
         NEW state, IsCapping(state, given, cap, total)
  PROVE  /\ IsCapping(CapPass(cap, total, state), given, cap, total)
         /\ OverCap(state, cap) = {} => CapPass(cap, total, state) = state
         /\ OverCap(state, cap) # {} =>
              Cardinality(state.pinned) + 1 <= Cardinality(CapPass(cap, total, state).pinned)
<1> DEFINE D == DOMAIN given
           overs == OverCap(state, cap)
           pinned == state.pinned \cup overs
           free == D \ pinned
           remaining == total - cap * Cardinality(pinned)
           freeSum == SumOver(state.current, free)
           share(s) == IF freeSum = 0 \/ remaining <= 0 THEN 0
                       ELSE (state.current[s] * remaining) \div freeSum
           next == [pinned |-> pinned,
                    current |-> [s \in D |-> IF s \in pinned THEN cap ELSE share(s)]]
<1>1. DOMAIN state.current = D /\ \A s \in D : state.current[s] \in Nat
  BY DEF IsCapping
<1>2. CapPass(cap, total, state) = IF overs = {} THEN state ELSE next
  BY <1>1 DEF CapPass, OverCap
<1>3. overs \subseteq D /\ pinned \subseteq D /\ overs \cap state.pinned = {}
  BY <1>1 DEF OverCap, IsCapping
<1>4. /\ IsFiniteSet(pinned) /\ IsFiniteSet(free) /\ IsFiniteSet(state.pinned)
      /\ Cardinality(pinned) \in Nat /\ Cardinality(state.pinned) \in Nat
  <2> HIDE DEF overs
  <2>1. state.pinned \subseteq D
    BY DEF IsCapping
  <2>2. IsFiniteSet(pinned) /\ IsFiniteSet(free) /\ IsFiniteSet(state.pinned)
    BY <1>3, <2>1, FS_Subset
  <2> QED
    BY <2>2, FS_CardinalityType
<1>5. remaining \in Int
  BY <1>4
<1>6. freeSum \in Nat
  BY <1>1, <1>4, SumOverNat
<1>7. freeSum <= remaining
  <2> DEFINE capped == [s \in pinned |-> cap]
  <2>1. SumOver(state.current, D) = SumOver(state.current, pinned) + freeSum
    <3> HIDE DEF pinned
    <3> QED
      BY <1>1, <1>3, SumOverSplit
  <2>2. \A s \in pinned : capped[s] \in Int /\ state.current[s] \in Int /\ capped[s] <= state.current[s]
    BY <1>1, <1>3 DEF IsCapping, OverCap
  <2>3. \A s \in pinned : capped[s] = cap
    OBVIOUS
  <2> HIDE DEF capped, pinned, freeSum, free
  <2>4. SumOver(capped, pinned) <= SumOver(state.current, pinned)
    BY <1>4, <2>2, SumOverOrder
  <2>5. SumOver(capped, pinned) = cap * Cardinality(pinned)
    BY <1>4, <2>3, SumOverConstant
  <2>6. SumOver(state.current, D) <= total
    BY DEF IsCapping
  <2>7. SumOver(state.current, pinned) \in Int
    BY <1>4, <2>2, SumOverWhole
  <2>8. cap * Cardinality(pinned) \in Int
    BY <1>4
  <2> QED
    BY <1>6, <2>1, <2>4, <2>5, <2>6, <2>7, <2>8
<1> HIDE DEF freeSum, remaining
<1>8. /\ \A s \in free : share(s) \in Nat
      /\ SumOver([s \in free |-> share(s)], free) <= remaining
      /\ \A r, s \in free : state.current[r] >= state.current[s] => share(r) >= share(s)
  <2> DEFINE g == [s \in free |-> share(s)]
  <2>1. CASE freeSum = 0 \/ remaining <= 0
    <3>1. \A s \in free : g[s] = 0 /\ share(s) = 0
      BY <2>1
    <3> HIDE DEF g
    <3>2. SumOver(g, free) = 0 * Cardinality(free)
      BY <1>4, <3>1, SumOverConstant
    <3>3. Cardinality(free) \in Nat
      BY <1>4, FS_CardinalityType
    <3>4. SumOver(g, free) <= remaining
      BY <1>5, <1>6, <1>7, <3>2, <3>3
    <3> QED
      BY <3>1, <3>4 DEF g
  <2>2. CASE ~ (freeSum = 0 \/ remaining <= 0)
    <3>1. freeSum # 0 /\ remaining \in Nat
      BY <1>5, <2>2
    <3>2. \A s \in free : g[s] = share(s) /\ g[s] = (state.current[s] * remaining) \div freeSum
      BY <2>2
    <3>3. freeSum = SumOver(state.current, free) /\ \A s \in free : state.current[s] \in Nat
      BY <1>1 DEF freeSum
    <3> HIDE DEF g, free, share
    <3>4. /\ \A s \in free : g[s] \in Nat
          /\ SumOver(g, free) \in remaining - Cardinality(free) .. remaining
          /\ \A r, s \in free : state.current[r] >= state.current[s] => g[r] >= g[s]
      BY <1>4, <3>1, <3>2, <3>3, Shares
    <3>5. Cardinality(free) \in Nat
      BY <1>4, FS_CardinalityType
    <3>6. SumOver(g, free) <= remaining
      BY <1>5, <3>4, <3>5
    <3> QED
      BY <3>2, <3>4, <3>6 DEF g
  <2> QED
    BY <2>1, <2>2
<1> HIDE DEF share
<1>9. ASSUME overs # {} PROVE IsCapping(next, given, cap, total)
  <2> DEFINE after == [s \in D |-> IF s \in pinned THEN cap ELSE share(s)]
  <2>1. after \in [D -> Nat] /\ \A s \in pinned : after[s] = cap
    BY <1>3, <1>8
  <2>2. SumOver(after, D) <= total
    <3>1. \A s \in pinned : after[s] = cap
      BY <1>3
    <3>2. [s \in free |-> after[s]] = [s \in free |-> share(s)]
      OBVIOUS
    <3>3. \A s \in D : after[s] \in Int
      BY <2>1
    <3> HIDE DEF after, pinned
    <3>4. SumOver(after, D) = SumOver(after, pinned) + SumOver(after, free)
      BY <1>3, <3>3, SumOverSplit
    <3>5. SumOver(after, pinned) = cap * Cardinality(pinned)
      BY <1>4, <3>1, SumOverConstant
    <3> HIDE DEF free
    <3>6. SumOver(after, free) = SumOver([s \in free |-> share(s)], free)
      BY <3>2, SumOverSame
    <3>7. SumOver(after, free) <= remaining
      BY <1>8, <3>6
    <3>8. SumOver(after, free) \in Int
      BY <1>4, <3>3, SumOverWhole DEF free
    <3>9. cap * Cardinality(pinned) \in Int
      BY <1>4
    <3> QED
      BY <3>4, <3>5, <3>7, <3>8, <3>9 DEF remaining
  <2>3. ASSUME NEW r \in D, NEW s \in D, given[r] >= given[s], r \notin pinned
        PROVE  s \notin pinned /\ after[r] >= after[s]
    <3>1. r \notin state.pinned /\ r \notin overs
      BY <2>3
    <3>2. s \notin state.pinned /\ state.current[r] >= state.current[s]
      BY <2>3, <3>1 DEF IsCapping, InProportion
    <3>3. ~ (state.current[r] > cap)
      BY <1>1, <3>1 DEF OverCap
    <3>4. s \notin overs
      BY <1>1, <3>2, <3>3 DEF OverCap
    <3>5. r \in free /\ s \in free
      BY <2>3, <3>2, <3>4
    <3>6. share(r) >= share(s)
      BY <1>8, <3>2, <3>5
    <3> QED
      BY <2>3, <3>5, <3>6
  <2>4. next.pinned = pinned /\ next.current = after /\ next = [pinned |-> next.pinned, current |-> next.current]
    OBVIOUS
  <2>5. InProportion(next, given)
    <3> HIDE DEF after, next, pinned
    <3> QED
      BY <2>3, <2>4 DEF InProportion
  <2> HIDE DEF after, next, pinned
  <2> QED
    BY <1>3, <2>1, <2>2, <2>4, <2>5 DEF IsCapping
<1>10. ASSUME overs # {} PROVE Cardinality(state.pinned) + 1 <= Cardinality(pinned)
  <2>1. state.pinned \in SUBSET pinned /\ state.pinned # pinned
    BY <1>3, <1>10
  <2>2. Cardinality(state.pinned) <= Cardinality(pinned)
        /\ Cardinality(state.pinned) # Cardinality(pinned)
    BY <1>4, <2>1, FS_Subset
  <2> QED
    BY <1>4, <2>2
<1>11. next.pinned = pinned
  OBVIOUS
<1> HIDE DEF overs, pinned, next
<1> QED
  BY <1>2, <1>9, <1>10, <1>11 DEF overs

\* After i passes nobody is over the cap, or i names are pinned.
LEMMA PassesPin ==
  ASSUME NEW given, IsFiniteSet(DOMAIN given), NEW cap \in Nat, NEW total \in Int,
         IsCapping(Unpinned(given), given, cap, total), NEW n \in Nat, NEW j \in 0 .. n
  PROVE  LET state == Passes(n, Unpinned(given), cap, total)[j] IN
         IsCapping(state, given, cap, total) /\ (OverCap(state, cap) = {} \/ j <= Cardinality(state.pinned))
<1> DEFINE start == Unpinned(given)
           reached(i) == Passes(n, start, cap, total)[i]
           Good(i) == /\ IsCapping(reached(i), given, cap, total)
                      /\ OverCap(reached(i), cap) = {} \/ i <= Cardinality(reached(i).pinned)
           T == {i \in 0 .. n : ~ Good(i)}
<1>1. \A i \in 0 .. n : reached(i) = IF i = 0 THEN start ELSE CapPass(cap, total, reached(i - 1))
  BY PassesUnfold
<1>2. Good(0)
  <2>1. reached(0) = start
    BY <1>1
  <2>2. Cardinality(start.pinned) = 0
    BY FS_EmptySet DEF Unpinned
  <2> QED
    BY <2>1, <2>2
<1>3. ASSUME NEW i \in 1 .. n, Good(i - 1) PROVE Good(i)
  <2> DEFINE last == reached(i - 1)
  <2>1. reached(i) = CapPass(cap, total, last) /\ i \in Nat
    BY <1>1
  <2>2. IsCapping(last, given, cap, total) /\ (OverCap(last, cap) = {} \/ i - 1 <= Cardinality(last.pinned))
    BY <1>3
  <2> HIDE DEF last
  <2>3. /\ IsCapping(reached(i), given, cap, total)
        /\ OverCap(last, cap) = {} => reached(i) = last
        /\ OverCap(last, cap) # {} => Cardinality(last.pinned) + 1 <= Cardinality(reached(i).pinned)
    BY <2>1, <2>2, PassPins
  <2>4. Cardinality(last.pinned) \in Nat /\ Cardinality(reached(i).pinned) \in Nat
    <3>1. last.pinned \subseteq DOMAIN given /\ reached(i).pinned \subseteq DOMAIN given
      BY <2>2, <2>3 DEF IsCapping
    <3> QED
      BY <3>1, FS_Subset, FS_CardinalityType
  <2> HIDE DEF reached
  <2> QED
    BY <2>1, <2>2, <2>3, <2>4
<1> HIDE DEF Good
<1>4. T = {}
  <2> SUFFICES ASSUME T # {} PROVE FALSE
    OBVIOUS
  <2>1. PICK i \in T : \A k \in T : i <= k
    <3> T \in SUBSET Nat
      OBVIOUS
    <3> QED
      BY LeastNat
  <2>2. i \in 1 .. n /\ i - 1 \in 0 .. n /\ ~ (i <= i - 1)
    BY <1>2
  <2>3. Good(i - 1)
    BY <2>1, <2>2
  <2> QED
    BY <1>3, <2>2, <2>3
<1>5. Good(j)
  BY <1>4
<1> QED
  BY <1>5 DEF Good

\* As many passes as names leave nobody over the cap.
LEMMA CapsHold ==
  ASSUME NEW given, IsFiniteSet(DOMAIN given), given \in [DOMAIN given -> Nat],
         NEW cap \in Nat, NEW total \in Int, SumOver(given, DOMAIN given) <= total,
         NEW after, after = ApplyCaps(given, cap, total)
  PROVE  /\ after \in [DOMAIN given -> 0 .. cap]
         /\ SumOver(after, DOMAIN given) <= total
         /\ \A r, s \in DOMAIN given : given[r] >= given[s] => after[r] >= after[s]
<1> DEFINE D == DOMAIN given
           n == Cardinality(D)
           state == Passes(n, Unpinned(given), cap, total)[n]
<1>1. n \in Nat
  BY FS_CardinalityType
<1>2. after = state.current
  BY CapsArePasses
<1>3. IsCapping(Unpinned(given), given, cap, total)
  BY DEF IsCapping, Unpinned, InProportion
<1>4. IsCapping(state, given, cap, total) /\ (OverCap(state, cap) = {} \/ n <= Cardinality(state.pinned))
  <2> HIDE DEF n
  <2>1. n \in 0 .. n
    BY <1>1
  <2> QED
    BY <1>1, <1>3, <2>1, PassesPin
<1>5. state.pinned \subseteq D /\ state.current \in [D -> Nat]
  BY <1>4 DEF IsCapping
<1>6. ASSUME NEW s \in D PROVE state.current[s] <= cap
  <2> HIDE DEF state
  <2>1. CASE s \in state.pinned
    BY <1>4, <2>1 DEF IsCapping
  <2>2. CASE s \notin state.pinned
    <3>1. n # Cardinality(state.pinned) /\ Cardinality(state.pinned) <= n
      BY <1>5, <2>2, FS_Subset
    <3>2. Cardinality(state.pinned) \in Nat
      BY <1>5, FS_Subset, FS_CardinalityType
    <3>3. OverCap(state, cap) = {}
      <4> HIDE DEF n
      <4> QED
        BY <1>1, <1>4, <3>1, <3>2
    <3>4. ~ (state.current[s] > cap)
      BY <1>5, <2>2, <3>3 DEF OverCap
    <3> QED
      BY <1>5, <3>4
  <2> QED
    BY <2>1, <2>2
<1> HIDE DEF state
<1>7. \A s \in D : state.current[s] \in 0 .. cap
  BY <1>5, <1>6
<1>8. ASSUME NEW r \in D, NEW s \in D, given[r] >= given[s]
      PROVE  state.current[r] >= state.current[s]
  <2>1. CASE r \in state.pinned
    <3>1. state.current[r] = cap
      BY <1>4, <2>1 DEF IsCapping
    <3> QED
      BY <1>5, <1>6, <3>1
  <2>2. CASE r \notin state.pinned
    BY <1>4, <1>8, <2>2 DEF IsCapping, InProportion
  <2> QED
    BY <2>1, <2>2
<1>9. SumOver(state.current, D) <= total
  BY <1>4 DEF IsCapping
<1>10. after \in [D -> 0 .. cap]
  BY <1>2, <1>5, <1>7
<1> QED
  BY <1>2, <1>8, <1>9, <1>10

LEMMA SideHolds ==
  ASSUME NEW given, IsFiniteSet(DOMAIN given), DOMAIN given # {},
         given \in [DOMAIN given -> Nat \ {0}], NEW half \in Nat, NEW cap \in Nat,
         NEW side, side = Side(given, half, cap)
  PROVE  /\ side \in [DOMAIN given -> Nat]
         /\ SumOver(side, DOMAIN given) <= half
         /\ cap = NoCap => SumOver(side, DOMAIN given) >= half - Cardinality(DOMAIN given)
         /\ cap # NoCap => \A s \in DOMAIN given : side[s] <= cap
         /\ \A r, s \in DOMAIN given : given[r] >= given[s] => side[r] >= side[s]
<1> DEFINE D == DOMAIN given
           whole == SumOver(given, D)
           scaled == [s \in D |-> (given[s] * half) \div whole]
<1>1. side = IF cap = NoCap THEN scaled ELSE ApplyCaps(scaled, cap, half)
  BY DEF Side, Total
<1>2. Cardinality(D) \in Nat \ {0}
  BY FS_CardinalityType, FS_EmptySet
<1>3. \A s \in D : given[s] \in Nat /\ given[s] >= 1
  OBVIOUS
<1>4. whole # 0
  <2> DEFINE one == [s \in D |-> 1]
  <2>1. \A s \in D : one[s] \in Int /\ given[s] \in Int /\ one[s] <= given[s]
    BY <1>3
  <2>2. \A s \in D : one[s] = 1
    OBVIOUS
  <2> HIDE DEF one
  <2>3. SumOver(one, D) <= whole
    BY <2>1, SumOverOrder
  <2>4. SumOver(one, D) = 1 * Cardinality(D)
    BY <2>2, SumOverConstant
  <2> QED
    BY <1>2, <2>3, <2>4
<1>5. \A s \in D : scaled[s] = (given[s] * half) \div whole
  OBVIOUS
<1>6. DOMAIN scaled = D
  OBVIOUS
<1> HIDE DEF scaled
<1>7. /\ \A s \in D : scaled[s] \in Nat
      /\ SumOver(scaled, D) \in half - Cardinality(D) .. half
      /\ \A r, s \in D : given[r] >= given[s] => scaled[r] >= scaled[s]
  BY <1>3, <1>4, <1>5, Shares
<1>8. scaled \in [D -> Nat]
  BY <1>7 DEF scaled
<1>9. SumOver(scaled, D) <= half /\ SumOver(scaled, D) >= half - Cardinality(D)
  BY <1>2, <1>7
<1>10. CASE cap = NoCap
  BY <1>1, <1>7, <1>8, <1>9, <1>10
<1>11. CASE cap # NoCap
  <2>1. /\ side \in [D -> 0 .. cap]
        /\ SumOver(side, D) <= half
        /\ \A r, s \in D : scaled[r] >= scaled[s] => side[r] >= side[s]
    <3> DEFINE DD == DOMAIN scaled
    <3>1. IsFiniteSet(DD) /\ scaled \in [DD -> Nat] /\ SumOver(scaled, DD) <= half
      BY <1>6, <1>8, <1>9
    <3>2. side = ApplyCaps(scaled, cap, half)
      BY <1>1, <1>11
    <3>3. /\ side \in [DD -> 0 .. cap]
          /\ SumOver(side, DD) <= half
          /\ \A r, s \in DD : scaled[r] >= scaled[s] => side[r] >= side[s]
      BY <3>1, <3>2, CapsHold
    <3> QED
      BY <1>6, <3>3
  <2>2. \A s \in D : side[s] \in Nat /\ side[s] <= cap
    BY <2>1
  <2>3. side \in [D -> Nat]
    BY <2>1, <2>2
  <2> QED
    BY <1>7, <1>11, <2>1, <2>2, <2>3
<1> QED
  BY <1>10, <1>11

\* A sum leaves out what is zero.
LEMMA SumOverSupport ==
  ASSUME NEW S, IsFiniteSet(S), NEW f, \A s \in S : f[s] \in Int, NEW P \in SUBSET S,
         \A s \in S \ P : f[s] = 0
  PROVE  SumOver(f, P) = SumOver(f, S)
<1>1. SumOver(f, S) = SumOver(f, P) + SumOver(f, S \ P)
  BY SumOverSplit
<1>2. IsFiniteSet(S \ P) /\ IsFiniteSet(P)
  BY FS_Subset
<1>3. SumOver(f, S \ P) = 0 * Cardinality(S \ P)
  BY <1>2, SumOverConstant
<1>4. Cardinality(S \ P) \in Nat
  BY <1>2, FS_CardinalityType
<1>5. SumOver(f, P) \in Int
  BY <1>2, SumOverWhole
<1> QED
  BY <1>1, <1>3, <1>4, <1>5

\* The two sides of a book of weighting scores.
Positives(w) == {s \in DOMAIN w : w[s] > 0}
Negatives(w) == {s \in DOMAIN w : w[s] < 0}
Upper(w, half, cap) == Side([s \in Positives(w) |-> w[s]], half, cap)
Lower(w, half, cap) == Side([s \in Negatives(w) |-> -w[s]], half, cap)
Sides(w, half, cap) ==
  [s \in Positives(w) \cup Negatives(w) |->
     IF s \in Positives(w) THEN Upper(w, half, cap)[s] ELSE -Lower(w, half, cap)[s]]

LEMMA WeightedSides ==
  ASSUME NEW w, NEW half, NEW cap,
         NEW marked, marked = WeightedBook(w, half, cap), marked.error = "none"
  PROVE  /\ Positives(w) # {} /\ Negatives(w) # {}
         /\ marked.weights = [s \in {r \in DOMAIN Sides(w, half, cap) : Sides(w, half, cap)[r] # 0}
                              |-> Sides(w, half, cap)[s]]
<1> DEFINE all == Sides(w, half, cap)
           tooTight(side) == cap # NoCap /\ Cardinality(side) * cap < half
<1>1. marked = IF Positives(w) = {} \/ Negatives(w) = {} THEN Refused("degenerate leg")
             ELSE IF tooTight(Positives(w)) \/ tooTight(Negatives(w)) THEN Refused("infeasible cap")
             ELSE Portfolio(NonZero(all))
  BY DEF WeightedBook, Positives, Negatives, Sides, Upper, Lower
<1>2. Refused("degenerate leg").error # "none" /\ Refused("infeasible cap").error # "none"
  BY DEF Refused
<1>3. Positives(w) # {} /\ Negatives(w) # {} /\ marked = Portfolio(NonZero(all))
  <2> HIDE DEF all, tooTight
  <2> QED
    BY <1>1, <1>2
<1> HIDE DEF all
<1>4. NonZero(all) = [s \in {r \in DOMAIN all : all[r] # 0} |-> all[s]]
  BY DEF NonZero, Restrict
<1>5. Portfolio(NonZero(all)) = Answered(NonZero(all))
  BY <1>4 DEF Portfolio
<1> QED
  BY <1>3, <1>4, <1>5 DEF Answered, all

\* The weights follow the scores w: who is long scores above zero and who is
\* short below it, a larger score never has the smaller weight, no leg holds more
\* than half of the gross nor a name more than the cap; without a cap a leg lacks
\* at most a unit a name.
Follows(weights, w, half, cap) ==
  /\ IsFiniteSet(DOMAIN weights) /\ \A s \in DOMAIN weights : weights[s] \in Int
  /\ DOMAIN weights = LongsOf(weights) \cup ShortsOf(weights)
  /\ \A s \in LongsOf(weights) : s \in DOMAIN w /\ w[s] > 0
  /\ \A s \in ShortsOf(weights) : s \in DOMAIN w /\ w[s] < 0
  /\ \A r, s \in DOMAIN w : w[r] >= w[s] => Weight(weights, r) >= Weight(weights, s)
  /\ SumOver(weights, LongsOf(weights)) <= half
  /\ - SumOver(weights, ShortsOf(weights)) <= half
  /\ cap # NoCap => \A s \in DOMAIN weights : Abs(weights[s]) <= cap
  /\ cap = NoCap => /\ SumOver(weights, LongsOf(weights)) >= half - Cardinality(DOMAIN w)
                    /\ - SumOver(weights, ShortsOf(weights)) >= half - Cardinality(DOMAIN w)

\* What a side holds, the names it holds nothing of left out.
LEMMA LegHolds ==
  ASSUME NEW S, IsFiniteSet(S), NEW given, given \in [S -> Nat \ {0}], S # {},
         NEW half \in Nat, NEW cap \in Nat, NEW side, side = Side(given, half, cap),
         NEW N \in Nat, Cardinality(S) <= N, NEW P, P = {s \in S : side[s] # 0}
  PROVE  /\ side \in [S -> Nat]
         /\ SumOver(side, P) <= half
         /\ cap = NoCap => SumOver(side, P) >= half - N
         /\ cap # NoCap => \A s \in S : side[s] <= cap
         /\ \A r, s \in S : given[r] >= given[s] => side[r] >= side[s]
<1>1. DOMAIN given = S
  OBVIOUS
<1>2. /\ side \in [S -> Nat]
      /\ SumOver(side, S) <= half
      /\ cap = NoCap => SumOver(side, S) >= half - Cardinality(S)
      /\ cap # NoCap => \A s \in S : side[s] <= cap
      /\ \A r, s \in S : given[r] >= given[s] => side[r] >= side[s]
  BY <1>1, SideHolds
<1>3. P \in SUBSET S /\ \A s \in S \ P : side[s] = 0
  OBVIOUS
<1>4. \A s \in S : side[s] \in Int
  BY <1>2
<1>5. SumOver(side, P) = SumOver(side, S)
  BY <1>3, <1>4, SumOverSupport
<1>6. SumOver(side, S) \in Int /\ Cardinality(S) \in Nat
  BY <1>4, SumOverWhole, FS_CardinalityType
<1> QED
  BY <1>2, <1>5, <1>6

LEMMA WeightedFollows ==
  ASSUME NEW w, IsFiniteSet(DOMAIN w), \A s \in DOMAIN w : w[s] \in Int,
         NEW half \in Nat, NEW cap \in Nat,
         NEW marked, marked = WeightedBook(w, half, cap), marked.error = "none"
  PROVE  Follows(marked.weights, w, half, cap)
<1> DEFINE positive == Positives(w)
           negative == Negatives(w)
           strong == [s \in positive |-> w[s]]
           weak == [s \in negative |-> -w[s]]
           up == Upper(w, half, cap)
           down == Lower(w, half, cap)
           all == [s \in positive \cup negative |-> IF s \in positive THEN up[s] ELSE -down[s]]
           weights == [s \in {r \in positive \cup negative : all[r] # 0} |-> all[s]]
           N == Cardinality(DOMAIN w)
           P == {s \in positive : up[s] # 0}
           Q == {s \in negative : down[s] # 0}
<1>1. /\ positive # {} /\ negative # {}
      /\ marked.weights = weights
  <2>1. all = Sides(w, half, cap) /\ DOMAIN all = positive \cup negative
    BY DEF Sides
  <2> HIDE DEF all, positive, negative
  <2> QED
    BY <2>1, WeightedSides DEF positive, negative
<1> USE DEF Positives, Negatives
<1>2. /\ IsFiniteSet(positive) /\ IsFiniteSet(negative)
      /\ Cardinality(positive) <= N /\ Cardinality(negative) <= N /\ N \in Nat
  BY FS_Subset, FS_CardinalityType
<1>3. /\ strong \in [positive -> Nat \ {0}] /\ weak \in [negative -> Nat \ {0}]
      /\ positive \cap negative = {}
  OBVIOUS
<1>4. /\ up \in [positive -> Nat]
      /\ SumOver(up, P) <= half
      /\ cap = NoCap => SumOver(up, P) >= half - N
      /\ cap # NoCap => \A s \in positive : up[s] <= cap
      /\ \A r, s \in positive : strong[r] >= strong[s] => up[r] >= up[s]
  <2>1. up = Side(strong, half, cap)
    BY DEF Upper, Lower
  <2>2. P = {s \in positive : up[s] # 0}
    OBVIOUS
  <2>3. /\ IsFiniteSet(positive) /\ Cardinality(positive) <= N /\ N \in Nat
        /\ strong \in [positive -> Nat \ {0}] /\ positive # {}
    BY <1>1, <1>2, <1>3
  <2> HIDE DEF positive, negative, strong, N, up, P
  <2>4. up \in [positive -> Nat]
    BY <2>1, <2>2, <2>3, LegHolds
  <2>5. SumOver(up, P) <= half
    BY <2>1, <2>2, <2>3, LegHolds
  <2>6. cap = NoCap => SumOver(up, P) >= half - N
    BY <2>1, <2>2, <2>3, LegHolds
  <2>7. cap # NoCap => \A s \in positive : up[s] <= cap
    BY <2>1, <2>2, <2>3, LegHolds
  <2>8. \A r, s \in positive : strong[r] >= strong[s] => up[r] >= up[s]
    BY <2>1, <2>2, <2>3, LegHolds
  <2> QED
    BY <2>4, <2>5, <2>6, <2>7, <2>8
<1>5. /\ down \in [negative -> Nat]
      /\ SumOver(down, Q) <= half
      /\ cap = NoCap => SumOver(down, Q) >= half - N
      /\ cap # NoCap => \A s \in negative : down[s] <= cap
      /\ \A r, s \in negative : weak[r] >= weak[s] => down[r] >= down[s]
  <2>1. down = Side(weak, half, cap)
    BY DEF Upper, Lower
  <2>2. Q = {s \in negative : down[s] # 0}
    OBVIOUS
  <2>3. /\ IsFiniteSet(negative) /\ Cardinality(negative) <= N /\ N \in Nat
        /\ weak \in [negative -> Nat \ {0}] /\ negative # {}
    BY <1>1, <1>2, <1>3
  <2> HIDE DEF positive, negative, weak, N, down, Q
  <2>4. down \in [negative -> Nat]
    BY <2>1, <2>2, <2>3, LegHolds
  <2>5. SumOver(down, Q) <= half
    BY <2>1, <2>2, <2>3, LegHolds
  <2>6. cap = NoCap => SumOver(down, Q) >= half - N
    BY <2>1, <2>2, <2>3, LegHolds
  <2>7. cap # NoCap => \A s \in negative : down[s] <= cap
    BY <2>1, <2>2, <2>3, LegHolds
  <2>8. \A r, s \in negative : weak[r] >= weak[s] => down[r] >= down[s]
    BY <2>1, <2>2, <2>3, LegHolds
  <2> QED
    BY <2>4, <2>5, <2>6, <2>7, <2>8
<1> HIDE DEF up, down
<1>6. /\ DOMAIN weights = P \cup Q /\ P \cap Q = {}
      /\ \A s \in P : weights[s] = up[s] /\ up[s] \in Nat /\ up[s] > 0
      /\ \A s \in Q : weights[s] = -down[s] /\ down[s] \in Nat /\ down[s] > 0
  <2>1. \A s \in positive : s \notin negative /\ all[s] = up[s] /\ up[s] \in Nat
    BY <1>3, <1>4
  <2>2. \A s \in negative : s \notin positive /\ all[s] = -down[s] /\ down[s] \in Nat
    BY <1>3, <1>5
  <2>3. {r \in positive \cup negative : all[r] # 0} = P \cup Q
    <3> HIDE DEF positive, negative, all
    <3> QED
      BY <2>1, <2>2
  <2> HIDE DEF positive, negative, all
  <2> QED
    BY <2>1, <2>2, <2>3
<1>7. LongsOf(weights) = P /\ ShortsOf(weights) = Q
  <2> HIDE DEF weights, P, Q
  <2> QED
    BY <1>6 DEF LongsOf, ShortsOf
<1>8. IsFiniteSet(P) /\ IsFiniteSet(Q)
  <2>1. P \in SUBSET positive /\ Q \in SUBSET negative
    OBVIOUS
  <2> HIDE DEF P, Q, positive, negative
  <2> QED
    BY <1>2, <2>1, FS_Subset
<1>9. SumOver(weights, P) = SumOver(up, P)
  <2>1. [s \in P |-> weights[s]] = [s \in P |-> up[s]]
    BY <1>6
  <2> HIDE DEF weights, P
  <2>2. SumOver(weights, P) = SumOver([s \in P |-> weights[s]], P)
    BY SumOverSame
  <2>3. SumOver(up, P) = SumOver([s \in P |-> up[s]], P)
    BY SumOverSame
  <2> QED
    BY <2>1, <2>2, <2>3
<1>10. SumOver(weights, Q) = -SumOver(down, Q)
  <2>1. [s \in Q |-> weights[s]] = [s \in Q |-> (-1) * down[s]] /\ \A s \in Q : down[s] \in Int
    <3> HIDE DEF weights, Q
    <3> QED
      BY <1>6
  <2> HIDE DEF weights, Q
  <2>2. SumOver(weights, Q) = SumOver([s \in Q |-> weights[s]], Q)
    BY SumOverSame
  <2>3. SumOver([s \in Q |-> (-1) * down[s]], Q) = (-1) * SumOver(down, Q)
    BY <1>8, <2>1, SumOverTimes
  <2>4. SumOver(down, Q) \in Int
    BY <1>8, <2>1, SumOverWhole
  <2> QED
    BY <2>1, <2>2, <2>3, <2>4
<1>11. /\ SumOver(weights, P) <= half /\ -SumOver(weights, Q) <= half
       /\ cap = NoCap => SumOver(weights, P) >= half - N /\ -SumOver(weights, Q) >= half - N
  <2>1. SumOver(down, Q) \in Int
    <3>1. \A s \in Q : down[s] \in Int
      <4> HIDE DEF weights, Q
      <4> QED
        BY <1>6
    <3> HIDE DEF Q
    <3> QED
      BY <1>8, <3>1, SumOverWhole
  <2> HIDE DEF weights, N
  <2>2. SumOver(down, Q) <= half /\ (cap = NoCap => SumOver(down, Q) >= half - N)
    BY <1>5
  <2>3. SumOver(up, P) <= half /\ (cap = NoCap => SumOver(up, P) >= half - N)
    BY <1>4
  <2> HIDE DEF P, Q
  <2> QED
    BY <1>9, <1>10, <2>1, <2>2, <2>3
<1>12. cap # NoCap => \A s \in DOMAIN weights : Abs(weights[s]) <= cap
  <2> SUFFICES ASSUME cap # NoCap, NEW s \in P \cup Q PROVE Abs(weights[s]) <= cap
    BY <1>6
  <2>1. CASE s \in P
    <3>1. up[s] <= cap
      BY <1>4, <2>1
    <3> HIDE DEF P, Q, weights
    <3> QED
      BY <1>6, <2>1, <3>1 DEF Abs
  <2>2. CASE s \in Q
    <3>1. down[s] <= cap
      BY <1>5, <2>2
    <3> HIDE DEF P, Q, weights
    <3> QED
      BY <1>6, <2>2, <3>1 DEF Abs
  <2> QED
    BY <2>1, <2>2
<1>13. /\ \A s \in positive : Weight(weights, s) = up[s] /\ up[s] \in Nat
       /\ \A s \in negative : Weight(weights, s) = -down[s] /\ down[s] \in Nat
       /\ \A s \in DOMAIN w : s \notin positive /\ s \notin negative => Weight(weights, s) = 0
  <2>1. \A s \in positive : up[s] \in Nat /\ (s \in P <=> up[s] # 0) /\ s \notin Q
    BY <1>3, <1>4
  <2>2. \A s \in negative : down[s] \in Nat /\ (s \in Q <=> down[s] # 0) /\ s \notin P
    BY <1>3, <1>5
  <2>3. P \subseteq positive /\ Q \subseteq negative
    OBVIOUS
  <2> HIDE DEF P, Q, positive, negative, weights
  <2> QED
    BY <1>6, <2>1, <2>2, <2>3 DEF Weight
<1>14. ASSUME NEW r \in DOMAIN w, NEW s \in DOMAIN w, w[r] >= w[s]
       PROVE  Weight(weights, r) >= Weight(weights, s)
  <2>1. CASE s \in positive
    <3>1. r \in positive /\ strong[r] >= strong[s]
      BY <1>14, <2>1
    <3>2. up[r] >= up[s]
      BY <1>4, <2>1, <3>1
    <3> HIDE DEF positive, negative, weights
    <3> QED
      BY <1>13, <2>1, <3>1, <3>2
  <2>2. CASE r \in negative
    <3>1. s \in negative /\ weak[s] >= weak[r]
      BY <1>14, <2>2
    <3>2. down[s] >= down[r]
      BY <1>5, <2>2, <3>1
    <3> HIDE DEF positive, negative, weights
    <3> QED
      BY <1>13, <2>2, <3>1, <3>2
  <2>3. CASE s \notin positive /\ r \notin negative
    <3>1. Weight(weights, s) \in Int /\ Weight(weights, s) <= 0
      <4> HIDE DEF positive, negative, weights
      <4> QED
        BY <1>13, <2>3
    <3>2. Weight(weights, r) \in Nat
      <4> HIDE DEF positive, negative, weights
      <4> QED
        BY <1>13, <2>3
    <3> HIDE DEF weights
    <3> QED
      BY <3>1, <3>2
  <2> QED
    BY <2>1, <2>2, <2>3
<1>15. /\ \A s \in P : s \in DOMAIN w /\ w[s] > 0
       /\ \A s \in Q : s \in DOMAIN w /\ w[s] < 0
  OBVIOUS
<1> HIDE DEF weights, P, Q, N
<1>16. IsFiniteSet(DOMAIN weights) /\ \A s \in DOMAIN weights : weights[s] \in Int
  <2>1. DOMAIN weights = P \cup Q /\ IsFiniteSet(P \cup Q)
    BY <1>6, <1>8, FS_Union
  <2>2. ASSUME NEW s \in P PROVE weights[s] \in Int
    <3> HIDE DEF up
    <3> QED
      BY <1>6, <2>2
  <2>3. ASSUME NEW s \in Q PROVE weights[s] \in Int
    <3> HIDE DEF down
    <3> QED
      BY <1>6, <2>3
  <2> HIDE DEF positive, negative
  <2> QED
    BY <2>1, <2>2, <2>3
<1>17. Follows(weights, w, half, cap)
  BY <1>6, <1>7, <1>11, <1>12, <1>14, <1>15, <1>16 DEF Follows, N
<1> QED
  BY <1>1, <1>17

LEMMA CenteredInt ==
  ASSUME NEW ids, IsFiniteSet(ids), NEW values, \A s \in ids : values[s] \in Int
  PROVE  /\ Centered(values, ids).den \in Int
         /\ Centered(values, ids).of \in [ids -> Int]
<1>1. Cardinality(ids) \in Int /\ SumOver(values, ids) \in Int
  BY FS_CardinalityType, SumOverWhole
<1> QED
  BY <1>1 DEF Centered

LEMMA ResidualsInt ==
  ASSUME NEW ids, IsFiniteSet(ids), NEW values, \A s \in ids : values[s] \in Int,
         NEW beta, \A s \in ids : beta[s] \in Int
  PROVE  /\ Residuals(values, beta, ids).den \in Int
         /\ Residuals(values, beta, ids).of \in [ids -> Int]
<1> DEFINE y == Centered(values, ids)
           x == Centered(beta, ids)
           squares == [s \in ids |-> x.of[s] * x.of[s]]
           crosses == [s \in ids |-> x.of[s] * y.of[s]]
           sxx == SumOver(squares, ids)
           sxy == SumOver(crosses, ids)
<1>1. y.den \in Int /\ y.of \in [ids -> Int] /\ x.of \in [ids -> Int]
  BY CenteredInt
<1>2. Residuals(values, beta, ids)
        = IF sxx = 0 THEN y
          ELSE [den |-> y.den * sxx, of |-> [s \in ids |-> y.of[s] * sxx - sxy * x.of[s]]]
  BY DEF Residuals
<1> HIDE DEF x, y
<1>3. (\A s \in ids : squares[s] \in Int) /\ (\A s \in ids : crosses[s] \in Int)
  BY <1>1
<1> HIDE DEF squares, crosses
<1>4. sxx \in Int /\ sxy \in Int
  BY <1>3, SumOverWhole
<1> HIDE DEF sxx, sxy
<1>5. [s \in ids |-> y.of[s] * sxx - sxy * x.of[s]] \in [ids -> Int] /\ y.den * sxx \in Int
  BY <1>1, <1>4
<1> QED
  BY <1>1, <1>2, <1>5

\* For any cross-section, exposures, residual mode, gross and cap, a book that
\* build_signal_weighted_portfolio answers holds no name outside the two extreme
\* fractiles and follows the residual scores: signs, order, caps and the size of
\* the legs, however many passes the caps take.
THEOREM WeightedBookFollows ==
  ASSUME NEW scores, IsCrossSection(scores), NEW k \in Int, NEW half \in Nat, NEW cap \in Nat,
         NEW mode \in {"none", "joint", "per_leg"},
         NEW beta, \A s \in DOMAIN beta : beta[s] \in Int,
         NEW marked, marked = BuildSignalWeighted(scores, k, half, cap, mode, beta), marked.error = "none",
         NEW w, w = Residualize(scores, mode, Top(scores, k), Bottom(scores, k), beta)
  PROVE  /\ DOMAIN w = Top(scores, k) \cup Bottom(scores, k)
         /\ Follows(marked.weights, w, half, cap)
<1> DEFINE long == Top(scores, k)
           short == Bottom(scores, k)
           both == long \cup short
<1>1. /\ FractileErrors(scores, k) = "none"
      /\ ResidualError(mode, both, beta) = "none"
      /\ marked = WeightedBook(w, half, cap)
  BY DEF BuildSignalWeighted, Refused
<1>2. IsFiniteSet(long) /\ IsFiniteSet(short)
  BY <1>1, Legs
<1>3. long \subseteq DOMAIN scores /\ short \subseteq DOMAIN scores
  BY DEF Top, Bottom, Leg
<1> HIDE DEF long, short
<1>4. IsFiniteSet(both)
  BY <1>2, FS_Union
<1>5. \A s \in both : scores[s] \in Int
  BY <1>3 DEF IsCrossSection
<1>6. mode # "none" => \A s \in both : beta[s] \in Int
  BY <1>1 DEF ResidualError
<1>7. w = Residualize(scores, mode, long, short, beta)
  BY DEF long, short
<1>8. w \in [both -> Int]
  <2>1. CASE mode = "none"
    <3>1. w = Centered(scores, both).of
      BY <1>7, <2>1 DEF Residualize
    <3> HIDE DEF both
    <3> QED
      BY <1>4, <1>5, <3>1, CenteredInt
  <2>2. CASE mode = "joint"
    <3>1. w = Residuals(scores, beta, both).of
      BY <1>7, <2>2 DEF Residualize
    <3> HIDE DEF both
    <3> QED
      BY <1>4, <1>5, <1>6, <2>2, <3>1, ResidualsInt
  <2>3. CASE mode = "per_leg"
    <3> DEFINE l == Residuals(scores, beta, long)
               r == Residuals(scores, beta, short)
    <3>1. w = JoinLegs(l, r)
      BY <1>7, <2>3 DEF Residualize
    <3>2. \A s \in long : scores[s] \in Int /\ beta[s] \in Int
      BY <1>5, <1>6, <2>3
    <3>3. \A s \in short : scores[s] \in Int /\ beta[s] \in Int
      BY <1>5, <1>6, <2>3
    <3>4. l.den \in Int /\ l.of \in [long -> Int]
      BY <1>2, <3>2, ResidualsInt
    <3>5. r.den \in Int /\ r.of \in [short -> Int]
      BY <1>2, <3>3, ResidualsInt
    <3> HIDE DEF l, r
    <3>6. JoinLegs(l, r) \in [long \cup short -> Int]
      BY <3>4, <3>5 DEF JoinLegs
    <3> QED
      BY <3>1, <3>6
  <2> QED
    BY <2>1, <2>2, <2>3
<1>9. DOMAIN w = both /\ \A s \in DOMAIN w : w[s] \in Int
  BY <1>8
<1>10. Follows(marked.weights, w, half, cap)
  <2>1. IsFiniteSet(DOMAIN w)
    BY <1>4, <1>9
  <2> QED
    BY <1>1, <1>9, <2>1, WeightedFollows
<1> QED
  BY <1>9, <1>10 DEF long, short

-----------------------------------------------------------------------------
(* The optimizer: what is refused before the solver runs, and what it may     *)
(* answer.                                                                    *)

\* A problem as it is prepared: whole weights, bounds that are absent (absence is
\* no number) or natural numbers, a volume wherever trades are bounded by it, a beta wherever the
\* exposure is.
IsBound(b) == b = None \/ b \in Nat
IsProblem(p) ==
  /\ None \notin Int
  /\ IsFiniteSet(p.ids) /\ p.prev \in [p.ids -> Int] /\ p.shortable \in SUBSET p.ids
  /\ IsFiniteSet(DOMAIN p.exits) /\ \A s \in DOMAIN p.exits : p.exits[s] \in Int
  /\ p.cons.gross \in Nat /\ p.cons.net \in Int /\ p.cons.equality \in BOOLEAN
  /\ IsBound(p.cons.cap) /\ IsBound(p.cons.turnover) /\ IsBound(p.cons.beta)
  /\ IsBound(p.cons.sector) /\ IsBound(p.cons.country) /\ IsBound(p.cons.adv)
  /\ p.cons.adv # None => \A s \in p.ids : TradeCap(p, s) \in Int
  /\ p.cons.beta # None => \A s \in p.ids : p.attr[s].beta \in Int

LEMMA AbsInt == \A x \in Int : Abs(x) \in Nat /\ x <= Abs(x) /\ -x <= Abs(x) /\ (Abs(x) = x \/ Abs(x) = -x)
  BY DEF Abs

\* The sums of a book: of its weights and of their sizes.
Sizes(w, S) == [s \in S |-> Abs(w[s])]

\* What the final checks say of a book.
Acceptable(p, w) ==
  /\ IF p.cons.equality THEN SumOver(Sizes(w, p.ids), p.ids) = p.cons.gross
     ELSE SumOver(Sizes(w, p.ids), p.ids) <= p.cons.gross
  /\ SumOver(w, p.ids) = p.cons.net
  /\ p.cons.cap # None => \A s \in p.ids : Abs(w[s]) <= p.cons.cap
  /\ p.cons.beta # None => Abs(Exposure(p, w)) <= p.cons.beta
  /\ GroupsKept(p, w)
  /\ p.cons.turnover # None => TwoWay(p, w) <= 2 * p.cons.turnover
  /\ p.cons.adv # None => \A s \in p.ids : Moved(p, w)[s] <= TradeCap(p, s)
  /\ VolKept(p, w)
  /\ \A s \in p.ids \ p.shortable : w[s] >= 0

LEMMA Checked ==
  ASSUME NEW p, NEW w \in [p.ids -> Int]
  PROVE  Violations(p, w) = {} <=> Acceptable(p, w)
<1>1. DOMAIN w = p.ids
  OBVIOUS
<1>2. SumOver(w, p.ids) = Total(w) /\ SumOver(Sizes(w, p.ids), p.ids) = Total([s \in p.ids |-> Abs(w[s])])
  BY <1>1 DEF Total, Sizes
<1>3. Violations(p, w) = {} <=>
        /\ IF p.cons.equality THEN Total([s \in p.ids |-> Abs(w[s])]) = p.cons.gross
           ELSE Total([s \in p.ids |-> Abs(w[s])]) <= p.cons.gross
        /\ Total(w) = p.cons.net
        /\ \A s \in p.ids : Within(Abs(w[s]), p.cons.cap)
        /\ p.cons.beta # None => Abs(Exposure(p, w)) <= p.cons.beta
        /\ GroupsKept(p, w)
        /\ p.cons.turnover # None => TwoWay(p, w) <= 2 * p.cons.turnover
        /\ p.cons.adv # None => \A s \in p.ids : Moved(p, w)[s] <= TradeCap(p, s)
        /\ VolKept(p, w)
        /\ \A s \in p.ids \ p.shortable : w[s] >= 0
  BY Zenon DEF Violations
<1> QED
  BY <1>2, <1>3 DEF Within, Acceptable

\* The sum of a sum of two, of a negation, and that of sizes.
LEMMA SumOverPlus ==
  ASSUME NEW S, IsFiniteSet(S), NEW f, \A s \in S : f[s] \in Int,
         NEW g, \A s \in S : g[s] \in Int, NEW a \in {1, -1},
         NEW h, \A s \in S : h[s] = f[s] + a * g[s]
  PROVE  /\ SumOver(h, S) = SumOver(f, S) + a * SumOver(g, S)
         /\ SumOver(f, S) \in Int /\ SumOver(g, S) \in Int
<1> DEFINE f1 == [s \in S |-> f[s]]
           g1 == [s \in S |-> g[s]]
           h1 == [s \in S |-> h[s]]
<1>1. f1 \in Integral(S) /\ g1 \in Integral(S) /\ h1 \in Integral(S)
  BY DEF Integral
<1>2. \A s \in S : h1[s] = f1[s] + a * g1[s]
  OBVIOUS
<1>3. SumOver(f1, S) = SumOver(f, S) /\ SumOver(g1, S) = SumOver(g, S) /\ SumOver(h1, S) = SumOver(h, S)
  BY SumOverSame
<1> HIDE DEF f1, g1, h1
<1>4. SumOver(h1, S) = SumOver(f1, S) + a * SumOver(g1, S)
  BY <1>1, <1>2, SumOverLinear
<1>5. SumOver(f, S) \in Int /\ SumOver(g, S) \in Int
  BY SumOverWhole
<1> QED
  BY <1>3, <1>4, <1>5

LEMMA SumOverAbs ==
  ASSUME NEW S, IsFiniteSet(S), NEW f, \A s \in S : f[s] \in Int
  PROVE  /\ Abs(SumOver(f, S)) <= SumOver(Sizes(f, S), S)
         /\ SumOver(f, S) \in Int /\ SumOver(Sizes(f, S), S) \in Nat
<1> DEFINE size == Sizes(f, S)
           minus == [s \in S |-> (-1) * f[s]]
<1>1. \A s \in S : size[s] \in Nat /\ f[s] <= size[s] /\ minus[s] <= size[s] /\ minus[s] \in Int
  BY AbsInt DEF Sizes
<1>2. SumOver(minus, S) = (-1) * SumOver(f, S)
  BY SumOverTimes
<1> HIDE DEF size, minus
<1>3. SumOver(size, S) \in Nat
  BY <1>1, SumOverNat
<1>4. SumOver(f, S) <= SumOver(size, S)
  BY <1>1, SumOverOrder
<1>5. SumOver(minus, S) <= SumOver(size, S)
  BY <1>1, SumOverOrder
<1>6. SumOver(f, S) \in Int
  BY SumOverWhole
<1> QED
  BY <1>2, <1>3, <1>4, <1>5, <1>6 DEF Abs, size

\* What the long side and the short side must hold, the capped names can hold.
LEMMA SidesFit ==
  ASSUME NEW p, IsProblem(p), NEW w \in [p.ids -> Int], Acceptable(p, w),
         NEW a \in {1, -1}, NEW S \in SUBSET p.ids, \A s \in p.ids \ S : a * w[s] <= 0,
         NEW need, need = IF p.cons.equality THEN p.cons.gross + a * p.cons.net
                          ELSE IF a * p.cons.net > 0 THEN 2 * (a * p.cons.net) ELSE 0
  PROVE  /\ need \in Int
         /\ p.cons.cap # None => 2 * Cardinality(S) * p.cons.cap >= need
         /\ S = {} => need <= 0
<1> DEFINE size == Sizes(w, p.ids)
           twice == [s \in p.ids |-> size[s] + a * w[s]]
<1>1. IsFiniteSet(p.ids) /\ p.cons.gross \in Nat /\ p.cons.net \in Int /\ p.cons.equality \in BOOLEAN
      /\ IsFiniteSet(S)
  BY FS_Subset DEF IsProblem
<1>2. \A s \in p.ids : /\ w[s] \in Int /\ size[s] \in Nat
                       /\ twice[s] \in Int /\ twice[s] = size[s] + a * w[s]
                       /\ twice[s] >= 0 /\ twice[s] <= 2 * size[s]
                       /\ s \notin S => twice[s] = 0
  BY DEF Sizes, Abs
<1> HIDE DEF size, twice
<1>3. /\ SumOver(twice, p.ids) = SumOver(size, p.ids) + a * SumOver(w, p.ids)
      /\ SumOver(size, p.ids) \in Int /\ SumOver(w, p.ids) \in Int
  <2>1. /\ \A s \in p.ids : size[s] \in Int
        /\ \A s \in p.ids : w[s] \in Int
        /\ \A s \in p.ids : twice[s] = size[s] + a * w[s]
    BY <1>2
  <2> QED
    BY <1>1, <2>1, SumOverPlus
<1>4. SumOver(w, p.ids) = p.cons.net
      /\ IF p.cons.equality THEN SumOver(size, p.ids) = p.cons.gross ELSE SumOver(size, p.ids) <= p.cons.gross
  BY DEF Acceptable, size
<1>5. a * SumOver(w, p.ids) <= SumOver(size, p.ids) /\ SumOver(size, p.ids) >= 0
  <2>1. Abs(SumOver(w, p.ids)) <= SumOver(size, p.ids) /\ SumOver(w, p.ids) \in Int /\ SumOver(size, p.ids) \in Nat
    BY <1>1, <1>2, SumOverAbs DEF size
  <2> QED
    BY <2>1 DEF Abs
<1>6. need \in Int /\ need <= SumOver(twice, p.ids)
  <2>1. a * p.cons.net \in Int
    BY <1>1
  <2> DEFINE n == a * p.cons.net
  <2>2. SumOver(twice, p.ids) = SumOver(size, p.ids) + n /\ n <= SumOver(size, p.ids)
        /\ need = IF p.cons.equality THEN p.cons.gross + n ELSE IF n > 0 THEN 2 * n ELSE 0
    BY <1>3, <1>4, <1>5
  <2>3. 0 <= SumOver(size, p.ids) + n
    <3>1. \A s \in p.ids : twice[s] \in Nat
      BY <1>2
    <3>2. SumOver(twice, p.ids) \in Nat
      BY <1>1, <3>1, SumOverNat
    <3> HIDE DEF n
    <3> QED
      BY <2>2, <3>2
  <2> HIDE DEF n
  <2> QED
    BY <1>1, <1>3, <1>4, <2>1, <2>2, <2>3 DEF n
<1>7. SumOver(twice, S) = SumOver(twice, p.ids)
  <2>1. \A s \in p.ids \ S : twice[s] = 0
    BY <1>2
  <2>2. \A s \in p.ids : twice[s] \in Int
    BY <1>2
  <2> QED
    BY <1>1, <2>1, <2>2, SumOverSupport
<1>8. ASSUME p.cons.cap # None PROVE 2 * Cardinality(S) * p.cons.cap >= need
  <2>1. p.cons.cap \in Nat
    BY <1>8 DEF IsProblem, IsBound
  <2>2. \A s \in p.ids : size[s] <= p.cons.cap
    BY <1>8 DEF Acceptable, size, Sizes
  <2> DEFINE most == [s \in S |-> 2 * p.cons.cap]
  <2>3. \A s \in S : twice[s] \in Int /\ most[s] \in Int /\ twice[s] <= most[s] /\ most[s] = 2 * p.cons.cap
    BY <1>2, <2>1, <2>2
  <2> HIDE DEF most
  <2>4. SumOver(twice, S) <= SumOver(most, S)
    BY <1>1, <2>3, SumOverOrder
  <2>5. SumOver(most, S) = (2 * p.cons.cap) * Cardinality(S)
    <3>1. 2 * p.cons.cap \in Int
      BY <2>1
    <3> QED
      BY <1>1, <2>3, <3>1, SumOverConstant
  <2>6. Cardinality(S) \in Nat /\ SumOver(twice, S) \in Int
    <3>1. \A s \in S : twice[s] \in Int
      BY <2>3
    <3> QED
      BY <1>1, <3>1, FS_CardinalityType, SumOverWhole
  <2>7. (2 * p.cons.cap) * Cardinality(S) = 2 * Cardinality(S) * p.cons.cap
        /\ (2 * p.cons.cap) * Cardinality(S) \in Int
    BY <2>1, <2>6
  <2> QED
    BY <1>6, <1>7, <2>4, <2>5, <2>6, <2>7
<1>9. S = {} => need <= 0
  <2>1. (\A s \in S : twice[s] = 0) => SumOver(twice, S) = 0 * Cardinality(S)
    BY <1>1, SumOverConstant
  <2>2. Cardinality(S) \in Nat
    BY <1>1, FS_CardinalityType
  <2> QED
    BY <1>6, <1>7, <2>1, <2>2
<1> QED
  BY <1>6, <1>8, <1>9

LEMMA ImageFinite ==
  ASSUME NEW S, IsFiniteSet(S), NEW key, NEW keys, keys = {key[s] : s \in S}
  PROVE  IsFiniteSet(keys)
<1> DEFINE f == [s \in S |-> key[s]]
<1>1. f \in Surjection(S, keys)
  BY DEF Surjection
<1> HIDE DEF f
<1> QED
  BY <1>1, FS_Surjection

\* A sum by groups.
LEMMA SumOverGroups ==
  ASSUME NEW S, IsFiniteSet(S), NEW f, \A s \in S : f[s] \in Int, NEW key,
         NEW keys, IsFiniteSet(keys), \A s \in S : key[s] \in keys,
         NEW G, \A g \in keys : G[g] = SumOver(f, {s \in S : key[s] = g})
  PROVE  SumOver(f, S) = SumOver(G, keys)
<1> DEFINE Of(K) == {s \in S : key[s] \in K}
           Bad == {K \in SUBSET keys : Sums(G, keys)[K] # SumOver(f, Of(K))}
<1>2. {} \notin Bad
  <2>1. Sums(G, keys)[{}] = 0
    BY SumsUnfold
  <2>2. Of({}) = {}
    OBVIOUS
  <2>3. SumOver(f, {}) = 0
    BY FS_EmptySet, SumIsSums, SumsUnfold
  <2> HIDE DEF Of
  <2> QED
    BY <2>1, <2>2, <2>3
<1>3. ASSUME NEW R \in SUBSET keys, R # {}, R \ {First(R)} \notin Bad PROVE R \notin Bad
  <2> DEFINE x == First(R)
             Q == R \ {x}
             P == {s \in S : key[s] = x}
  <2>1. x \in R /\ x \in keys /\ Q \in SUBSET keys
    BY <1>3, SmallerSet
  <2>2. Sums(G, keys)[R] = G[x] + Sums(G, keys)[Q]
    BY <1>3, SumsUnfold
  <2>3. Sums(G, keys)[Q] = SumOver(f, Of(Q))
    BY <1>3, <2>1
  <2> HIDE DEF x
  <2>4. P \in SUBSET Of(R) /\ Of(R) \ P = Of(Q)
    BY <2>1
  <2>5. IsFiniteSet(Of(R)) /\ \A s \in Of(R) : f[s] \in Int
    BY FS_Subset
  <2>6. G[x] = SumOver(f, P)
    BY <2>1
  <2> HIDE DEF Of, P, Q
  <2>7. SumOver(f, Of(R)) = SumOver(f, P) + SumOver(f, Of(R) \ P)
    BY <2>4, <2>5, SumOverSplit
  <2> QED
    BY <2>2, <2>3, <2>4, <2>6, <2>7
<1>4. Bad = {}
  <2> Bad \in SUBSET (SUBSET keys)
    OBVIOUS
  <2> HIDE DEF Bad
  <2> QED
    BY <1>2, <1>3, NoBadSet
<1>5. Of(keys) = S
  OBVIOUS
<1>6. Sums(G, keys)[keys] = SumOver(f, Of(keys))
  <2> HIDE DEF Of
  <2> QED
    BY <1>4
<1> QED
  BY <1>5, <1>6, SumIsSums

LEMMA MaxOfTwo ==
  ASSUME NEW x \in Int, NEW y \in Int, NEW m \in Int, x <= m, y <= m
  PROVE  Max({x, y}) \in Int /\ Max({x, y}) <= m
<1> DEFINE big == IF x >= y THEN x ELSE y
<1>1. big \in {x, y} /\ \A z \in {x, y} : big >= z
  OBVIOUS
<1>2. \E z \in {x, y} : \A v \in {x, y} : z >= v
  BY <1>1
<1>3. Max({x, y}) \in {x, y}
  BY <1>2 DEF Max
<1> QED
  BY <1>3

\* To reach its net and its gross a book must move as much as is said before.
LEMMA MovesEnough ==
  ASSUME NEW p, IsProblem(p), NEW w \in [p.ids -> Int], Acceptable(p, w)
  PROVE  /\ TwoWay(p, w) \in Int /\ LeastTwoWay(p) \in Int
         /\ LeastTwoWay(p) <= TwoWay(p, w)
<1> DEFINE ids == p.ids
           moved == Moved(p, w)
           net == [s \in ids |-> w[s] + (-1) * p.prev[s]]
           size == Sizes(w, ids)
           before == Sizes(p.prev, ids)
           grown == [s \in ids |-> size[s] + (-1) * before[s]]
           gross == SumOver(before, ids)
           exits == ExitsTwoWay(p)
           grossMove == IF p.cons.equality THEN Abs(p.cons.gross - gross)
                        ELSE IF gross > p.cons.gross THEN gross - p.cons.gross ELSE 0
<1>1. IsFiniteSet(ids) /\ p.cons.gross \in Nat /\ p.cons.net \in Int /\ p.cons.equality \in BOOLEAN
  BY DEF IsProblem
<1>2. \A s \in ids : /\ w[s] \in Int /\ p.prev[s] \in Int
                     /\ size[s] \in Int /\ before[s] \in Int /\ moved[s] \in Nat
                     /\ net[s] \in Int /\ Abs(net[s]) <= moved[s] /\ net[s] = w[s] + (-1) * p.prev[s]
                     /\ grown[s] \in Int /\ Abs(grown[s]) <= moved[s] /\ grown[s] = size[s] + (-1) * before[s]
  BY DEF IsProblem, Sizes, Moved, Abs
<1>3. exits \in Int
  <2> DEFINE left == [s \in DOMAIN p.exits |-> Abs(p.exits[s])]
  <2>1. IsFiniteSet(DOMAIN p.exits) /\ DOMAIN left = DOMAIN p.exits /\ \A s \in DOMAIN p.exits : left[s] \in Int
    BY DEF IsProblem, Abs
  <2>2. exits = SumOver(left, DOMAIN left)
    BY DEF ExitsTwoWay, Total
  <2> HIDE DEF left, exits
  <2>3. SumOver(left, DOMAIN p.exits) \in Int
    BY <2>1, SumOverWhole
  <2> QED
    BY <2>1, <2>2, <2>3
<1>4. TwoWay(p, w) = SumOver(moved, ids) + exits
  <2>1. DOMAIN moved = ids
    BY DEF Moved
  <2> QED
    BY <2>1 DEF TwoWay, Total
<1>5. LeastTwoWay(p) = exits + Max({grossMove, Abs(p.cons.net - SumOver(p.prev, ids))})
  <2>1. DOMAIN p.prev = ids
    BY DEF IsProblem
  <2>2. Total(p.prev) = SumOver(p.prev, ids)
    BY <2>1 DEF Total
  <2>3. Total([s \in ids |-> Abs(p.prev[s])]) = gross
    BY DEF Total, Sizes
  <2> HIDE DEF exits, gross
  <2> QED
    BY <2>2, <2>3 DEF LeastTwoWay, exits
<1>6. SumOver(w, ids) = p.cons.net
      /\ IF p.cons.equality THEN SumOver(size, ids) = p.cons.gross ELSE SumOver(size, ids) <= p.cons.gross
  BY DEF Acceptable
<1> HIDE DEF moved, net, size, before, grown, ids, exits
<1>7. SumOver(moved, ids) \in Int
  BY <1>1, <1>2, SumOverWhole
<1>8. /\ SumOver(net, ids) = SumOver(w, ids) + (-1) * SumOver(p.prev, ids)
      /\ SumOver(w, ids) \in Int /\ SumOver(p.prev, ids) \in Int
  <2>1. /\ \A s \in ids : w[s] \in Int
        /\ \A s \in ids : p.prev[s] \in Int
        /\ \A s \in ids : net[s] = w[s] + (-1) * p.prev[s]
    BY <1>2
  <2> QED
    BY <1>1, <2>1, SumOverPlus
<1>9. /\ SumOver(grown, ids) = SumOver(size, ids) + (-1) * SumOver(before, ids)
      /\ SumOver(size, ids) \in Int /\ SumOver(before, ids) \in Int
  <2>1. /\ \A s \in ids : size[s] \in Int
        /\ \A s \in ids : before[s] \in Int
        /\ \A s \in ids : grown[s] = size[s] + (-1) * before[s]
    BY <1>2
  <2> QED
    BY <1>1, <2>1, SumOverPlus
<1>10. Abs(SumOver(net, ids)) <= SumOver(moved, ids)
  <2>1. \A s \in ids : Sizes(net, ids)[s] \in Int /\ moved[s] \in Int /\ Sizes(net, ids)[s] <= moved[s]
    BY <1>2, AbsInt DEF Sizes
  <2>2. SumOver(Sizes(net, ids), ids) <= SumOver(moved, ids)
    BY <1>1, <2>1, SumOverOrder
  <2>3. /\ Abs(SumOver(net, ids)) <= SumOver(Sizes(net, ids), ids)
        /\ SumOver(net, ids) \in Int /\ SumOver(Sizes(net, ids), ids) \in Nat
    BY <1>1, <1>2, SumOverAbs
  <2> QED
    BY <1>7, <2>2, <2>3, AbsInt
<1>11. Abs(SumOver(grown, ids)) <= SumOver(moved, ids)
  <2>1. \A s \in ids : Sizes(grown, ids)[s] \in Int /\ moved[s] \in Int /\ Sizes(grown, ids)[s] <= moved[s]
    BY <1>2, AbsInt DEF Sizes
  <2>2. SumOver(Sizes(grown, ids), ids) <= SumOver(moved, ids)
    BY <1>1, <2>1, SumOverOrder
  <2>3. /\ Abs(SumOver(grown, ids)) <= SumOver(Sizes(grown, ids), ids)
        /\ SumOver(grown, ids) \in Int /\ SumOver(Sizes(grown, ids), ids) \in Nat
    BY <1>1, <1>2, SumOverAbs
  <2> QED
    BY <1>7, <2>2, <2>3, AbsInt
<1>12. grossMove \in Int /\ grossMove <= SumOver(moved, ids)
  BY <1>1, <1>6, <1>7, <1>9, <1>11 DEF Abs
<1>13. Abs(p.cons.net - SumOver(p.prev, ids)) \in Int
       /\ Abs(p.cons.net - SumOver(p.prev, ids)) <= SumOver(moved, ids)
  BY <1>1, <1>6, <1>7, <1>8, <1>10 DEF Abs
<1> HIDE DEF grossMove
<1>14. Max({grossMove, Abs(p.cons.net - SumOver(p.prev, ids))}) \in Int
       /\ Max({grossMove, Abs(p.cons.net - SumOver(p.prev, ids))}) <= SumOver(moved, ids)
  BY <1>7, <1>12, <1>13, MaxOfTwo
<1> QED
  BY <1>3, <1>4, <1>5, <1>7, <1>14

\* No book is larger than what the volumes let the positions become.
LEMMA ReachEnough ==
  ASSUME NEW p, IsProblem(p), NEW w \in [p.ids -> Int], Acceptable(p, w),
         p.cons.adv # None, p.cons.equality
  PROVE  p.cons.gross <= ReachableGross(p)
<1> DEFINE reach == [s \in p.ids |-> Lesser(p.cons.cap, TradeCap(p, s) + Abs(p.prev[s]))]
           size == Sizes(w, p.ids)
<1>1. IsFiniteSet(p.ids) /\ IsBound(p.cons.cap)
  BY DEF IsProblem
<1>2. ASSUME NEW s \in p.ids
      PROVE  size[s] \in Int /\ reach[s] \in Int /\ size[s] <= reach[s]
  <2>1. w[s] \in Int /\ p.prev[s] \in Int /\ TradeCap(p, s) \in Int
    BY DEF IsProblem
  <2>2. Abs(w[s] - p.prev[s]) <= TradeCap(p, s)
    BY DEF Acceptable, Moved
  <2>3. Abs(w[s]) <= TradeCap(p, s) + Abs(p.prev[s])
    BY <2>1, <2>2 DEF Abs
  <2>4. p.cons.cap # None => Abs(w[s]) <= p.cons.cap
    BY DEF Acceptable
  <2>5. Abs(w[s]) \in Int /\ Abs(p.prev[s]) \in Int
    BY <2>1, AbsInt
  <2>6. reach[s] \in Int /\ Abs(w[s]) <= reach[s]
    BY <1>1, <2>1, <2>3, <2>4, <2>5 DEF Lesser, IsBound
  <2> QED
    BY <2>5, <2>6 DEF Sizes
<1>3. ReachableGross(p) = SumOver(reach, p.ids)
  BY DEF ReachableGross, Total
<1>4. SumOver(size, p.ids) = p.cons.gross
  BY DEF Acceptable
<1> HIDE DEF reach, size
<1>5. SumOver(size, p.ids) <= SumOver(reach, p.ids)
  BY <1>1, <1>2, SumOverOrder
<1> QED
  BY <1>3, <1>4, <1>5

\* A net is spread over the groups, each within the limit.
LEMMA GroupsEnough ==
  ASSUME NEW p, IsProblem(p), NEW w \in [p.ids -> Int], Acceptable(p, w),
         NEW kind \in {"sector", "country"}, Limit(p, kind) # None
  PROVE  Abs(p.cons.net) <= Limit(p, kind) * Cardinality(Groups(p, kind))
<1> DEFINE keys == Groups(p, kind)
           key == [s \in p.ids |-> p.attr[s][kind]]
           G == [g \in keys |-> GroupNet(p, w, kind, g)]
           limit == Limit(p, kind)
<1>1. IsFiniteSet(p.ids) /\ limit \in Nat
  BY DEF IsProblem, IsBound, Limit
<1>2. keys = {key[s] : s \in p.ids} /\ \A s \in p.ids : key[s] \in keys
  BY DEF Groups
<1>3. IsFiniteSet(keys)
  <2> HIDE DEF keys, key
  <2> QED
    BY <1>1, <1>2, ImageFinite
<1>4. ASSUME NEW g \in keys
      PROVE  /\ G[g] = SumOver(w, {s \in p.ids : key[s] = g})
             /\ Abs(G[g]) <= limit
             /\ G[g] \in Int
  <2> DEFINE S == {s \in p.ids : p.attr[s][kind] = g}
  <2>1. S = {s \in p.ids : key[s] = g}
    OBVIOUS
  <2>2. GroupNet(p, w, kind, g) = SumOver([s \in S |-> w[s]], S)
    BY DEF GroupNet, Total
  <2>3. Abs(GroupNet(p, w, kind, g)) <= limit
    BY DEF Acceptable, GroupsKept, Within
  <2>4. IsFiniteSet(S) /\ \A s \in S : w[s] \in Int
    BY <1>1, FS_Subset
  <2> HIDE DEF S
  <2>5. SumOver(w, S) \in Int
    BY <2>4, SumOverWhole
  <2> QED
    BY <2>1, <2>2, <2>3, <2>5, SumOverSame
<1> HIDE DEF G, keys, key, limit
<1>5. SumOver(w, p.ids) = SumOver(G, keys)
  BY <1>1, <1>2, <1>3, <1>4, SumOverGroups
<1>6. /\ Abs(SumOver(G, keys)) <= SumOver(Sizes(G, keys), keys)
      /\ SumOver(G, keys) \in Int /\ SumOver(Sizes(G, keys), keys) \in Nat
  BY <1>3, <1>4, SumOverAbs
<1> DEFINE most == [g \in keys |-> limit]
<1>7. SumOver(Sizes(G, keys), keys) <= SumOver(most, keys)
  <2>1. ASSUME NEW g \in keys
        PROVE  Sizes(G, keys)[g] \in Int /\ most[g] \in Int /\ Sizes(G, keys)[g] <= most[g]
    <3>1. G[g] \in Int /\ Abs(G[g]) <= limit
      BY <1>4
    <3>2. Sizes(G, keys)[g] = Abs(G[g]) /\ most[g] = limit
      BY DEF Sizes
    <3> HIDE DEF most
    <3> QED
      BY <1>1, <3>1, <3>2, AbsInt
  <2> HIDE DEF most
  <2> QED
    BY <1>3, <2>1, SumOverOrder
<1>8. SumOver(most, keys) = limit * Cardinality(keys)
  <2>1. \A g \in keys : most[g] = limit
    OBVIOUS
  <2> HIDE DEF most
  <2> QED
    BY <1>1, <1>3, <2>1, SumOverConstant
<1>9. SumOver(w, p.ids) = p.cons.net
  BY DEF Acceptable
<1> HIDE DEF most
<1>10. limit * Cardinality(keys) \in Int
  BY <1>1, <1>3, FS_CardinalityType
<1>11. Abs(p.cons.net) <= limit * Cardinality(keys)
  BY <1>5, <1>6, <1>7, <1>8, <1>9, <1>10, AbsInt
<1> QED
  BY <1>11 DEF limit, keys

\* Whatever is refused before the solver runs could not have been answered: for
\* any problem with a conflict no book passes the final checks.
THEOREM ConflictsLeaveNoBook ==
  ASSUME NEW p, IsProblem(p), NEW w \in [p.ids -> Int], Violations(p, w) = {}
  PROVE  StaticConflicts(p) = {}
<1>1. Acceptable(p, w)
  BY Checked
<1> DEFINE holds(side, required) == p.cons.cap # None => 2 * Cardinality(side) * p.cons.cap >= required
<1>2. p.cons.net \in Int /\ p.shortable \in SUBSET p.ids /\ (1 \in {1, -1}) /\ (-1 \in {1, -1})
  BY DEF IsProblem
<1>3. holds(p.ids, LongRequired(p))
  <2>1. LongRequired(p) = IF p.cons.equality THEN p.cons.gross + 1 * p.cons.net
                          ELSE IF 1 * p.cons.net > 0 THEN 2 * (1 * p.cons.net) ELSE 0
    BY <1>2 DEF LongRequired, IsProblem
  <2>2. p.ids \in SUBSET p.ids /\ \A s \in p.ids \ p.ids : 1 * w[s] <= 0
    OBVIOUS
  <2> QED
    BY <1>1, <1>2, <2>1, <2>2, SidesFit
<1>4. ~ (ShortRequired(p) > 0 /\ (p.shortable = {} \/ ~holds(p.shortable, ShortRequired(p))))
  <2>1. ShortRequired(p) = IF p.cons.equality THEN p.cons.gross + (-1) * p.cons.net
                          ELSE IF (-1) * p.cons.net > 0 THEN 2 * ((-1) * p.cons.net) ELSE 0
    BY <1>2 DEF ShortRequired, IsProblem
  <2>2. \A s \in p.ids \ p.shortable : (-1) * w[s] <= 0
    BY <1>1 DEF Acceptable
  <2>3. /\ ShortRequired(p) \in Int
        /\ holds(p.shortable, ShortRequired(p))
        /\ p.shortable = {} => ShortRequired(p) <= 0
    BY <1>1, <1>2, <2>1, <2>2, SidesFit
  <2> QED
    BY <2>3
<1>5. ~ (p.cons.turnover # None /\ 2 * p.cons.turnover < LeastTwoWay(p))
  <2> SUFFICES ASSUME p.cons.turnover # None PROVE ~ (2 * p.cons.turnover < LeastTwoWay(p))
    OBVIOUS
  <2>1. p.cons.turnover \in Nat /\ TwoWay(p, w) <= 2 * p.cons.turnover
    BY <1>1 DEF IsProblem, IsBound, Acceptable
  <2> QED
    BY <1>1, <2>1, MovesEnough
<1>6. ~ (p.cons.adv # None /\ p.cons.equality /\ ReachableGross(p) < p.cons.gross)
  <2> SUFFICES ASSUME p.cons.adv # None, p.cons.equality PROVE ~ (ReachableGross(p) < p.cons.gross)
    OBVIOUS
  <2>1. p.cons.gross <= ReachableGross(p)
    BY <1>1, ReachEnough
  <2>2. ReachableGross(p) \in Int /\ p.cons.gross \in Int
    <3> DEFINE reach == [s \in p.ids |-> Lesser(p.cons.cap, TradeCap(p, s) + Abs(p.prev[s]))]
    <3>1. \A s \in p.ids : reach[s] \in Int
      BY DEF IsProblem, IsBound, Lesser, Abs
    <3>2. ReachableGross(p) = SumOver(reach, p.ids)
      BY DEF ReachableGross, Total
    <3>3. IsFiniteSet(p.ids) /\ p.cons.gross \in Int
      BY DEF IsProblem
    <3> HIDE DEF reach
    <3> QED
      BY <3>1, <3>2, <3>3, SumOverWhole
  <2> QED
    BY <2>1, <2>2
<1>7. ~ \E kind \in {"sector", "country"} :
          Limit(p, kind) # None /\ Abs(p.cons.net) > Limit(p, kind) * Cardinality(Groups(p, kind))
  <2> SUFFICES ASSUME NEW kind \in {"sector", "country"}, Limit(p, kind) # None
               PROVE  ~ (Abs(p.cons.net) > Limit(p, kind) * Cardinality(Groups(p, kind)))
    OBVIOUS
  <2> DEFINE most == Limit(p, kind) * Cardinality(Groups(p, kind))
  <2>1. Abs(p.cons.net) <= most
    BY <1>1, GroupsEnough
  <2>2. most \in Int
    <3>1. Limit(p, kind) \in Nat /\ IsFiniteSet(p.ids)
      BY DEF IsProblem, IsBound, Limit
    <3> DEFINE key == [s \in p.ids |-> p.attr[s][kind]]
    <3>2. Groups(p, kind) = {key[s] : s \in p.ids}
      BY DEF Groups
    <3> HIDE DEF key
    <3>3. IsFiniteSet(Groups(p, kind))
      BY <3>1, <3>2, ImageFinite
    <3>4. Cardinality(Groups(p, kind)) \in Nat
      BY <3>3, FS_CardinalityType
    <3> QED
      BY <3>1, <3>4
  <2> HIDE DEF most
  <2>3. Abs(p.cons.net) \in Int
    BY <1>2, AbsInt
  <2> QED
    BY <2>1, <2>2, <2>3 DEF most
<1> QED
  BY <1>3, <1>4, <1>5, <1>6, <1>7, Zenon DEF StaticConflicts

\* The points of the program over the names of a problem.
SplitsOf(p) == [u : [p.ids -> Nat], v : [p.ids -> Nat]]

LEMMA BoundHolds ==
  ASSUME NEW p, IsProblem(p)
  PROVE  /\ Bound(p) \in Nat /\ Bound(p) <= p.cons.gross
         /\ p.cons.cap # None => Bound(p) <= p.cons.cap
         /\ \A n \in Nat : n <= p.cons.gross /\ (p.cons.cap # None => n <= p.cons.cap) => n <= Bound(p)
  BY DEF IsProblem, IsBound, Bound, Lesser

LEMMA SumOverTerm ==
  ASSUME NEW S, IsFiniteSet(S), NEW f, \A s \in S : f[s] \in Nat, NEW x \in S
  PROVE  f[x] <= SumOver(f, S)
<1>1. {x} \in SUBSET S /\ IsFiniteSet(S \ {x}) /\ IsFiniteSet({x}) /\ Cardinality({x}) = 1
  BY FS_Singleton, FS_Subset
<1>2. SumOver(f, S) = SumOver(f, {x}) + SumOver(f, S \ {x})
  BY <1>1, SumOverSplit
<1>3. SumOver(f, {x}) = f[x] * Cardinality({x})
  <2>1. \A s \in {x} : f[s] = f[x]
    OBVIOUS
  <2> QED
    BY <1>1, <2>1, SumOverConstant
<1>4. SumOver(f, S \ {x}) \in Nat
  BY <1>1, SumOverNat
<1> QED
  BY <1>1, <1>2, <1>3, <1>4

\* A point of the program that is no wash gives a book that passes.
LEMMA ProgramPasses ==
  ASSUME NEW p, IsProblem(p), NEW x \in SplitsOf(p), InProgram(p, x), ~ Wash(p, x)
  PROVE  /\ Collapsed(x) \in [p.ids -> Int]
         /\ Acceptable(p, Collapsed(x))
<1> DEFINE w == Collapsed(x)
           ids == p.ids
           size == Sizes(w, ids)
           both == [s \in ids |-> x.u[s] + 1 * x.v[s]]
<1>1. /\ x.u \in [ids -> Nat] /\ x.v \in [ids -> Nat]
      /\ DOMAIN x.u = ids /\ DOMAIN x.v = ids
  BY DEF SplitsOf
<1>2. IsFiniteSet(ids) /\ p.cons.gross \in Nat /\ p.cons.equality \in BOOLEAN
  BY DEF IsProblem
<1>3. w \in [ids -> Int] /\ \A s \in ids : w[s] = x.u[s] - x.v[s]
  BY <1>1 DEF Collapsed
<1>4. DOMAIN w = ids
  BY <1>3
<1>5. /\ \A s \in ids : x.u[s] <= Bound(p) /\ x.v[s] <= (IF s \in p.shortable THEN Bound(p) ELSE 0)
      /\ Total(w) = p.cons.net
      /\ IF p.cons.equality THEN Total(x.u) + Total(x.v) = p.cons.gross ELSE Total(x.u) + Total(x.v) <= p.cons.gross
      /\ p.cons.adv # None => \A s \in ids : Moved(p, w)[s] <= TradeCap(p, s)
      /\ p.cons.turnover # None => TwoWay(p, w) <= 2 * p.cons.turnover
      /\ p.cons.beta # None => Exposure(p, w) \in -p.cons.beta .. p.cons.beta
      /\ GroupsKept(p, w)
      /\ VolKept(p, w)
  <2> HIDE DEF w
  <2>1. Bound(p) \in Nat
    BY BoundHolds
  <2> QED
    BY <1>1, <2>1 DEF InProgram, w
<1>6. Wash(p, x) <=> /\ p.cons.equality
                     /\ \E s \in ids : x.u[s] > 0 /\ x.v[s] > 0
                     /\ SumOver(size, ids) < p.cons.gross
  BY DEF Wash, Total, Sizes
<1> HIDE DEF w
<1>7. Total(x.u) + Total(x.v) = SumOver(both, ids)
  <2>1. Total(x.u) = SumOver(x.u, ids) /\ Total(x.v) = SumOver(x.v, ids)
    BY <1>1 DEF Total
  <2>2. /\ \A s \in ids : x.u[s] \in Int
        /\ \A s \in ids : x.v[s] \in Int
        /\ \A s \in ids : both[s] = x.u[s] + 1 * x.v[s]
    BY <1>1
  <2> HIDE DEF both, ids
  <2>3. /\ SumOver(both, ids) = SumOver(x.u, ids) + 1 * SumOver(x.v, ids)
        /\ SumOver(x.u, ids) \in Int /\ SumOver(x.v, ids) \in Int
    BY <1>2, <2>2, SumOverPlus
  <2> QED
    BY <2>1, <2>3
<1>8. \A s \in ids : /\ size[s] \in Nat /\ both[s] \in Nat /\ size[s] <= both[s]
                     /\ size[s] <= Bound(p)
                     /\ ~ (x.u[s] > 0 /\ x.v[s] > 0) => size[s] = both[s]
  <2> SUFFICES ASSUME NEW s \in ids
               PROVE  /\ size[s] \in Nat /\ both[s] \in Nat /\ size[s] <= both[s]
                      /\ size[s] <= Bound(p)
                      /\ ~ (x.u[s] > 0 /\ x.v[s] > 0) => size[s] = both[s]
    OBVIOUS
  <2>1. x.u[s] \in Nat /\ x.v[s] \in Nat /\ x.u[s] <= Bound(p) /\ x.v[s] <= Bound(p) /\ Bound(p) \in Nat
    BY <1>1, <1>5, BoundHolds
  <2>2. size[s] = Abs(x.u[s] - x.v[s]) /\ both[s] = x.u[s] + x.v[s]
    BY <1>3, <2>1 DEF Sizes
  <2> HIDE DEF size, both
  <2> QED
    BY <2>1, <2>2 DEF Abs
<1>9. SumOver(size, ids) \in Int /\ SumOver(both, ids) \in Int /\ SumOver(size, ids) <= SumOver(both, ids)
  <2> HIDE DEF size, both, ids
  <2>1. \A s \in ids : size[s] \in Int
    BY <1>8
  <2>2. \A s \in ids : both[s] \in Int
    BY <1>8
  <2>3. \A s \in ids : size[s] \in Int /\ both[s] \in Int /\ size[s] <= both[s]
    BY <1>8
  <2> QED
    BY <1>2, <2>1, <2>2, <2>3, SumOverWhole, SumOverOrder
<1>10. IF p.cons.equality THEN SumOver(size, ids) = p.cons.gross ELSE SumOver(size, ids) <= p.cons.gross
  <2>1. CASE ~ p.cons.equality
    <3> HIDE DEF size, both, ids
    <3> QED
      BY <1>2, <1>5, <1>7, <1>9, <2>1
  <2>2. CASE p.cons.equality /\ \E s \in ids : x.u[s] > 0 /\ x.v[s] > 0
    <3>1. ~ (SumOver(size, ids) < p.cons.gross)
      BY <1>6, <2>2
    <3> HIDE DEF size, both, ids
    <3> QED
      BY <1>2, <1>5, <1>7, <1>9, <2>2, <3>1
  <2>3. CASE p.cons.equality /\ ~ \E s \in ids : x.u[s] > 0 /\ x.v[s] > 0
    <3> HIDE DEF size, both, ids
    <3>1. \A s \in ids : both[s] \in Int /\ size[s] \in Int /\ both[s] <= size[s]
      BY <1>8, <2>3
    <3>2. SumOver(both, ids) <= SumOver(size, ids)
      BY <1>2, <3>1, SumOverOrder
    <3> QED
      BY <1>2, <1>5, <1>7, <1>9, <2>3, <3>2
  <2> QED
    BY <1>2, <2>1, <2>2, <2>3
<1>11. SumOver(w, ids) = p.cons.net
  BY <1>4, <1>5 DEF Total
<1>12. p.cons.cap # None => \A s \in ids : Abs(w[s]) <= p.cons.cap
  <2> SUFFICES ASSUME p.cons.cap # None, NEW s \in ids PROVE Abs(w[s]) <= p.cons.cap
    OBVIOUS
  <2>1. Bound(p) \in Nat /\ Bound(p) <= p.cons.cap /\ p.cons.cap \in Nat
    BY BoundHolds DEF IsProblem, IsBound
  <2>2. size[s] \in Nat /\ size[s] <= Bound(p) /\ size[s] = Abs(w[s])
    BY <1>8 DEF Sizes
  <2> HIDE DEF size
  <2> QED
    BY <2>1, <2>2
<1>13. p.cons.beta # None => Abs(Exposure(p, w)) <= p.cons.beta
  <2> SUFFICES ASSUME p.cons.beta # None PROVE Abs(Exposure(p, w)) <= p.cons.beta
    OBVIOUS
  <2>1. p.cons.beta \in Nat /\ Exposure(p, w) \in -p.cons.beta .. p.cons.beta
    BY <1>5 DEF IsProblem, IsBound
  <2> QED
    BY <2>1 DEF Abs
<1>14. \A s \in ids \ p.shortable : w[s] >= 0
  <2> SUFFICES ASSUME NEW s \in ids \ p.shortable PROVE w[s] >= 0
    OBVIOUS
  <2>1. x.u[s] \in Nat /\ x.v[s] \in Nat /\ x.v[s] <= 0
    BY <1>1, <1>5
  <2> QED
    BY <1>3, <2>1
<1>15. Acceptable(p, w)
  BY <1>5, <1>10, <1>11, <1>12, <1>13, <1>14 DEF Acceptable
<1> QED
  BY <1>3, <1>15 DEF w

\* A book that passes is that of a point of the program that is no wash: its
\* long part and its short part.
LEMMA PassesInProgram ==
  ASSUME NEW p, IsProblem(p), NEW w \in [p.ids -> Int], Acceptable(p, w)
  PROVE  \E x \in SplitsOf(p) : Collapsed(x) = w /\ InProgram(p, x) /\ ~ Wash(p, x)
<1> DEFINE ids == p.ids
           size == Sizes(w, ids)
           up == [s \in ids |-> IF w[s] > 0 THEN w[s] ELSE 0]
           down == [s \in ids |-> IF w[s] < 0 THEN -w[s] ELSE 0]
           x == [u |-> up, v |-> down]
<1>1. IsFiniteSet(ids) /\ p.cons.gross \in Nat /\ p.cons.equality \in BOOLEAN
      /\ Bound(p) \in Nat
  BY BoundHolds DEF IsProblem
<1>2. \A s \in ids : /\ w[s] \in Int /\ up[s] \in Nat /\ down[s] \in Nat /\ size[s] \in Nat
                     /\ w[s] = up[s] - down[s] /\ size[s] = up[s] + 1 * down[s]
                     /\ size[s] = Abs(w[s])
                     /\ ~ (up[s] > 0 /\ down[s] > 0)
                     /\ w[s] >= 0 => down[s] = 0
  BY DEF Sizes, Abs
<1>3. up \in [ids -> Nat] /\ down \in [ids -> Nat]
  BY <1>2
<1>4. x \in SplitsOf(p) /\ x.u = up /\ x.v = down /\ DOMAIN x.u = ids
  BY <1>3 DEF SplitsOf
<1>5. Collapsed(x) = w
  <2>1. w = [s \in ids |-> w[s]]
    OBVIOUS
  <2>2. Collapsed(x) = [s \in ids |-> up[s] - down[s]]
    BY <1>4 DEF Collapsed
  <2>3. \A s \in ids : w[s] = up[s] - down[s]
    BY <1>2
  <2> HIDE DEF up, down, x
  <2> QED
    BY <2>1, <2>2, <2>3
<1>6. ~ Wash(p, x)
  <2> HIDE DEF x, up, down
  <2> QED
    BY <1>2, <1>4 DEF Wash
<1>7. SumOver(size, ids) = Total(x.u) + Total(x.v)
  <2>1. Total(x.u) = SumOver(up, ids) /\ Total(x.v) = SumOver(down, ids)
    BY <1>3, <1>4 DEF Total
  <2> HIDE DEF size, up, down, x, ids
  <2>2. /\ \A s \in ids : up[s] \in Int
        /\ \A s \in ids : down[s] \in Int
        /\ \A s \in ids : size[s] = up[s] + 1 * down[s]
    BY <1>2
  <2>3. /\ SumOver(size, ids) = SumOver(up, ids) + 1 * SumOver(down, ids)
        /\ SumOver(up, ids) \in Int /\ SumOver(down, ids) \in Int
    BY <1>1, <2>2, SumOverPlus
  <2> QED
    BY <2>1, <2>3
<1>8. /\ IF p.cons.equality THEN SumOver(size, ids) = p.cons.gross ELSE SumOver(size, ids) <= p.cons.gross
      /\ SumOver(w, ids) = p.cons.net
  BY DEF Acceptable
<1>9. \A s \in ids : /\ x.u[s] \in 0 .. Bound(p)
                     /\ x.v[s] \in 0 .. (IF s \in p.shortable THEN Bound(p) ELSE 0)
  <2> SUFFICES ASSUME NEW s \in ids
               PROVE  up[s] \in 0 .. Bound(p) /\ down[s] \in 0 .. (IF s \in p.shortable THEN Bound(p) ELSE 0)
    BY <1>4
  <2>1. size[s] <= SumOver(size, ids) /\ SumOver(size, ids) \in Nat
    <3>1. \A r \in ids : size[r] \in Nat
      BY <1>2
    <3> HIDE DEF size, ids
    <3> QED
      BY <1>1, <3>1, SumOverTerm, SumOverNat
  <2>2. size[s] <= p.cons.gross
    <3>1. size[s] \in Nat
      BY <1>2
    <3> HIDE DEF size, ids
    <3> QED
      BY <1>1, <1>8, <2>1, <3>1
  <2>3. p.cons.cap # None => size[s] <= p.cons.cap
    BY <1>2 DEF Acceptable
  <2>4. size[s] \in Nat /\ size[s] <= Bound(p)
    <3>1. size[s] \in Nat
      BY <1>2
    <3> HIDE DEF size, ids
    <3> QED
      BY <2>2, <2>3, <3>1, BoundHolds
  <2>5. s \notin p.shortable => down[s] = 0
    <3>1. s \notin p.shortable => w[s] >= 0
      BY DEF Acceptable
    <3> QED
      BY <1>2, <3>1
  <2>6. up[s] \in Nat /\ down[s] \in Nat /\ size[s] = up[s] + 1 * down[s]
    BY <1>2
  <2> HIDE DEF size, up, down
  <2> QED
    BY <1>1, <2>4, <2>5, <2>6
<1>10. Total(w) = p.cons.net
  <2>1. DOMAIN w = ids
    OBVIOUS
  <2> QED
    BY <1>8, <2>1 DEF Total
<1>11. p.cons.beta # None => Exposure(p, w) \in -p.cons.beta .. p.cons.beta
  <2> SUFFICES ASSUME p.cons.beta # None PROVE Exposure(p, w) \in -p.cons.beta .. p.cons.beta
    OBVIOUS
  <2>1. p.cons.beta \in Nat /\ Abs(Exposure(p, w)) <= p.cons.beta
    BY DEF Acceptable, IsProblem, IsBound
  <2>2. Exposure(p, w) \in Int
    <3> DEFINE f == [s \in p.ids |-> p.attr[s].beta * w[s]]
    <3>1. \A s \in p.ids : f[s] \in Int
      BY DEF IsProblem
    <3>2. Exposure(p, w) = SumOver(f, p.ids)
      BY DEF Exposure, Total
    <3> HIDE DEF f
    <3> QED
      BY <1>1, <3>1, <3>2, SumOverWhole
  <2> QED
    BY <2>1, <2>2 DEF Abs
<1> HIDE DEF x, up, down, size
<1>12. InProgram(p, x)
  <2>1. /\ GroupsKept(p, w) /\ VolKept(p, w)
        /\ p.cons.turnover # None => TwoWay(p, w) <= 2 * p.cons.turnover
        /\ p.cons.adv # None => \A s \in ids : Moved(p, w)[s] <= TradeCap(p, s)
    BY DEF Acceptable
  <2>2. IF p.cons.equality THEN Total(x.u) + Total(x.v) = p.cons.gross ELSE Total(x.u) + Total(x.v) <= p.cons.gross
    BY <1>7, <1>8
  <2> QED
    BY <1>5, <1>9, <1>10, <1>11, <2>1, <2>2 DEF InProgram
<1> QED
  BY <1>4, <1>5, <1>6, <1>12

\* The solver may end where it likes in its program: what is answered is a book
\* that passes the final checks or a refusal as infeasible, never a failure of
\* the optimization; and every book that passes is answered from some point.
THEOREM OptimizerAnswersExactly ==
  ASSUME NEW p, IsProblem(p), NEW reach, PrepareErrors(p, reach) = "none"
  PROVE  /\ \A x \in SplitsOf(p) : InProgram(p, x) => Build(p, reach, TRUE, x).error \in {"none", "infeasible"}
         /\ \A w \in [p.ids -> Int] :
              Violations(p, w) = {} <=>
                \E x \in SplitsOf(p) : /\ InProgram(p, x) /\ Collapsed(x) = w
                                       /\ Build(p, reach, TRUE, x).error = "none"
<1>1. ASSUME NEW x \in SplitsOf(p)
      PROVE  Build(p, reach, TRUE, x).error
               = IF StaticConflicts(p) # {} \/ Wash(p, x) THEN "infeasible"
                 ELSE IF Violations(p, Collapsed(x)) # {} THEN "optimization failed" ELSE "none"
  BY DEF Build
<1>2. ASSUME NEW x \in SplitsOf(p), InProgram(p, x), ~ Wash(p, x)
      PROVE  Collapsed(x) \in [p.ids -> Int] /\ Violations(p, Collapsed(x)) = {}
  <2>1. Collapsed(x) \in [p.ids -> Int] /\ Acceptable(p, Collapsed(x))
    BY <1>2, ProgramPasses
  <2> QED
    BY <2>1, Checked
<1>3. ASSUME NEW x \in SplitsOf(p), InProgram(p, x)
      PROVE  Build(p, reach, TRUE, x).error \in {"none", "infeasible"}
  BY <1>1, <1>2, <1>3
<1>4. ASSUME NEW w \in [p.ids -> Int], Violations(p, w) = {}
      PROVE  \E x \in SplitsOf(p) : /\ InProgram(p, x) /\ Collapsed(x) = w
                                    /\ Build(p, reach, TRUE, x).error = "none"
  <2>1. StaticConflicts(p) = {}
    BY <1>4, ConflictsLeaveNoBook
  <2>2. Acceptable(p, w)
    BY <1>4, Checked
  <2>3. PICK x \in SplitsOf(p) : Collapsed(x) = w /\ InProgram(p, x) /\ ~ Wash(p, x)
    BY <2>2, PassesInProgram
  <2>4. Build(p, reach, TRUE, x).error = "none"
    BY <1>1, <1>4, <2>1, <2>3
  <2> QED
    BY <2>3, <2>4
<1>5. ASSUME NEW w \in [p.ids -> Int], NEW x \in SplitsOf(p), Collapsed(x) = w,
             Build(p, reach, TRUE, x).error = "none"
      PROVE  Violations(p, w) = {}
  BY <1>1, <1>5
<1> QED
  BY <1>3, <1>4, <1>5

-----------------------------------------------------------------------------
(* What binds a book, and the problems of a run.                              *)

\* The figures of a book are whole numbers.
LEMMA FiguresInt ==
  ASSUME NEW p, IsProblem(p), NEW w \in [p.ids -> Int]
  PROVE  /\ TwoWay(p, w) \in Int
         /\ p.cons.beta # None => Exposure(p, w) \in Int
         /\ \A s \in p.ids : Moved(p, w)[s] \in Int
<1> DEFINE ids == p.ids
           left == [s \in DOMAIN p.exits |-> Abs(p.exits[s])]
           held0 == [s \in ids |-> p.attr[s].beta * w[s]]
<1>1. IsFiniteSet(ids) /\ IsFiniteSet(DOMAIN p.exits)
  BY DEF IsProblem
<1>2. \A s \in ids : Moved(p, w)[s] \in Int
  BY AbsInt DEF IsProblem, Moved
<1>3. Total(Moved(p, w)) \in Int
  BY <1>1, <1>2, SumOverWhole DEF Total, Moved
<1>4. \A s \in DOMAIN left : left[s] \in Int
  BY AbsInt DEF IsProblem
<1>5. ExitsTwoWay(p) \in Int
  <2>1. ExitsTwoWay(p) = SumOver(left, DOMAIN p.exits)
    BY DEF ExitsTwoWay, Total
  <2> HIDE DEF left
  <2> QED
    BY <1>1, <1>4, <2>1, SumOverWhole DEF left
<1>6. ASSUME p.cons.beta # None PROVE Exposure(p, w) \in Int
  <2>1. \A s \in ids : held0[s] \in Int
    BY <1>6 DEF IsProblem
  <2>2. Exposure(p, w) = SumOver(held0, ids)
    BY DEF Exposure, Total
  <2> HIDE DEF held0
  <2> QED
    BY <1>1, <2>1, <2>2, SumOverWhole
<1> QED
  BY <1>2, <1>3, <1>5, <1>6 DEF TwoWay

LEMMA VarianceInt ==
  ASSUME NEW ids, IsFiniteSet(ids), NEW w \in [ids -> Int], NEW sigma, \A e \in ids \X ids : sigma[e] \in Int
  PROVE  Variance(sigma, w) \in Int
<1> DEFINE terms == [e \in ids \X ids |-> w[e[1]] * sigma[e] * w[e[2]]]
<1>1. IsFiniteSet(ids \X ids)
  BY FS_Product
<1>2. \A e \in ids \X ids : terms[e] \in Int
  OBVIOUS
<1>3. Variance(sigma, w) = SumOver(terms, ids \X ids)
  BY DEF Variance, Total
<1> HIDE DEF terms
<1> QED
  BY <1>1, <1>2, <1>3, SumOverWhole

\* What binds a book cannot be tightened around it.
\* The smallest of the slacks of a limit on every name is that of a name.
LEMMA SlackAttained ==
  ASSUME NEW S, S # {}, NEW slack, \A s \in S : slack[s] \in Nat
  PROVE  \E s \in S : \A t \in S : slack[s] <= slack[t]
<1> DEFINE all == {slack[s] : s \in S}
<1>1. all \in SUBSET Nat /\ all # {}
  OBVIOUS
<1>2. PICK n \in all : \A m \in all : n <= m
  BY <1>1, LeastNat
<1> QED
  BY <1>2

LEMMA SmallestSlack ==
  ASSUME NEW S, S # {}, NEW slack, \A s \in S : slack[s] \in Nat, Min({slack[s] : s \in S}) <= 0
  PROVE  \E s \in S : slack[s] = 0
<1> DEFINE all == {slack[s] : s \in S}
<1>1. PICK s \in S : \A t \in S : slack[s] <= slack[t]
  BY SlackAttained
<1>2. slack[s] \in all /\ \A y \in all : slack[s] <= y
  BY <1>1
<1>3. Min(all) \in all
  BY <1>2, Zenon DEF Min
<1>4. PICK t \in S : slack[t] = Min(all)
  BY <1>3
<1> HIDE DEF all
<1> QED
  BY <1>4 DEF all

LEMMA LargestSize ==
  ASSUME NEW S, S # {}, NEW size, NEW cap \in Nat,
         \A s \in S : size[s] \in Nat /\ size[s] <= cap, cap - Max({size[s] : s \in S}) <= 0
  PROVE  \E s \in S : size[s] = cap
<1> DEFINE all == {size[s] : s \in S}
           slack == [s \in S |-> cap - size[s]]
<1>1. \A s \in S : slack[s] \in Nat
  OBVIOUS
<1>2. PICK s \in S : \A t \in S : slack[s] <= slack[t]
  <2> HIDE DEF slack
  <2> QED
    BY <1>1, SlackAttained
<1>3. size[s] \in all /\ \A y \in all : size[s] >= y
  BY <1>2
<1>4. Max(all) \in all
  BY <1>3, Zenon DEF Max
<1>5. PICK t \in S : size[t] = Max(all)
  BY <1>4
<1> HIDE DEF all
<1> QED
  BY <1>5 DEF all

\* A limit that is broken is named.
LEMMA BrokenNamed ==
  ASSUME NEW p, NEW w
  PROVE  /\ ~ (\A s \in p.ids : Within(Abs(w[s]), p.cons.cap)) => "position" \in Violations(p, w)
         /\ ~ (p.cons.beta # None => Abs(Exposure(p, w)) <= p.cons.beta) => "beta" \in Violations(p, w)
         /\ ~ (p.cons.turnover # None => TwoWay(p, w) <= 2 * p.cons.turnover)
              => "turnover" \in Violations(p, w)
         /\ ~ (p.cons.adv # None => \A s \in p.ids : Moved(p, w)[s] <= TradeCap(p, s))
              => "adv" \in Violations(p, w)
         /\ ~ VolKept(p, w) => "volatility" \in Violations(p, w)
  BY Zenon DEF Violations

\* A problem with one bound a unit tighter is the same problem otherwise.
ProblemFields == {"ids", "cons", "attr", "nav", "model", "sigma", "prev", "exits"}
LEMMA Tightened ==
  ASSUME NEW p, ProblemFields \subseteq DOMAIN p, NEW limit \in DOMAIN p.cons, p.cons[limit] \in Int,
         NEW w
  PROVE  LET q == Tighter(p, limit) IN
         /\ q.ids = p.ids /\ q.nav = p.nav /\ q.attr = p.attr /\ q.cons[limit] = p.cons[limit] - 1
         /\ Moved(q, w) = Moved(p, w) /\ TwoWay(q, w) = TwoWay(p, w) /\ Exposure(q, w) = Exposure(p, w)
         /\ q.model = p.model /\ q.sigma = p.sigma
<1> DEFINE q == Tighter(p, limit)
<1>1. /\ q.ids = p.ids /\ q.nav = p.nav /\ q.attr = p.attr /\ q.cons[limit] = p.cons[limit] - 1
      /\ q.model = p.model /\ q.sigma = p.sigma /\ q.prev = p.prev /\ q.exits = p.exits
  BY DEF Tighter, ProblemFields
<1> HIDE DEF q
<1>2. Moved(q, w) = Moved(p, w) /\ Exposure(q, w) = Exposure(p, w)
  BY <1>1, Zenon DEF Moved, Exposure
<1>3. ExitsTwoWay(q) = ExitsTwoWay(p)
  BY <1>1, Zenon DEF ExitsTwoWay
<1>4. TwoWay(q, w) = TwoWay(p, w)
  BY <1>2, <1>3 DEF TwoWay
<1> QED
  BY <1>1, <1>2, <1>4 DEF q

\* The limits that bind, each with what it means to.
LEMMA BindingMeans ==
  ASSUME NEW p, NEW w
  PROVE  /\ "turnover" \in ActiveInequalities(p, w)
              => p.cons.turnover # None /\ 2 * p.cons.turnover - TwoWay(p, w) <= 0
         /\ "beta" \in ActiveInequalities(p, w)
              => p.cons.beta # None /\ p.cons.beta - Abs(Exposure(p, w)) <= 0
         /\ "volatility" \in ActiveInequalities(p, w)
              => p.cons.vol # None /\ p.cons.vol - p.model.periods * Variance(p.sigma, w) <= 0
  BY DEF ActiveInequalities

\* The limits that level3_optimizer._active_inequalities reports as binding a book
\* that passed its final checks: tightened by one unit, each excludes that book,
\* where the volume of every name is no smaller than the value of the book.
THEOREM BindingLimitsExclude ==
  ASSUME NEW p, IsProblem(p), p.ids # {}, ProblemFields \subseteq DOMAIN p, DOMAIN Field \subseteq DOMAIN p.cons,
         p.cons.adv # None =>
            p.nav \in Nat \ {0} /\ \A s \in p.ids : p.attr[s].adv \in Nat /\ p.attr[s].adv >= p.nav,
         p.cons.vol # None =>
            /\ p.cons.vol \in Int /\ p.model.periods \in Int
            /\ \A e \in p.ids \X p.ids : p.sigma[e] \in Int,
         NEW w \in [p.ids -> Int], Violations(p, w) = {}, NEW limit \in DOMAIN Field,
         (IF limit = "vol" THEN "volatility" ELSE limit) \in ActiveInequalities(p, w)
  PROVE  Field[limit] \in Violations(Tighter(p, limit), w)
<1> DEFINE q == Tighter(p, limit)
<1>1. Acceptable(p, w) /\ IsFiniteSet(p.ids) /\ None \notin Int
  BY Checked DEF IsProblem
<1>2. p.cons[limit] \in Int => 
         /\ q.ids = p.ids /\ q.nav = p.nav /\ q.attr = p.attr /\ q.cons[limit] = p.cons[limit] - 1
         /\ Moved(q, w) = Moved(p, w) /\ TwoWay(q, w) = TwoWay(p, w) /\ Exposure(q, w) = Exposure(p, w)
         /\ q.model = p.model /\ q.sigma = p.sigma
  BY Tightened
<1>3. limit \in {"cap", "turnover", "adv", "beta", "vol"}
  BY DEF Field
<1>4. /\ Field["cap"] = "position" /\ Field["turnover"] = "turnover" /\ Field["adv"] = "adv"
      /\ Field["beta"] = "beta" /\ Field["vol"] = "volatility"
  BY DEF Field
<1> HIDE DEF q
<1>5. CASE limit = "cap"
  <2> DEFINE size == [s \in p.ids |-> Abs(w[s])]
  <2>0. "cap" \in ActiveInequalities(p, w)
    BY <1>5
  <2>1. p.cons.cap # None /\ p.cons.cap - Max({Abs(w[s]) : s \in p.ids}) <= 0
    BY <2>0 DEF ActiveInequalities
  <2>2. p.cons.cap \in Nat /\ \A s \in p.ids : size[s] \in Nat /\ size[s] <= p.cons.cap
    BY <1>1, <2>1, AbsInt DEF IsProblem, IsBound, Acceptable
  <2>3. {Abs(w[s]) : s \in p.ids} = {size[s] : s \in p.ids}
    OBVIOUS
  <2>4. p.cons.cap - Max({size[s] : s \in p.ids}) <= 0
    BY <2>1, <2>3, Zenon
  <2>5. \E s \in p.ids : size[s] = p.cons.cap
    <3> HIDE DEF size
    <3> QED
      BY <2>2, <2>4, LargestSize
  <2>6. PICK s \in p.ids : Abs(w[s]) = p.cons.cap
    BY <2>5
  <2>7. q.ids = p.ids /\ q.cons.cap = p.cons.cap - 1
    BY <1>2, <1>5, <2>2
  <2>8. ~ Within(Abs(w[s]), q.cons.cap)
    BY <1>1, <2>2, <2>6, <2>7 DEF Within
  <2>9. "position" \in Violations(q, w)
    BY <2>6, <2>7, <2>8, BrokenNamed
  <2> QED
    BY <1>4, <1>5, <2>9 DEF q
<1>6. CASE limit = "turnover"
  <2>1. p.cons.turnover # None /\ 2 * p.cons.turnover - TwoWay(p, w) <= 0
    BY <1>6, BindingMeans
  <2>2. p.cons.turnover \in Nat /\ TwoWay(p, w) \in Int
    BY <2>1, FiguresInt DEF IsProblem, IsBound
  <2>3. q.cons.turnover = p.cons.turnover - 1 /\ TwoWay(q, w) = TwoWay(p, w)
    BY <1>2, <1>6, <2>2
  <2>4. ~ (q.cons.turnover # None => TwoWay(q, w) <= 2 * q.cons.turnover)
    BY <1>1, <2>1, <2>2, <2>3
  <2>5. "turnover" \in Violations(q, w)
    BY <2>4, BrokenNamed
  <2> QED
    BY <1>4, <1>6, <2>5 DEF q
<1>7. CASE limit = "beta"
  <2>1. p.cons.beta # None /\ p.cons.beta - Abs(Exposure(p, w)) <= 0
    BY <1>7, BindingMeans
  <2>2. p.cons.beta \in Nat /\ Exposure(p, w) \in Int
    BY <2>1, FiguresInt DEF IsProblem, IsBound
  <2>3. q.cons.beta = p.cons.beta - 1 /\ Exposure(q, w) = Exposure(p, w)
    BY <1>2, <1>7, <2>2
  <2>4. ~ (q.cons.beta # None => Abs(Exposure(q, w)) <= q.cons.beta)
    BY <1>1, <2>1, <2>2, <2>3, AbsInt
  <2>5. "beta" \in Violations(q, w)
    BY <2>4, BrokenNamed
  <2> QED
    BY <1>4, <1>7, <2>5 DEF q
<1>8. CASE limit = "vol"
  <2>1. p.cons.vol # None /\ p.cons.vol - p.model.periods * Variance(p.sigma, w) <= 0
    BY <1>8, BindingMeans
  <2>2. p.cons.vol \in Int /\ p.model.periods * Variance(p.sigma, w) \in Int
    BY <1>1, <2>1, VarianceInt
  <2>3. q.cons.vol = p.cons.vol - 1 /\ q.model = p.model /\ q.sigma = p.sigma
    BY <1>2, <1>8, <2>2
  <2> DEFINE risk == p.model.periods * Variance(p.sigma, w)
  <2>4. risk \in Int /\ ~ (risk <= q.cons.vol) /\ q.cons.vol # None
    <3> HIDE DEF risk
    <3>1. p.cons.vol - risk <= 0 /\ risk \in Int
      BY <2>1, <2>2 DEF risk
    <3> QED
      BY <1>1, <2>2, <2>3, <3>1
  <2>5. ~ VolKept(q, w)
    BY <2>3, <2>4, Zenon DEF VolKept
  <2>6. "volatility" \in Violations(q, w)
    BY <2>5, BrokenNamed
  <2> QED
    BY <1>4, <1>8, <2>6 DEF q
<1>9. CASE limit = "adv"
  <2> DEFINE slack == [s \in p.ids |-> TradeCap(p, s) - Moved(p, w)[s]]
  <2>0. "adv" \in ActiveInequalities(p, w)
    BY <1>9
  <2>1. p.cons.adv # None /\ Min({TradeCap(p, s) - Moved(p, w)[s] : s \in p.ids}) <= 0
    BY <2>0 DEF ActiveInequalities
  <2>2. \A s \in p.ids : TradeCap(p, s) \in Int /\ Moved(p, w)[s] \in Int /\ Moved(p, w)[s] <= TradeCap(p, s)
    BY <1>1, <2>1, FiguresInt DEF IsProblem, Acceptable
  <2>3. \A s \in p.ids : slack[s] \in Nat
    BY <2>2
  <2>4. {TradeCap(p, s) - Moved(p, w)[s] : s \in p.ids} = {slack[s] : s \in p.ids}
    OBVIOUS
  <2>5. Min({slack[s] : s \in p.ids}) <= 0
    BY <2>1, <2>4, Zenon
  <2>6. \E s \in p.ids : slack[s] = 0
    <3> HIDE DEF slack
    <3> QED
      BY <2>3, <2>5, SmallestSlack
  <2>7. PICK s \in p.ids : TradeCap(p, s) - Moved(p, w)[s] = 0
    BY <2>6
  <2>8. p.cons.adv \in Nat
    BY <2>1 DEF IsProblem, IsBound
  <2>9. q.ids = p.ids /\ q.attr = p.attr /\ q.nav = p.nav /\ q.cons.adv = p.cons.adv - 1 /\ Moved(q, w) = Moved(p, w)
    BY <1>2, <1>9, <2>8
  <2> DEFINE volume == p.attr[s].adv
             nav == p.nav
             cap == p.cons.adv
  <2>10. volume \in Nat /\ nav \in Nat \ {0} /\ volume >= nav /\ cap \in Nat
    BY <2>1, <2>8
  <2>11. TradeCap(p, s) = (volume * cap) \div nav /\ TradeCap(q, s) = (volume * (cap - 1)) \div nav
    BY <2>9 DEF TradeCap
  <2>12. (volume * (cap - 1)) \div nav < (volume * cap) \div nav
    <3> HIDE DEF volume, nav, cap
    <3>1. volume * (cap - 1) = volume * cap - volume /\ volume * cap \in Int
      BY <2>10
    <3>2. ASSUME NEW m \in Int, NEW v \in Int, v >= nav PROVE (m - v) \div nav < m \div nav
      <4>1. (m - v) \div nav \in Int /\ m \div nav \in Int
        BY <2>10, <3>2, DivBounds
      <4>2. nav * ((m - v) \div nav) <= m - v /\ m < nav * (m \div nav) + nav
        BY <2>10, <3>2, DivBounds
      <4> DEFINE low == (m - v) \div nav
                 high == m \div nav
      <4> HIDE DEF low, high
      <4>3. low \in Int /\ high \in Int /\ nav * low <= m - v /\ m < nav * high + nav
        BY <4>1, <4>2 DEF low, high
      <4>4. nav * low < nav * high
        BY <2>10, <3>2, <4>3
      <4>5. low < high
        BY <2>10, <4>3, <4>4
      <4> QED
        BY <4>5 DEF low, high
    <3> QED
      BY <2>10, <3>1, <3>2
  <2>13. TradeCap(p, s) \in Int /\ Moved(p, w)[s] = TradeCap(p, s)
    BY <2>2, <2>7
  <2>14. TradeCap(q, s) \in Int
    <3> HIDE DEF volume, nav, cap
    <3> QED
      BY <2>10, <2>11, DivBounds
  <2>15. ~ (Moved(q, w)[s] <= TradeCap(q, s)) /\ q.cons.adv # None
    BY <1>1, <2>8, <2>9, <2>11, <2>12, <2>13, <2>14
  <2>16. "adv" \in Violations(q, w)
    BY <2>9, <2>15, BrokenNamed
  <2> QED
    BY <1>4, <1>9, <2>16 DEF q
<1> QED
  BY <1>3, <1>5, <1>6, <1>7, <1>8, <1>9

LEMMA CovarianceInt ==
  ASSUME NEW T \in Nat, NEW ids, ids # {}, NEW returns \in [ids -> [1 .. T -> Int]], NEW delta \in Int
  PROVE  \A e \in ids \X ids : Covariance(returns, delta)[e] \in Int
<1> DEFINE cross(r, q) == T * Total([i \in 1 .. T |-> returns[r][i] * returns[q][i]])
                          - Total(returns[r]) * Total(returns[q])
<1>1. IsFiniteSet(1 .. T)
  BY FS_Interval
<1>2. \A r \in ids : Total(returns[r]) \in Int
  BY <1>1, SumOverWhole DEF Total
<1>3. ASSUME NEW r \in ids, NEW q \in ids PROVE Total([i \in 1 .. T |-> returns[r][i] * returns[q][i]]) \in Int
  <2> DEFINE both == [i \in 1 .. T |-> returns[r][i] * returns[q][i]]
  <2>1. DOMAIN both = 1 .. T /\ \A i \in 1 .. T : both[i] \in Int
    OBVIOUS
  <2> HIDE DEF both
  <2>2. Total(both) \in Int
    BY <1>1, <2>1, SumOverWhole DEF Total
  <2> QED
    BY <2>2 DEF both
<1>4. \A r, q \in ids : cross(r, q) \in Int
  <2> SUFFICES ASSUME NEW r \in ids, NEW q \in ids PROVE cross(r, q) \in Int
    OBVIOUS
  <2> DEFINE own == Total([i \in 1 .. T |-> returns[r][i] * returns[q][i]])
  <2>1. own \in Int /\ Total(returns[r]) \in Int /\ Total(returns[q]) \in Int
    BY <1>2, <1>3
  <2>2. cross(r, q) = T * own - Total(returns[r]) * Total(returns[q])
    OBVIOUS
  <2> HIDE DEF own, cross
  <2> QED
    BY <2>1, <2>2
<1>5. Len(returns[CHOOSE s \in DOMAIN returns : TRUE]) = T
  <2> DEFINE s == CHOOSE s \in ids : TRUE
  <2>1. s \in ids
    OBVIOUS
  <2>2. returns[s] \in [1 .. T -> Int]
    BY <2>1
  <2>3. Len(returns[s]) = T
    <3> HIDE DEF s
    <3> QED
      BY <2>2
  <2> QED
    BY <2>3
<1>6. \A e \in ids \X ids :
        Covariance(returns, delta)[e] = (IF e[1] = e[2] THEN 100 ELSE 100 - delta) * cross(e[1], e[2])
  BY <1>5 DEF Covariance
<1> HIDE DEF cross
<1>7. ASSUME NEW r \in ids, NEW q \in ids PROVE Covariance(returns, delta)[<<r, q>>] \in Int
  <2>1. <<r, q>> \in ids \X ids /\ cross(r, q) \in Int
    BY <1>4
  <2>2. Covariance(returns, delta)[<<r, q>>] = (IF r = q THEN 100 ELSE 100 - delta) * cross(r, q)
    BY <1>6, <2>1
  <2> QED
    BY <2>1, <2>2
<1> QED
  BY <1>7

\* The limits of the problems asked for.
Constraints == [gross : {Gross3}, equality : BOOLEAN, net : Int, cap : {None, 1}, beta : {None, 1},
                sector : {None, 1}, country : {None, 0}, turnover : {None, 1, 2}, adv : {None, 1, 2},
                vol : {None, 400}]
LEMMA ConstraintsKept ==
  ASSUME NEW c \in Constraints
  PROVE  /\ [c EXCEPT !.cap = 1] \in Constraints /\ [c EXCEPT !.beta = 1] \in Constraints
         /\ [c EXCEPT !.sector = 1] \in Constraints /\ [c EXCEPT !.country = 0] \in Constraints
         /\ [c EXCEPT !.vol = 400] \in Constraints
         /\ \A n \in {1, 2} : [c EXCEPT !.turnover = n] \in Constraints /\ [c EXCEPT !.adv = n] \in Constraints
         /\ \A e \in BOOLEAN : [c EXCEPT !.equality = e] \in Constraints
         /\ \A n \in Int : [c EXCEPT !.net = n] \in Constraints
<1>1. [c EXCEPT !.cap = 1] \in Constraints
  BY DEF Constraints
<1>2. [c EXCEPT !.beta = 1] \in Constraints
  BY DEF Constraints
<1>3. [c EXCEPT !.sector = 1] \in Constraints
  BY DEF Constraints
<1>4. [c EXCEPT !.country = 0] \in Constraints
  BY DEF Constraints
<1>5. [c EXCEPT !.vol = 400] \in Constraints
  BY DEF Constraints
<1>6. \A n \in {1, 2} : [c EXCEPT !.turnover = n] \in Constraints
  BY DEF Constraints
<1>7. \A n \in {1, 2} : [c EXCEPT !.adv = n] \in Constraints
  BY DEF Constraints
<1>8. \A e \in BOOLEAN : [c EXCEPT !.equality = e] \in Constraints
  BY DEF Constraints
<1>9. \A n \in Int : [c EXCEPT !.net = n] \in Constraints
  BY DEF Constraints
<1> QED
  BY <1>1, <1>2, <1>3, <1>4, <1>5, <1>6, <1>7, <1>8, <1>9

LEMMA LimitsTyped == Limits \subseteq Constraints
<1>1. Bare \in Constraints
  BY DEF Bare, Constraints
<1>2. [Bare EXCEPT !.adv = 2] \in Constraints
  BY <1>1, ConstraintsKept
<1>3. [[Bare EXCEPT !.adv = 2] EXCEPT !.turnover = 1] \in Constraints
  BY <1>2, ConstraintsKept
<1>4. [Bare EXCEPT !.adv = 2, !.turnover = 1] = [[Bare EXCEPT !.adv = 2] EXCEPT !.turnover = 1]
  OBVIOUS
<1>5. [Bare EXCEPT !.cap = 1] \in Constraints
  BY <1>1, ConstraintsKept
<1>6. [Bare EXCEPT !.turnover = 2] \in Constraints
  BY <1>1, ConstraintsKept
<1>7. [Bare EXCEPT !.adv = 1] \in Constraints
  BY <1>1, ConstraintsKept
<1>8. [Bare EXCEPT !.beta = 1] \in Constraints
  BY <1>1, ConstraintsKept
<1>9. [Bare EXCEPT !.sector = 1] \in Constraints
  BY <1>1, ConstraintsKept
<1>10. [Bare EXCEPT !.country = 0] \in Constraints
  BY <1>1, ConstraintsKept
<1>11. [Bare EXCEPT !.vol = 400] \in Constraints
  BY <1>1, ConstraintsKept
<1> QED
  BY <1>1, <1>3, <1>4, <1>5, <1>6, <1>7, <1>8, <1>9, <1>10, <1>11, Zenon DEF Limits

\* What is asked of the optimizer: constraints, and a risk model wherever the
\* variance is limited.
LEMMA ConfigsTyped ==
  ASSUME NEW config \in Configs PROVE config.cons \in Constraints
<1>1. PICK c \in Limits, e \in BOOLEAN, n \in {-1, 0, 2} : config = ConfigWith(c, e, n)
  BY DEF Configs
<1>2. c \in Constraints /\ n \in Int
  BY LimitsTyped
<1>3. [c EXCEPT !.equality = e] \in Constraints
  BY <1>2, ConstraintsKept
<1>4. [[c EXCEPT !.equality = e] EXCEPT !.net = n] \in Constraints
  BY <1>2, <1>3, ConstraintsKept
<1>5. [c EXCEPT !.equality = e, !.net = n] = [[c EXCEPT !.equality = e] EXCEPT !.net = n]
  OBVIOUS
<1> QED
  BY <1>1, <1>4, <1>5 DEF ConfigWith

\* A problem asked for is a problem, and every limit of it can be tightened.
Before3 == [{1, 2, 3} -> -1 .. 1]
AskedFor(p, config, prev, hard) ==
  /\ config \in Configs /\ prev \in Before3 /\ hard \in {{}, {1}, {1, 2}}
  /\ ~ ConfigError(config) /\ p = Asking(config, prev, hard) /\ PrepareErrors(p, Reach) = "none"

LEMMA AskedFields ==
  ASSUME NEW p, NEW config, NEW prev, NEW hard, AskedFor(p, config, prev, hard)
  PROVE  /\ p.ids = Universe /\ p.config = config /\ p.cons = config.cons /\ p.cons \in Constraints
         /\ p.attr = Attr(hard) /\ p.nav = 2
         /\ p.model = (IF config.risk = None THEN None ELSE Model)
         /\ p.sigma = (IF p.model = None THEN None ELSE Covariance(p.model.returns, p.model.delta))
         /\ p.shortable \in SUBSET Universe
         /\ ProblemFields \subseteq DOMAIN p
<1>1. DOMAIN [s \in Universe |-> s] = Universe
  OBVIOUS
<1>2. p.cons \in Constraints
  BY ConfigsTyped DEF AskedFor, Asking, Prepare
<1> QED
  BY <1>1, <1>2 DEF AskedFor, Asking, Prepare, ProblemFields

LEMMA UpToFinite == \A n \in Nat : IsFiniteSet(1 .. n)
  BY FS_Interval

LEMMA AskedPositions ==
  ASSUME NEW p, NEW config, NEW prev, NEW hard, AskedFor(p, config, prev, hard)
  PROVE  /\ p.prev \in [Universe -> Int]
         /\ IsFiniteSet(DOMAIN p.exits) /\ \A s \in DOMAIN p.exits : p.exits[s] \in Int
<1> DEFINE gone == {x \in DOMAIN prev \ Universe : prev[x] # 0}
<1>1. prev \in [{1, 2, 3} -> -1 .. 1] /\ p = Asking(config, prev, hard)
  BY DEF AskedFor, Before3
<1>2. DOMAIN [s \in Universe |-> s] = Universe
  OBVIOUS
<1>3. p.prev = [s \in Universe |-> Weight(prev, s)] /\ p.exits = [s \in gone |-> prev[s]]
  BY <1>1, <1>2, Zenon DEF Asking, Prepare
<1>4. \A s \in Universe : Weight(prev, s) \in Int
  BY <1>1 DEF Weight, Universe
<1>5. IsFiniteSet(1 .. 3)
  BY UpToFinite
<1>6. gone \in SUBSET (1 .. 3) /\ \A s \in gone : prev[s] \in Int
  BY <1>1
<1>7. IsFiniteSet(gone)
  BY <1>5, <1>6, FS_Subset
<1> HIDE DEF gone
<1> QED
  BY <1>3, <1>4, <1>6, <1>7

LEMMA AskedIsProblem ==
  ASSUME NEW p, NEW config, NEW prev, NEW hard, AskedFor(p, config, prev, hard)
  PROVE  /\ IsProblem(p)
         /\ p.cons.adv # None =>
              p.nav \in Nat \ {0} /\ \A s \in p.ids : p.attr[s].adv \in Nat /\ p.attr[s].adv >= p.nav
         /\ p.cons.vol # None =>
              /\ p.cons.vol \in Int /\ p.model.periods \in Int
              /\ \A e \in p.ids \X p.ids : p.sigma[e] \in Int
         /\ p.cons.gross = Gross3
<1>1. /\ p.ids = {1, 2} /\ p.config = config /\ p.cons = config.cons /\ p.cons \in Constraints
      /\ p.attr = Attr(hard) /\ p.nav = 2 /\ p.shortable \in SUBSET {1, 2}
  BY AskedFields, Zenon DEF Universe
<1>2. IsFiniteSet(p.ids)
  <2>1. IsFiniteSet(1 .. 2)
    BY UpToFinite
  <2>2. 1 .. 2 = {1, 2}
    OBVIOUS
  <2> QED
    BY <1>1, <2>1, <2>2, Zenon
<1>3. p.prev \in [p.ids -> Int] /\ IsFiniteSet(DOMAIN p.exits) /\ \A s \in DOMAIN p.exits : p.exits[s] \in Int
  BY <1>1, AskedPositions DEF Universe
<1>5. \A s \in p.ids : p.attr[s].adv = 2 /\ p.attr[s].beta = s
  BY <1>1, PortfolioAssumption DEF Attr
<1>6. /\ p.cons.gross \in Nat /\ p.cons.net \in Int /\ p.cons.equality \in BOOLEAN
      /\ IsBound(p.cons.cap) /\ IsBound(p.cons.turnover) /\ IsBound(p.cons.beta)
      /\ IsBound(p.cons.sector) /\ IsBound(p.cons.country) /\ IsBound(p.cons.adv)
      /\ p.cons.gross = Gross3 /\ (p.cons.vol # None => p.cons.vol = 400)
  BY <1>1, PortfolioAssumption DEF Constraints, IsBound
<1>7. ASSUME p.cons.adv # None PROVE \A s \in p.ids : TradeCap(p, s) \in Int
  <2>1. p.cons.adv \in Nat
    BY <1>6, <1>7 DEF IsBound
  <2>2. \A s \in p.ids : TradeCap(p, s) = (2 * p.cons.adv) \div 2
    BY <1>1, <1>5 DEF TradeCap
  <2> QED
    BY <2>1, <2>2
<1>8. ASSUME p.cons.vol # None
      PROVE  p.model.periods \in Int /\ \A e \in p.ids \X p.ids : p.sigma[e] \in Int
  <2>1. config.risk # None
    BY <1>1, <1>8 DEF AskedFor, ConfigError
  <2>2. ModelMatches(p)
    BY DEF AskedFor, PrepareErrors
  <2>3. p.model = Model /\ p.model # None
    BY <1>1, <2>1, <2>2, AskedFields DEF ModelMatches
  <2>4. p.sigma = Covariance(Model.returns, Model.delta)
    BY <2>3, AskedFields
  <2>5. Model.periods = 1 /\ Model.delta = 50
    BY DEF Model
  <2>6. Model.returns \in [{1, 2} -> [1 .. 3 -> Int]]
    <3>1. <<0, 1, 2>> \in [1 .. 3 -> Int] /\ <<1, 0, 1>> \in [1 .. 3 -> Int]
      OBVIOUS
    <3> QED
      BY <3>1 DEF Model, Universe
  <2>7. \A e \in {1, 2} \X {1, 2} : Covariance(Model.returns, Model.delta)[e] \in Int
    <3>1. 3 \in Nat /\ {1, 2} # {} /\ Model.delta \in Int
      BY <2>5
    <3> QED
      BY <2>6, <3>1, CovarianceInt
  <2> QED
    BY <1>1, <2>3, <2>4, <2>5, <2>7
<1>9. IsProblem(p)
  BY <1>1, <1>2, <1>3, <1>5, <1>6, <1>7, PortfolioAssumption DEF IsProblem
<1>10. p.nav \in Nat \ {0} /\ \A s \in p.ids : p.attr[s].adv \in Nat /\ p.attr[s].adv >= p.nav
  BY <1>1, <1>5
<1>11. p.cons.vol # None =>
         /\ p.cons.vol \in Int /\ p.model.periods \in Int
         /\ \A e \in p.ids \X p.ids : p.sigma[e] \in Int
  BY <1>6, <1>8
<1> QED
  BY <1>6, <1>9, <1>10, <1>11

\* What the solver may answer, and from which points.
LEMMA AnswersAreSound ==
  ASSUME NEW p, IsProblem(p), p.ids = Universe, p.cons.gross = Gross3, PrepareErrors(p, Reach) = "none",
         NEW x \in Points, InProgram(p, x), Build(p, Reach, TRUE, x).error = "none"
  PROVE  /\ Collapsed(x) \in [Universe -> -Gross3 .. Gross3] /\ Violations(p, Collapsed(x)) = {}
         /\ Build(p, Reach, TRUE, x).weights = BookOf(Collapsed(x))
<1> DEFINE w == Collapsed(x)
<1>1. Gross3 \in Nat
  BY PortfolioAssumption
<1>2. x.u \in [Universe -> 0 .. Gross3] /\ x.v \in [Universe -> 0 .. Gross3]
  BY DEF Points
<1>3. w = [s \in Universe |-> x.u[s] - x.v[s]]
  BY <1>2 DEF Collapsed
<1>4. w \in [Universe -> -Gross3 .. Gross3]
  <2>1. \A s \in Universe : x.u[s] - x.v[s] \in -Gross3 .. Gross3
    BY <1>1, <1>2
  <2> QED
    BY <1>3, <2>1
<1>5. Violations(p, w) = {} /\ Build(p, Reach, TRUE, x).weights = Restrict(w, {s \in p.ids : w[s] # 0})
  BY Zenon DEF Build
<1> QED
  BY <1>4, <1>5, Zenon DEF BookOf, Restrict

LEMMA SoundAreAnswered ==
  ASSUME NEW p, IsProblem(p), p.ids = Universe, p.cons.gross = Gross3, PrepareErrors(p, Reach) = "none",
         NEW w \in [Universe -> -Gross3 .. Gross3], Violations(p, w) = {}
  PROVE  \E x \in Points : /\ InProgram(p, x) /\ Collapsed(x) = w
                           /\ Build(p, Reach, TRUE, x).error = "none"
<1>1. w \in [p.ids -> Int] /\ Gross3 \in Nat
  BY PortfolioAssumption
<1>2. PICK x \in SplitsOf(p) : InProgram(p, x) /\ Collapsed(x) = w /\ Build(p, Reach, TRUE, x).error = "none"
  BY <1>1, OptimizerAnswersExactly
<1>3. Bound(p) \in Nat /\ Bound(p) <= Gross3
  BY BoundHolds
<1>4. \A s \in Universe : x.u[s] \in 0 .. Gross3 /\ x.v[s] \in 0 .. Gross3
  <2> SUFFICES ASSUME NEW s \in Universe PROVE x.u[s] \in 0 .. Gross3 /\ x.v[s] \in 0 .. Gross3
    OBVIOUS
  <2>1. x.u[s] \in 0 .. Bound(p) /\ x.v[s] \in 0 .. (IF s \in p.shortable THEN Bound(p) ELSE 0)
    BY <1>2 DEF InProgram
  <2> QED
    BY <1>1, <1>3, <2>1
<1>5. x = [u |-> x.u, v |-> x.v] /\ x.u \in [Universe -> Nat] /\ x.v \in [Universe -> Nat]
  BY <1>2 DEF SplitsOf
<1>6. x.u \in [Universe -> 0 .. Gross3] /\ x.v \in [Universe -> 0 .. Gross3]
  BY <1>4, <1>5
<1>7. x \in Points
  BY <1>5, <1>6 DEF Points
<1> QED
  BY <1>2, <1>7

\* Every problem that is prepared was asked for.
ProblemAsked ==
  problem # None => \E config, prev, hard : AskedFor(problem, config, prev, hard)

LEMMA ProblemAskedInit == PartInit => ProblemAsked
  BY DEF PartInit, BooksInit, ProblemAsked

LEMMA ProblemAskedStep == ProblemAsked /\ [PartNext]_<<part, vars, books>> => ProblemAsked'
<1> SUFFICES ASSUME ProblemAsked, [PartNext]_<<part, vars, books>> PROVE ProblemAsked'
  OBVIOUS
<1>1. CASE UNCHANGED problem
  BY <1>1 DEF ProblemAsked
<1>2. CASE AskOptimizer
  <2>1. PICK prev \in Before3, config \in Configs, hard \in {{}, {1}, {1, 2}} :
          /\ ~ ConfigError(config) /\ problem' = Asking(config, prev, hard)
          /\ PrepareErrors(problem', Reach) = "none"
    BY <1>2 DEF AskOptimizer, Before3
  <2>2. AskedFor(problem', config, prev, hard)
    BY <2>1 DEF AskedFor
  <2> QED
    BY <2>2 DEF ProblemAsked
<1>3. UNCHANGED problem \/ AskOptimizer
  BY DEF PartNext, BooksNext, Construct, ChargeBook, books
<1> QED
  BY <1>1, <1>2, <1>3

\* What OptimizerExact says of a problem.
ExactFor(p) ==
  \E sound \in {{w \in [Universe -> -Gross3 .. Gross3] : Violations(p, w) = {}}},
     answers \in {{Build(p, Reach, TRUE, x) : x \in {y \in Points : InProgram(p, y)}}} :
    /\ StaticConflicts(p) # {} => sound = {}
    /\ {a.error : a \in answers} \subseteq {"none", "infeasible"}
    /\ {a.weights : a \in {b \in answers : b.error = "none"}} = {BookOf(w) : w \in sound}
    /\ \A w \in sound, limit \in DOMAIN Field :
         (IF limit = "vol" THEN "volatility" ELSE limit) \in ActiveInequalities(p, w)
           => Field[limit] \in Violations(Tighter(p, limit), w)

LEMMA AskedIsExact ==
  ASSUME NEW p, NEW config, NEW prev, NEW hard, AskedFor(p, config, prev, hard)
  PROVE  ExactFor(p)
<1> DEFINE sound == {w \in [Universe -> -Gross3 .. Gross3] : Violations(p, w) = {}}
           answers == {Build(p, Reach, TRUE, x) : x \in {y \in Points : InProgram(p, y)}}
<1>1. /\ IsProblem(p) /\ p.ids = Universe /\ p.cons.gross = Gross3 /\ PrepareErrors(p, Reach) = "none"
      /\ p.cons \in Constraints /\ ProblemFields \subseteq DOMAIN p /\ Gross3 \in Nat
  BY AskedIsProblem, AskedFields, PortfolioAssumption DEF AskedFor
<1>2. \A w \in [Universe -> -Gross3 .. Gross3] : w \in [p.ids -> Int]
  BY <1>1
<1>3. ASSUME StaticConflicts(p) # {} PROVE sound = {}
  <2> SUFFICES ASSUME NEW w \in [Universe -> -Gross3 .. Gross3], Violations(p, w) = {} PROVE FALSE
    OBVIOUS
  <2> QED
    BY <1>1, <1>2, <1>3, ConflictsLeaveNoBook
<1>4. ASSUME NEW x \in Points, InProgram(p, x) PROVE Build(p, Reach, TRUE, x).error \in {"none", "infeasible"}
  <2>1. x \in SplitsOf(p)
    BY <1>1 DEF Points, SplitsOf
  <2> QED
    BY <1>1, <1>4, <2>1, OptimizerAnswersExactly
<1>5. {a.error : a \in answers} \subseteq {"none", "infeasible"}
  BY <1>4
<1>6. ASSUME NEW x \in Points, InProgram(p, x), Build(p, Reach, TRUE, x).error = "none"
      PROVE  \E w \in sound : Build(p, Reach, TRUE, x).weights = BookOf(w)
  BY <1>1, <1>6, AnswersAreSound
<1>7. ASSUME NEW w \in sound
      PROVE  \E x \in Points : /\ InProgram(p, x) /\ Build(p, Reach, TRUE, x).error = "none"
                               /\ Build(p, Reach, TRUE, x).weights = BookOf(w)
  <2>1. PICK x \in Points : /\ InProgram(p, x) /\ Collapsed(x) = w
                            /\ Build(p, Reach, TRUE, x).error = "none"
    BY <1>1, SoundAreAnswered
  <2>2. Build(p, Reach, TRUE, x).weights = BookOf(w)
    BY <1>1, <2>1, AnswersAreSound
  <2> QED
    BY <2>1, <2>2
<1>8. {a.weights : a \in {b \in answers : b.error = "none"}} = {BookOf(w) : w \in sound}
  <2> DEFINE given == {b \in answers : b.error = "none"}
  <2>1. \A a \in given : \E w \in sound : a.weights = BookOf(w)
    BY <1>6
  <2>2. \A w \in sound : \E a \in given : a.weights = BookOf(w)
    <3> SUFFICES ASSUME NEW w \in sound PROVE \E a \in given : a.weights = BookOf(w)
      OBVIOUS
    <3>1. PICK x \in Points : /\ InProgram(p, x) /\ Build(p, Reach, TRUE, x).error = "none"
                              /\ Build(p, Reach, TRUE, x).weights = BookOf(w)
      BY <1>7
    <3>2. Build(p, Reach, TRUE, x) \in given
      BY <3>1
    <3> QED
      BY <3>1, <3>2
  <2> HIDE DEF given, sound, answers
  <2>3. {a.weights : a \in given} = {BookOf(w) : w \in sound}
    BY <2>1, <2>2
  <2> QED
    BY <2>3 DEF given
<1>9. ASSUME NEW w \in sound, NEW limit \in DOMAIN Field,
             (IF limit = "vol" THEN "volatility" ELSE limit) \in ActiveInequalities(p, w)
      PROVE  Field[limit] \in Violations(Tighter(p, limit), w)
  <2>1. p.ids # {} /\ DOMAIN Field \subseteq DOMAIN p.cons
    BY <1>1 DEF Universe, Field, Constraints
  <2>2. w \in [p.ids -> Int] /\ Violations(p, w) = {}
    BY <1>2
  <2> QED
    BY <1>1, <1>9, <2>1, <2>2, AskedIsProblem, BindingLimitsExclude
<1> HIDE DEF sound, answers
<1>10. /\ StaticConflicts(p) # {} => sound = {}
       /\ {a.error : a \in answers} \subseteq {"none", "infeasible"}
       /\ {a.weights : a \in {b \in answers : b.error = "none"}} = {BookOf(w) : w \in sound}
       /\ \A w \in sound, limit \in DOMAIN Field :
            (IF limit = "vol" THEN "volatility" ELSE limit) \in ActiveInequalities(p, w)
              => Field[limit] \in Violations(Tighter(p, limit), w)
  BY <1>3, <1>5, <1>8, <1>9
<1> QED
  BY <1>10, Zenon DEF ExactFor, sound, answers

\* build_level3_portfolio on every problem of the run: its static conflicts leave
\* no book, it answers exactly the books that pass its final checks, and a limit
\* that it reports as binding cannot be tightened around its book.
THEOREM OptimizerIsExact == PartSpec => []OptimizerExact
<1>1. ProblemAsked => OptimizerExact
  <2> SUFFICES ASSUME ProblemAsked, problem # None PROVE ExactFor(problem)
    BY Zenon DEF OptimizerExact, ExactFor
  <2> QED
    BY AskedIsExact DEF ProblemAsked
<1> QED
  BY <1>1, ProblemAskedInit, ProblemAskedStep, PTL DEF PartSpec

-----------------------------------------------------------------------------
(* Free borrowing.                                                            *)

\* The books of a run hold whole positions in finitely many names.
WholeBook(weights) == IsFiniteSet(DOMAIN weights) /\ \A s \in DOMAIN weights : weights[s] \in Int

LEMMA SimpleBookWhole ==
  ASSUME NEW scores, IsFiniteSet(DOMAIN scores), NEW k, NEW half \in Nat,
         BuildSimple(scores, k, half).error = "none"
  PROVE  WholeBook(BuildSimple(scores, k, half).weights)
<1> DEFINE top == Top(scores, k)
           bottom == Bottom(scores, k)
           weights == [s \in top \cup bottom |-> IF s \in top THEN half \div Cardinality(top)
                                                 ELSE -(half \div Cardinality(bottom))]
<1>1. FractileErrors(scores, k) = "none"
  BY DEF BuildSimple, Refused
<1>2. BuildSimple(scores, k, half) = Portfolio(weights)
  BY <1>1 DEF BuildSimple
<1>3. top \in SUBSET DOMAIN scores /\ bottom \in SUBSET DOMAIN scores
  BY DEF Top, Bottom, Leg
<1>4. IsFiniteSet(top) /\ IsFiniteSet(bottom)
  BY <1>3, FS_Subset
<1>5. Cardinality(top) \in Nat /\ Cardinality(bottom) \in Nat /\ IsFiniteSet(top \cup bottom)
  BY <1>4, FS_CardinalityType, FS_Union
<1>6. (\A s \in top : Cardinality(top) > 0) /\ (\A s \in bottom : Cardinality(bottom) > 0)
  BY <1>4, <1>5, FS_EmptySet
<1> HIDE DEF top, bottom
<1>7. \A s \in top \cup bottom : weights[s] \in Int
  <2>1. \A s \in top : half \div Cardinality(top) \in Int
    BY <1>5, <1>6, DivBounds
  <2>2. \A s \in bottom : half \div Cardinality(bottom) \in Int
    BY <1>5, <1>6, DivBounds
  <2> QED
    BY <2>1, <2>2
<1>8. DOMAIN weights = top \cup bottom
  OBVIOUS
<1>9. Portfolio(weights).error = "none"
  BY <1>2
<1> HIDE DEF weights
<1>10. Portfolio(weights).weights = weights
  BY <1>9 DEF Portfolio, Refused, Answered
<1> QED
  BY <1>2, <1>5, <1>7, <1>8, <1>10 DEF WholeBook

LEMMA WeightedBookWhole ==
  ASSUME NEW scores, IsCrossSection(scores), NEW k \in Int, NEW half \in Nat, NEW cap \in Nat,
         NEW mode \in {"none", "joint", "per_leg"}, NEW beta, \A s \in DOMAIN beta : beta[s] \in Int,
         BuildSignalWeighted(scores, k, half, cap, mode, beta).error = "none"
  PROVE  WholeBook(BuildSignalWeighted(scores, k, half, cap, mode, beta).weights)
<1> DEFINE answer == BuildSignalWeighted(scores, k, half, cap, mode, beta)
           w == Residualize(scores, mode, Top(scores, k), Bottom(scores, k), beta)
<1>1. Follows(answer.weights, w, half, cap)
  BY WeightedBookFollows
<1> HIDE DEF answer, w
<1>2. WholeBook(answer.weights)
  BY <1>1, Zenon DEF Follows, WholeBook
<1> QED
  BY <1>2 DEF answer

\* The scores and exposures of the run.
LEMMA RunScores ==
  /\ \A scores \in TwoHalves : IsCrossSection(scores)
  /\ \A scores \in TwoScores : IsFiniteSet(DOMAIN scores)
  /\ \A beta \in Betas : \A s \in DOMAIN beta : beta[s] \in Int
<1>1. IsFiniteSet(Names) /\ Names \subseteq Int /\ {1, 2, 3} \subseteq Names /\ Names \subseteq Nat
  BY PortfolioAssumption
<1>2. HalfNames \in Nat /\ HalfNames > 0
  <2>1. 1 .. 3 = {1, 2, 3}
    OBVIOUS
  <2>2. IsFiniteSet(1 .. 3) /\ Cardinality(1 .. 3) = 3
    <3>1. \A n \in Nat : Cardinality(1 .. n) = n
      BY FS_Interval
    <3> QED
      BY <3>1, UpToFinite
  <2>3. 3 <= Cardinality(Names) /\ Cardinality(Names) \in Nat
    BY <1>1, <2>1, <2>2, FS_Subset, FS_CardinalityType
  <2> QED
    BY <2>3 DEF HalfNames
<1>3. ASSUME NEW scores \in TwoHalves PROVE IsCrossSection(scores)
  <2>1. PICK low \in {<<-1, -3, -4>>, <<-4, -4, -4>>, <<2, -3, -9>>}, high \in [1 .. HalfNames -> {1, 3, 4}] :
          scores = [s \in Names |-> IF s <= HalfNames THEN low[((s - 1) % 3) + 1]
                                    ELSE high[((s - 1) % HalfNames) + 1]]
    BY DEF TwoHalves
  <2>2. low \in [1 .. 3 -> Int]
    OBVIOUS
  <2>3. \A s \in Names : ((s - 1) % 3) + 1 \in 1 .. 3 /\ ((s - 1) % HalfNames) + 1 \in 1 .. HalfNames
    BY <1>1, <1>2
  <2>4. \A s \in Names : scores[s] \in Int
    BY <2>1, <2>2, <2>3
  <2>5. DOMAIN scores = Names
    BY <2>1
  <2>6. scores = [s \in DOMAIN scores |-> scores[s]]
    BY <2>1
  <2> QED
    BY <1>1, <2>4, <2>5, <2>6 DEF IsCrossSection
<1> QED
  BY <1>1, <1>3 DEF TwoScores, Betas

LEMMA AnswerWhole ==
  ASSUME NEW month, NEW a \in Asked(month), Answer(a).error = "none"
  PROVE  WholeBook(Answer(a).weights)
<1> DEFINE fractile == [level : {1}, k : Counts("fractile_ls"), cap : {NoCap}, mode : {"none"},
                        beta : {<<>>}, scores : TwoScores]
           weighted == [level : {2}, k : {2}, cap : {NoCap, 9}, mode : {"none"}, beta : {<<>>}, scores : TwoHalves]
           residual == [level : {2}, k : {2}, cap : {9, 13}, mode : {"joint", "per_leg"},
                        beta : Betas, scores : TwoHalves]
<1>1. a \in fractile \cup weighted \cup residual
  BY Zenon DEF Asked
<1>2. Half \in Nat
  BY PortfolioAssumption
<1>3. CASE a \in fractile
  <2>1. a.level = 1 /\ IsFiniteSet(DOMAIN a.scores)
    BY <1>3, RunScores
  <2> QED
    BY <1>2, <2>1, SimpleBookWhole DEF Answer
<1>4. CASE a \in weighted \cup residual
  <2>1. /\ a.level = 2 /\ a.k = 2 /\ a.cap \in {NoCap, 9, 13} /\ a.mode \in {"none", "joint", "per_leg"}
        /\ a.beta \in {<<>>} \cup Betas /\ a.scores \in TwoHalves
    BY <1>4
  <2>2. IsCrossSection(a.scores) /\ a.cap \in Nat /\ a.k \in Int /\ \A s \in DOMAIN a.beta : a.beta[s] \in Int
    BY <2>1, RunScores DEF NoCap
  <2>3. Answer(a) = BuildSignalWeighted(a.scores, a.k, Half, a.cap, a.mode, a.beta)
    BY <2>1 DEF Answer
  <2> QED
    BY <1>2, <2>1, <2>2, <2>3, WeightedBookWhole
<1> QED
  BY <1>1, <1>3, <1>4

\* The sum along one.
LEMMA SumAlongOne ==
  ASSUME NEW terms, DOMAIN terms = 1 .. 1, terms[1] \in Int
  PROVE  Total(terms) = terms[1]
<1>1. IsFiniteSet(1 .. 1) /\ Cardinality(1 .. 1) = 1
  <2>1. \A n \in Nat : Cardinality(1 .. n) = n
    BY FS_Interval
  <2> QED
    BY <2>1, UpToFinite
<1>2. \A i \in 1 .. 1 : terms[i] = terms[1]
  OBVIOUS
<1>3. SumOver(terms, 1 .. 1) = terms[1] * Cardinality(1 .. 1)
  BY <1>1, <1>2, SumOverConstant
<1> QED
  BY <1>1, <1>3 DEF Total

\* The borrow components of the run's stacks, and what each asks of its mark.
Borrows == {None, [fee |-> 0, denominator |-> 360, overrides |-> <<>>],
            [fee |-> 50, denominator |-> 365, overrides |-> <<>>],
            [fee |-> 0, denominator |-> 365, overrides |-> <<>>],
            [fee |-> 0, denominator |-> 365, overrides |-> [eu |-> 40]]}
DenominatorOf(borrow) == IF borrow = None THEN 365 ELSE borrow.denominator

LEMMA BorrowAsks ==
  ASSUME NEW borrow \in Borrows, NEW mark, mark.fee = None, NEW short \in Int, short > 0,
         NEW fee, fee = Fee(borrow, mark), NEW days, days = AccrualDays(<<73, 365>>, DenominatorOf(borrow))
  PROVE  /\ DenominatorOf(borrow) \in Int /\ days \in Int /\ days > 0 /\ fee \in Nat
         /\ borrow # None /\ fee > 0 => (fee * short * days) \div borrow.denominator \in Int \ {0}
<1>1. <<73, 365>>[1] = 73 /\ <<73, 365>>[2] = 365
  OBVIOUS
<1>2. DenominatorOf(borrow) \in {360, 365}
  BY DEF Borrows, DenominatorOf
<1>3. days = (73 * DenominatorOf(borrow)) \div 365
  BY <1>1, Zenon DEF AccrualDays
<1>4. /\ DenominatorOf(borrow) = 360 => days = 72
      /\ DenominatorOf(borrow) = 365 => days = 73
  BY <1>3
<1>5. fee \in {0, 40, 50} /\ (borrow # None /\ fee > 0 => borrow.denominator = 365)
  <2>1. CASE borrow = None
    BY <2>1 DEF Fee
  <2>2. CASE borrow # None
    <3>1. fee = RateFor(borrow.fee, borrow.overrides, mark.region)
      BY <2>2 DEF Fee
    <3>2. CASE borrow = [fee |-> 0, denominator |-> 360, overrides |-> <<>>]
      BY <3>1, <3>2 DEF RateFor
    <3>3. CASE borrow = [fee |-> 50, denominator |-> 365, overrides |-> <<>>]
      BY <3>1, <3>3 DEF RateFor
    <3>4. CASE borrow = [fee |-> 0, denominator |-> 365, overrides |-> <<>>]
      BY <3>1, <3>4 DEF RateFor
    <3>5. CASE borrow = [fee |-> 0, denominator |-> 365, overrides |-> [eu |-> 40]]
      BY <3>1, <3>5 DEF RateFor
    <3> QED
      BY <2>2, <3>2, <3>3, <3>4, <3>5 DEF Borrows
  <2> QED
    BY <2>1, <2>2
<1>6. ASSUME borrow # None, fee > 0 PROVE (fee * short * days) \div borrow.denominator \in Int \ {0}
  <2>1. borrow.denominator = 365 /\ days = 73 /\ fee \in {40, 50}
    BY <1>4, <1>5, <1>6 DEF DenominatorOf
  <2>2. fee * short * days \in Int /\ fee * short * days >= 365
    BY <2>1
  <2> DEFINE a == fee * short * days
  <2> HIDE DEF a
  <2>3. a \div 365 \in Int \ {0}
    BY <2>2, DivBounds DEF a
  <2> QED
    BY <2>1, <2>3 DEF a
<1> QED
  BY <1>2, <1>4, <1>5, <1>6

\* What one mark of a short book is charged.
LEMMA ChargedOrSaid ==
  ASSUME NEW cost, cost.borrow \in Borrows, NEW trades, NEW short \in Int, short > 0, NEW date, NEW nav,
         NEW marks, marks = Marks(short, <<73, 365>>, DenominatorOf(cost.borrow), date),
         ChargesOf(Run(cost, trades, marks, nav)).borrow = 0
  PROVE  Run(cost, trades, marks, nav).banner
<1> DEFINE days == AccrualDays(<<73, 365>>, DenominatorOf(cost.borrow))
           fee == Fee(cost.borrow, marks[1])
           mark == [sec |-> ShortBook, date |-> date, notional |-> short, fee |-> None,
                    days |-> days, region |-> None, hard |-> FALSE]
           accruals == [i \in DOMAIN marks |-> Accrue(cost, marks[i])]
           amounts == [i \in DOMAIN accruals |-> accruals[i].amount]
           weights == [i \in DOMAIN accruals |-> accruals[i].mark.notional * accruals[i].mark.days]
           free == [i \in DOMAIN accruals |-> IF accruals[i].fee = 0
                                              THEN accruals[i].mark.notional * accruals[i].mark.days ELSE 0]
<1> HIDE DEF days, fee, accruals, amounts, weights, free
<1>1. marks = <<mark>>
  <2>1. <<73, 365>>[1] = 73
    OBVIOUS
  <2>2. ~ (short = 0 \/ <<73, 365>>[1] = 0)
    BY <2>1
  <2> QED
    BY <2>2, Zenon DEF Marks, days
<1>2. DOMAIN marks = 1 .. 1 /\ marks[1] = mark
  <2> HIDE DEF mark
  <2> QED
    BY <1>1
<1>13. marks[1].fee = None
  BY <1>2 DEF mark
<1> HIDE DEF mark
<1>14. /\ days \in Int /\ days > 0 /\ fee \in Nat
       /\ cost.borrow # None /\ fee > 0 => (fee * short * days) \div cost.borrow.denominator \in Int \ {0}
  BY <1>13, BorrowAsks DEF fee, days
<1> USE DEF accruals, amounts, weights, free
<1>3. DOMAIN accruals = 1 .. 1 /\ accruals[1] = Accrue(cost, mark)
  BY <1>2
<1>4. mark.notional = short /\ mark.days = days
  BY DEF mark
<1>5. /\ accruals[1].mark = mark /\ accruals[1].fee = fee
      /\ accruals[1].amount = (IF cost.borrow = None THEN 0
                               ELSE (fee * short * days) \div cost.borrow.denominator)
  <2>1. fee = Fee(cost.borrow, mark)
    BY <1>2 DEF fee
  <2> HIDE DEF accruals
  <2> QED
    BY <1>3, <1>4, <2>1 DEF Accrue
<1> HIDE DEF accruals
<1>6. ChargesOf(Run(cost, trades, marks, nav)).borrow = Total(amounts)
  <2>1. Run(cost, trades, marks, nav).totals = Totals(PriceTrades(cost, trades, nav), accruals)
    BY Zenon DEF Run, accruals
  <2>2. \A costs : Totals(costs, accruals)["borrow"] = SumOver(amounts, DOMAIN accruals)
    BY Zenon DEF Totals, TotalsOf
  <2>3. DOMAIN amounts = DOMAIN accruals
    OBVIOUS
  <2> HIDE DEF amounts
  <2>4. Total(amounts) = SumOver(amounts, DOMAIN accruals)
    BY <2>3 DEF Total
  <2> QED
    BY <2>1, <2>2, <2>4, Zenon DEF ChargesOf
<1>7. Run(cost, trades, marks, nav).banner = (/\ Total(free) > 0
                                              /\ \/ Total(free) = Total(weights)
                                                 \/ 100 * Total(free) > cost.threshold * Total(weights))
  BY Zenon DEF Run, Banner, SumAlong, accruals
<1>8. short * days \in Int /\ short * days > 0
  BY <1>14
<1>9. weights[1] = short * days /\ DOMAIN weights = 1 .. 1
  BY <1>3, <1>4, <1>5
<1>10. Total(weights) = short * days
  <2> HIDE DEF weights
  <2> QED
    BY <1>8, <1>9, SumAlongOne
<1>11. CASE fee = 0
  <2>1. free[1] = short * days /\ DOMAIN free = 1 .. 1
    BY <1>3, <1>4, <1>5, <1>11
  <2>2. Total(free) = short * days
    <3> HIDE DEF free
    <3> QED
      BY <1>8, <2>1, SumAlongOne
  <2>3. Total(free) > 0 /\ Total(free) = Total(weights)
    <3> HIDE DEF free, weights
    <3> QED
      BY <1>8, <1>10, <2>2
  <2> QED
    BY <1>7, <2>3, Zenon
<1>12. CASE fee # 0
  <2>1. cost.borrow # None
    BY <1>12 DEF Fee, fee
  <2>2. amounts[1] \in Int \ {0} /\ DOMAIN amounts = 1 .. 1
    BY <1>3, <1>5, <1>12, <1>14, <2>1
  <2>3. Total(amounts) # 0
    <3> HIDE DEF amounts
    <3> QED
      BY <2>2, SumAlongOne
  <2> QED
    BY <1>6, <2>3
<1> QED
  BY <1>11, <1>12

\* Every stack of the run is tagged as it charges.
StackFields == {"linear", "borrow", "tagged", "threshold"}
LEMMA StacksTagged ==
  ASSUME NEW cost \in Stacks
  PROVE  cost.borrow \in Borrows /\ WellTagged(cost) /\ StackFields \subseteq DOMAIN cost
<1>1. ASSUME NEW fee \in Fees, cost = StackWith(fee)
      PROVE  cost.borrow \in Borrows /\ WellTagged(cost) /\ StackFields \subseteq DOMAIN cost
  <2>1. cost.borrow = fee /\ cost.tagged = (~ Charging(fee)) /\ StackFields \subseteq DOMAIN cost
    BY <1>1 DEF StackWith, StackFields
  <2>2. fee \in Borrows
    BY DEF Fees, Borrows
  <2> QED
    BY <2>1, <2>2, Zenon DEF WellTagged
<1>2. ASSUME NEW c \in Sections, ~ VersionRefused(c), cost = VersionStack(c)
      PROVE  cost.borrow \in Borrows /\ WellTagged(cost) /\ StackFields \subseteq DOMAIN cost
  <2>1. c.fee \in {None, 0} /\ c.feeOverrides \in {<<>>, [eu |-> 40]}
    BY DEF Sections
  <2> DEFINE free == c.fee = None \/ (c.fee = 0 /\ \A r \in DOMAIN c.feeOverrides : c.feeOverrides[r] = 0)
  <2>2. /\ cost.borrow = (IF free THEN None
                          ELSE [fee |-> c.fee, denominator |-> 365, overrides |-> c.feeOverrides])
        /\ cost.tagged = free /\ StackFields \subseteq DOMAIN cost
    <3>1. cost.tagged = free
      BY <1>2 DEF VersionStack
    <3>2. cost.borrow = (IF free THEN None
                         ELSE [fee |-> c.fee, denominator |-> 365, overrides |-> c.feeOverrides])
      BY <1>2 DEF VersionStack
    <3>3. StackFields \subseteq DOMAIN cost
      BY <1>2 DEF VersionStack, StackFields
    <3> QED
      BY <3>1, <3>2, <3>3
  <2>3. CASE free
    <3>1. cost.borrow = None
      BY <2>2, <2>3
    <3> QED
      BY <2>2, <2>3, <3>1 DEF WellTagged, Charging, Borrows
  <2>4. CASE ~ free
    <3>1. cost.borrow = [fee |-> 0, denominator |-> 365, overrides |-> c.feeOverrides]
      BY <2>1, <2>2, <2>4
    <3>2. c.feeOverrides \in {<<>>, [eu |-> 40]} /\ \E r \in DOMAIN c.feeOverrides : c.feeOverrides[r] # 0
      BY <2>1, <2>4
    <3>3. c.feeOverrides = [eu |-> 40]
      BY <3>2
    <3>4. cost.borrow # None
      <4>1. cost.borrow \in [fee : Nat, denominator : Nat, overrides : {<<>>, [eu |-> 40]}]
        BY <3>1, <3>3
      <4> QED
        BY <4>1, PortfolioAssumption
    <3>5. Charging(cost.borrow)
      <4>1. "eu" \in DOMAIN cost.borrow.overrides /\ cost.borrow.overrides["eu"] = 40
        BY <3>1, <3>3
      <4>2. cost.borrow.overrides["eu"] > 0
        BY <4>1
      <4> QED
        BY <3>4, <4>1, <4>2, Zenon DEF Charging
    <3>6. ~ cost.tagged
      BY <2>2, <2>4
    <3> QED
      BY <2>2, <3>1, <3>3, <3>5, <3>6 DEF WellTagged, Borrows
  <2> QED
    BY <2>3, <2>4
<1>3. \/ \E fee \in Fees : cost = StackWith(fee)
      \/ \E c \in Sections : ~ VersionRefused(c) /\ cost = VersionStack(c)
  BY DEF Stacks
<1> QED
  BY <1>1, <1>2, <1>3

\* What scenarios.grid_variants makes of a stack whose zero-borrow tag tells the
\* truth: every variant's tag does so too, whatever the rates and the fees.
THEOREM GridKeepsTag ==
  ASSUME NEW cost, StackFields \subseteq DOMAIN cost, WellTagged(cost),
         NEW rates, NEW fees, NEW v \in GridVariants(cost, rates, fees)
  PROVE  WellTagged(v)
<1>1. PICK rate \in rates, fee \in fees : v = Swept(cost, rate, fee)
  BY DEF GridVariants
<1> DEFINE borrow == IF fee = None THEN cost.borrow ELSE [cost.borrow EXCEPT !.fee = fee]
<1>2. v.borrow = borrow /\ v.tagged = (IF fee = None THEN cost.tagged ELSE ~ Charging(borrow))
  BY <1>1 DEF Swept, StackFields
<1>3. CASE fee = None
  BY <1>2, <1>3, Zenon DEF WellTagged
<1>4. CASE fee # None
  BY <1>2, <1>4, Zenon DEF WellTagged
<1> QED
  BY <1>3, <1>4

\* The inductive invariant: the stack is one of the run's, the book to be charged
\* is whole, and every month that was charged says when its shorts were free.
FreeSaid(r) == r.call.short > 0 /\ ChargesOf(r.result).borrow = 0 => r.result.banner
BorrowInv ==
  /\ stack \in Stacks
  /\ book # None /\ book.error = "none" => WholeBook(book.weights)
  /\ \E S : records \in Seq(S)
  /\ \A i \in DOMAIN records : FreeSaid(records[i])

LEMMA ChargeSaysFree ==
  ASSUME BorrowInv, ChargeBook
  PROVE  FreeSaid([call |-> Call, result |-> PeriodCharges(stack, Call, Denominator, Attributes)])
<1> DEFINE short == Call.short
           marks == Marks(short, <<73, 365>>, Denominator, Call.date)
           trades == Trades(Call.trades, Call.date, Attributes)
<1>1. Call.dcf = <<73, 365>> /\ Denominator = DenominatorOf(stack.borrow)
  BY DEF Call, Denominator, DenominatorOf
<1>2. PeriodCharges(stack, Call, Denominator, Attributes) = Run(stack, trades, marks, Call.nav)
  BY <1>1, Zenon DEF PeriodCharges
<1>3. short \in Int
  <2> DEFINE sold == {s \in DOMAIN book.weights : book.weights[s] < 0}
  <2>1. WholeBook(book.weights)
    BY DEF BorrowInv, ChargeBook
  <2>2. sold \in SUBSET DOMAIN book.weights /\ short = -SumOver(book.weights, sold)
    BY DEF Call
  <2> HIDE DEF short, sold
  <2>3. IsFiniteSet(sold) /\ \A s \in sold : book.weights[s] \in Int
    BY <2>1, <2>2, FS_Subset DEF WholeBook
  <2>4. SumOver(book.weights, sold) \in Int
    BY <2>3, SumOverWhole
  <2> QED
    BY <2>2, <2>4
<1>4. ASSUME short > 0, ChargesOf(Run(stack, trades, marks, Call.nav)).borrow = 0
      PROVE  Run(stack, trades, marks, Call.nav).banner
  <2>1. stack.borrow \in Borrows
    BY StacksTagged DEF BorrowInv
  <2> HIDE DEF short, trades
  <2>2. marks = Marks(short, <<73, 365>>, DenominatorOf(stack.borrow), Call.date)
    BY <1>1
  <2> HIDE DEF marks
  <2> QED
    <3>1. short \in Int /\ short > 0
      BY <1>3, <1>4
    <3>2. ChargesOf(Run(stack, trades, marks, Call.nav)).borrow = 0
      BY <1>4
    <3> DEFINE date == Call.date
               nav == Call.nav
    <3>3. marks = Marks(short, <<73, 365>>, DenominatorOf(stack.borrow), date)
      BY <2>2
    <3> HIDE DEF date, nav
    <3>4. ChargesOf(Run(stack, trades, marks, nav)).borrow = 0
      BY <3>2 DEF nav
    <3>5. Run(stack, trades, marks, nav).banner
      BY <2>1, <3>1, <3>3, <3>4, ChargedOrSaid
    <3> QED
      BY <3>5 DEF nav
<1> HIDE DEF short, marks, trades
<1> QED
  BY <1>2, <1>4, Zenon DEF FreeSaid, short

LEMMA BorrowInit == PartInit => BorrowInv
<1> SUFFICES ASSUME PartInit PROVE BorrowInv
  OBVIOUS
<1>1. stack \in Stacks /\ book = None /\ records = <<>>
  BY DEF PartInit, BooksInit
<1>2. records \in Seq({}) /\ DOMAIN records = {}
  BY <1>1
<1> QED
  BY <1>1, <1>2 DEF BorrowInv

LEMMA BorrowStep == BorrowInv /\ [PartNext]_<<part, vars, books>> => BorrowInv'
<1> SUFFICES ASSUME BorrowInv, [PartNext]_<<part, vars, books>> PROVE BorrowInv'
  OBVIOUS
<1>1. CASE UNCHANGED <<stack, book, records>>
  BY <1>1 DEF BorrowInv
<1>2. CASE Construct
  <2>1. PICK a \in Asked(Len(records)) : book' = Answer(a)
    BY <1>2 DEF Construct
  <2>2. UNCHANGED <<stack, records>>
    BY <1>2 DEF Construct
  <2>3. book'.error = "none" => WholeBook(book'.weights)
    BY <2>1, AnswerWhole
  <2> QED
    BY <2>2, <2>3 DEF BorrowInv
<1>3. CASE ChargeBook
  <2> DEFINE r == [call |-> Call, result |-> PeriodCharges(stack, Call, Denominator, Attributes)]
  <2>1. FreeSaid(r)
    BY <1>3, ChargeSaysFree
  <2>2. records' = Append(records, r) /\ book' = None /\ UNCHANGED stack
    BY <1>3 DEF ChargeBook
  <2> HIDE DEF r
  <2>3. PICK S : records \in Seq(S)
    BY DEF BorrowInv
  <2>4. records' \in Seq(S \cup {r})
    <3>1. records \in Seq(S \cup {r})
      BY <2>3
    <3> QED
      BY <2>2, <3>1
  <2>5. \A i \in DOMAIN records' : FreeSaid(records'[i])
    <3> SUFFICES ASSUME NEW i \in DOMAIN records' PROVE FreeSaid(records'[i])
      OBVIOUS
    <3>1. (i \in DOMAIN records /\ records'[i] = records[i]) \/ records'[i] = r
      BY <2>2, <2>3
    <3> QED
      BY <2>1, <3>1 DEF BorrowInv
  <2> QED
    BY <2>2, <2>4, <2>5 DEF BorrowInv
<1>4. UNCHANGED <<stack, book, records>> \/ Construct \/ ChargeBook
  BY DEF PartNext, BooksNext, AskOptimizer, books
<1> QED
  BY <1>1, <1>2, <1>3, <1>4

\* No month that the adapter charges is lent its shorts for nothing without being
\* in zero_borrow_banners, and every stack's tag says whether it can be.
THEOREM FreeBorrowingSaid == PartSpec => []FreeShortsSaid
<1>1. ASSUME BorrowInv PROVE FreeShortsSaid
  <2>1. \A i \in DOMAIN records :
          records[i].call.short > 0 /\ ChargesOf(records[i].result).borrow = 0 => i \in ZeroBorrowBanners(records)
    BY <1>1 DEF BorrowInv, FreeSaid, ZeroBorrowBanners
  <2>2. WellTagged(stack) /\ StackFields \subseteq DOMAIN stack
    BY <1>1, StacksTagged DEF BorrowInv
  <2>3. \A fees \in {{None}, {0, 30}} : \A v \in GridVariants(stack, {0, 25}, fees) : WellTagged(v)
    BY <2>2, GridKeepsTag
  <2> QED
    BY <2>1, <2>2, <2>3, Zenon DEF FreeShortsSaid
<1> QED
  BY <1>1, BorrowInit, BorrowStep, PTL DEF PartSpec

-----------------------------------------------------------------------------
(* Slicing of orders.                                                         *)

\* p holds the powers of x up to the n-th.
PowersUpTo(p, x, n) == p = [i \in 0 .. n |-> IF i = 0 THEN 1 ELSE x * p[i - 1]]

LEMMA PowersExist ==
  ASSUME NEW x, NEW n \in Nat
  PROVE  \E p : PowersUpTo(p, x, n)
<1> DEFINE T == {m \in Nat : ~ \E p : PowersUpTo(p, x, m)}
<1> SUFFICES ASSUME T # {} PROVE FALSE
  OBVIOUS
<1>1. PICK m \in T : \A k \in T : m <= k
  <2> T \in SUBSET Nat
    OBVIOUS
  <2> QED
    BY LeastNat
<1>2. CASE m = 0
  <2> DEFINE p == [i \in 0 .. 0 |-> 1]
  <2>1. PowersUpTo(p, x, 0)
    BY DEF PowersUpTo
  <2> QED
    BY <1>2, <2>1
<1>3. CASE m # 0
  <2>1. m - 1 \in Nat /\ ~ (m <= m - 1)
    BY <1>3
  <2>2. PICK p : PowersUpTo(p, x, m - 1)
    BY <1>1, <2>1
  <2> DEFINE q == [i \in 0 .. m |-> IF i = m THEN x * p[m - 1] ELSE p[i]]
  <2>3. ASSUME NEW i \in 0 .. m
        PROVE  q[i] = IF i = 0 THEN 1 ELSE x * q[i - 1]
    <3>1. CASE i = m
      BY <1>3, <2>1, <3>1
    <3>2. CASE i # m
      <4>1. i \in 0 .. m - 1 /\ (i # 0 => i - 1 \in 0 .. m - 1 /\ i - 1 \in 0 .. m /\ i - 1 # m)
        BY <2>1, <3>2
      <4>2. p[i] = IF i = 0 THEN 1 ELSE x * p[i - 1]
        BY <2>2, <4>1 DEF PowersUpTo
      <4> QED
        BY <3>2, <4>1, <4>2
    <3> QED
      BY <3>1, <3>2
  <2>4. q = [i \in 0 .. m |-> IF i = 0 THEN 1 ELSE x * q[i - 1]]
    BY <2>3
  <2>5. PowersUpTo(q, x, m)
    BY <2>4 DEF PowersUpTo
  <2> QED
    BY <1>1, <2>5
<1> QED
  BY <1>2, <1>3

LEMMA PowerNat ==
  ASSUME NEW x \in Nat, NEW n \in Nat
  PROVE  Power(x, n) \in Nat /\ (x # 0 => Power(x, n) # 0)
<1> DEFINE p == CHOOSE q : PowersUpTo(q, x, n)
           T == {m \in 0 .. n : p[m] \notin Nat \/ (x # 0 /\ p[m] = 0)}
<1>1. Power(x, n) = p[n]
  BY DEF Power, PowersUpTo
<1>2. PowersUpTo(p, x, n)
  BY PowersExist
<1> HIDE DEF p
<1>3. ASSUME NEW i \in 0 .. n PROVE p[i] = IF i = 0 THEN 1 ELSE x * p[i - 1]
  BY <1>2 DEF PowersUpTo
<1>4. T = {}
  <2> SUFFICES ASSUME T # {} PROVE FALSE
    OBVIOUS
  <2>1. PICK m \in T : \A k \in T : m <= k
    <3> T \in SUBSET Nat
      OBVIOUS
    <3> QED
      BY LeastNat
  <2>2. m # 0 /\ m - 1 \in 0 .. n /\ ~ (m <= m - 1)
    BY <1>3
  <2>3. p[m - 1] \in Nat /\ (x # 0 => p[m - 1] # 0)
    BY <2>1, <2>2
  <2>4. p[m] = x * p[m - 1]
    BY <1>3, <2>2
  <2>5. p[m] \in Nat /\ (x # 0 => p[m] # 0)
    <3> DEFINE y == p[m - 1]
    <3> HIDE DEF y
    <3>1. \A a, b \in Nat : a * b \in Nat /\ (a # 0 /\ b # 0 => a * b # 0)
      OBVIOUS
    <3> QED
      BY <2>3, <2>4, <3>1 DEF y
  <2> QED
    BY <2>5
<1> QED
  BY <1>1, <1>4

\* A quotient of a sum is that of its parts, or one more.
LEMMA DivSplits ==
  ASSUME NEW p \in Nat, NEW q \in Nat, NEW n \in Nat \ {0}
  PROVE  (p + q) \div n - p \div n - q \div n \in 0 .. 1
<1> DEFINE a == p \div n
           b == q \div n
           c == (p + q) \div n
<1>1. a \in Int /\ n * a <= p /\ p < n * a + n
  BY DivBounds
<1>2. b \in Int /\ n * b <= q /\ q < n * b + n
  BY DivBounds
<1>3. c \in Int /\ n * c <= p + q /\ p + q < n * c + n
  BY DivBounds
<1> HIDE DEF a, b, c
<1>4. n * (a + b) = n * a + n * b /\ n * (a + b + 1) = n * a + n * b + n
  BY <1>1, <1>2
<1>5. n * a \in Int /\ n * b \in Int /\ n * c \in Int
  BY <1>1, <1>2, <1>3
<1>6. ~ (c < a + b)
  <2> SUFFICES ASSUME c < a + b PROVE FALSE
    OBVIOUS
  <2>1. n * c + n <= n * (a + b)
    BY <1>1, <1>2, <1>3, Apart
  <2> QED
    BY <1>1, <1>2, <1>3, <1>4, <1>5, <2>1
<1>7. ~ (a + b + 1 < c)
  <2> SUFFICES ASSUME a + b + 1 < c PROVE FALSE
    OBVIOUS
  <2>1. n * (a + b + 1) + n <= n * c
    BY <1>1, <1>2, <1>3, Apart
  <2> QED
    BY <1>1, <1>2, <1>3, <1>4, <1>5, <2>1
<1> QED
  BY <1>1, <1>2, <1>3, <1>6, <1>7 DEF a, b, c

\* The sum over pairs i, n + i.
Shifted(n, G) == {n + i : i \in G}

LEMMA SumOverTwo ==
  ASSUME NEW x, NEW y, x # y, NEW f, f[x] \in Int, f[y] \in Int
  PROVE  SumOver(f, {x, y}) = f[x] + f[y]
<1>1. IsFiniteSet({x}) /\ IsFiniteSet({y}) /\ IsFiniteSet({x, y}) /\ Cardinality({x}) = 1 /\ Cardinality({y}) = 1
  <2>1. IsFiniteSet({x}) /\ IsFiniteSet({y}) /\ Cardinality({x}) = 1 /\ Cardinality({y}) = 1
    BY FS_Singleton
  <2>2. {x, y} = {x} \cup {y}
    OBVIOUS
  <2> QED
    BY <2>1, <2>2, FS_Union
<1>2. {x} \in SUBSET {x, y} /\ {x, y} \ {x} = {y}
  OBVIOUS
<1>3. \A s \in {x, y} : f[s] \in Int
  OBVIOUS
<1>4. SumOver(f, {x, y}) = SumOver(f, {x}) + SumOver(f, {x, y} \ {x})
  <2> DEFINE D == {x, y}
             P == {x}
  <2>1. IsFiniteSet(D) /\ P \in SUBSET D /\ \A s \in D : f[s] \in Int
    BY <1>1, <1>2, <1>3
  <2> HIDE DEF D, P
  <2>2. SumOver(f, D) = SumOver(f, P) + SumOver(f, D \ P)
    BY <2>1, SumOverSplit
  <2> QED
    BY <2>2 DEF D, P
<1>5. SumOver(f, {x}) = f[x]
  <2>1. SumOver(f, {x}) = f[x] * Cardinality({x})
    BY <1>1, SumOverConstant
  <2> QED
    BY <1>1, <2>1
<1>6. SumOver(f, {y}) = f[y]
  <2>1. SumOver(f, {y}) = f[y] * Cardinality({y})
    BY <1>1, SumOverConstant
  <2> QED
    BY <1>1, <2>1
<1> QED
  BY <1>2, <1>4, <1>5, <1>6, Zenon

\* Every member of S has a key, and h has the sum of those that share one.
Sharing(S, key, g) == {s \in S : key[s] = g}
SharedOut(S, f, key, keys, h) ==
    /\ IsFiniteSet(S) /\ IsFiniteSet(keys)
    /\ \A s \in S : f[s] \in Int
    /\ \A s \in S : key[s] \in keys
    /\ \A g \in keys : h[g] = SumOver(f, Sharing(S, key, g))

LEMMA SumOverShares ==
  ASSUME NEW S, IsFiniteSet(S), NEW f, \A s \in S : f[s] \in Int, NEW key,
         NEW keys, IsFiniteSet(keys), \A s \in S : key[s] \in keys,
         NEW G, \A g \in keys : G[g] = SumOver(f, Sharing(S, key, g))
  PROVE  SumOver(f, S) = SumOver(G, keys)
  BY SumOverGroups DEF Sharing

LEMMA SharedSum ==
  ASSUME NEW S, NEW f, NEW key, NEW keys, NEW h, SharedOut(S, f, key, keys, h)
  PROVE  SumOver(f, S) = SumOver(h, keys)
  BY SumOverShares DEF SharedOut

LEMMA PairedSum ==
  ASSUME NEW n \in Nat, NEW G \in SUBSET (1 .. n), NEW f, \A i \in G : f[i] \in Int /\ f[n + i] \in Int,
         NEW h, \A i \in G : h[i] = f[i] + f[n + i]
  PROVE  SumOver(f, G \cup Shifted(n, G)) = SumOver(h, G)
<1> DEFINE S == G \cup Shifted(n, G)
           key == [j \in S |-> IF j <= n THEN j ELSE j - n]
<1>1. IsFiniteSet(G) /\ IsFiniteSet(S)
  <2>1. IsFiniteSet(1 .. n)
    BY UpToFinite
  <2>2. IsFiniteSet(G)
    BY <2>1, FS_Subset
  <2>3. [i \in G |-> n + i] \in Surjection(G, Shifted(n, G))
    BY DEF Surjection, Shifted
  <2>4. IsFiniteSet(Shifted(n, G))
    BY <2>2, <2>3, FS_Surjection
  <2> QED
    BY <2>2, <2>4, FS_Union
<1>2. (\A j \in S : f[j] \in Int) /\ \A j \in S : key[j] \in G
  BY DEF Shifted
<1>3. ASSUME NEW g \in G PROVE h[g] = SumOver(f, Sharing(S, key, g))
  <2> DEFINE m == n + g
  <2>1. g \in S /\ m \in S /\ g # m /\ f[g] \in Int /\ f[m] \in Int
    BY DEF Shifted
  <2>3. ASSUME NEW s \in S PROVE key[s] = g <=> s = g \/ s = m
    BY DEF Shifted
  <2>4. Sharing(S, key, g) = {g, m}
    <3> HIDE DEF S, key, m
    <3> QED
      BY <2>1, <2>3 DEF Sharing
  <2> HIDE DEF m
  <2>2. SumOver(f, {g, m}) = f[g] + f[m]
    BY <2>1, SumOverTwo
  <2> USE DEF m
  <2> QED
    BY <2>2, <2>4
<1> HIDE DEF S, key
<1>5. (\A s \in S : f[s] \in Int) /\ \A s \in S : key[s] \in G
  BY <1>2
<1>6. \A g \in G : h[g] = SumOver(f, Sharing(S, key, g))
  BY <1>3
<1>4. SumOver(f, S) = SumOver(h, G)
  <2>1. SharedOut(S, f, key, G, h)
    BY <1>1, <1>5, <1>6, Zenon DEF SharedOut
  <2> QED
    BY <2>1, SharedSum
<1> QED
  BY <1>4 DEF S

\* A stack and a trade with figures of the kinds their fields have.
TypedStack(cost) ==
  /\ cost.spread \in {None} \cup Nat
  /\ cost.linear # None => /\ cost.linear.rate \in Nat
                           /\ \A r \in DOMAIN cost.linear.overrides : cost.linear.overrides[r] \in Nat
  /\ cost.impact # None => cost.impact.rate \in Nat /\ cost.impact.exponent \in Nat
  /\ cost.participation # None => cost.participation.cap \in Nat /\ cost.participation.penalty \in {None} \cup Nat
  /\ \A r \in DOMAIN cost.multipliers : cost.multipliers[r] \in Nat
  /\ cost.scaling # None => cost.scaling.reference \in Nat \ {0} /\ cost.scaling.exponent \in Nat
TradeFields == {"sec", "date", "signed", "region", "adv", "spread"}
TypedTrade(t) ==
  /\ TradeFields \subseteq DOMAIN t /\ t.signed \in Int
  /\ t.adv \in {None} \cup Nat /\ t.spread \in {None} \cup Nat

\* u is a slice of t, as far as a component looks at it.
SliceOf(u, t) ==
  /\ u.region = t.region /\ u.adv = t.adv /\ u.spread = t.spread
  /\ u.signed \in Int /\ (t.signed = 0 => u.signed = 0)

\* The charge of a component before the modifiers, and their factor.
ChargeOf(cost, t, g, b) ==
  CASE b = "spread" -> HalfSpread(cost, t)
    [] b = "linear" -> Linear(cost, t)
    [] b = "impact" -> Impact(cost, t, g)
    [] b = "penalty" -> Penalty(cost, t, g)
ScaleOf(cost, t, aum, b) ==
  RateFor(1, cost.multipliers, t.region)
    * (IF cost.scaling # None /\ b \in cost.scaling.buckets
       THEN Power(aum \div cost.scaling.reference, cost.scaling.exponent) ELSE 1)
Sliceable == TradeBuckets \ {"commission"}

LEMMA NoFigure == None \notin Int
  BY PortfolioAssumption

\* Each component charges a fixed share of the notional, rounded down.
ShareOf(cost, t, g, b, k, d) ==
  \A u : SliceOf(u, t) => ChargeOf(cost, u, g, b) = (k * Notional(u)) \div d

LEMMA SpreadShare ==
  ASSUME NEW cost, TypedStack(cost), NEW t, TypedTrade(t), TradeErrors(cost, t) = {}, NEW g
  PROVE  \E k \in Nat, d \in Nat \ {0} : ShareOf(cost, t, g, "spread", k, d)
<1>1. \A u : SliceOf(u, t) => Notional(u) \in Nat /\ ChargeOf(cost, u, g, "spread") = HalfSpread(cost, u)
  BY AbsInt DEF SliceOf, Notional, ChargeOf
<1>2. CASE cost.spread = None \/ t.signed = 0
  <2>1. \A u : SliceOf(u, t) => HalfSpread(cost, u) = 0
    BY <1>2 DEF SliceOf, HalfSpread, Notional, Abs
  <2>2. ShareOf(cost, t, g, "spread", 0, 1)
    BY <1>1, <2>1 DEF ShareOf
  <2> QED
    BY <2>2
<1>3. CASE cost.spread # None /\ t.signed # 0
  <2>1. Notional(t) > 0
    BY <1>3 DEF TypedTrade, Notional, Abs
  <2>2. t.spread # None
    BY <1>3, <2>1 DEF TradeErrors
  <2>3. cost.spread \in Nat /\ t.spread \in Nat
    BY <1>3, <2>2 DEF TypedStack, TypedTrade
  <2> DEFINE k == cost.spread * t.spread
  <2>4. k \in Nat
    BY <2>3
  <2>5. ASSUME NEW u, SliceOf(u, t) PROVE HalfSpread(cost, u) = (k * Notional(u)) \div 100
    <3>1. HalfSpread(cost, u) = IF Notional(u) = 0 THEN 0 ELSE (k * Notional(u)) \div 100
      BY <1>3, <2>5 DEF HalfSpread, SliceOf
    <3> HIDE DEF k
    <3>2. Notional(u) = 0 => (k * Notional(u)) \div 100 = 0
      BY <2>4
    <3> QED
      BY <3>1, <3>2
  <2>6. ShareOf(cost, t, g, "spread", k, 100)
    BY <1>1, <2>5 DEF ShareOf
  <2> HIDE DEF k
  <2> QED
    BY <2>4, <2>6
<1> QED
  BY <1>2, <1>3

LEMMA LinearShare ==
  ASSUME NEW cost, TypedStack(cost), NEW t, TypedTrade(t), NEW g
  PROVE  \E k \in Nat, d \in Nat \ {0} : ShareOf(cost, t, g, "linear", k, d)
<1> DEFINE k == IF cost.linear = None THEN 0 ELSE RateFor(cost.linear.rate, cost.linear.overrides, t.region)
<1>1. k \in Nat
  BY DEF TypedStack, RateFor
<1>2. ASSUME NEW u, SliceOf(u, t) PROVE ChargeOf(cost, u, g, "linear") = (k * Notional(u)) \div 1
  <2>1. Notional(u) \in Nat
    BY <1>2, AbsInt DEF SliceOf, Notional
  <2>2. ChargeOf(cost, u, g, "linear") = Linear(cost, u)
    BY DEF ChargeOf
  <2>3. Linear(cost, u) = k * Notional(u)
    BY <1>2, <2>1 DEF Linear, SliceOf
  <2> HIDE DEF k
  <2>4. k * Notional(u) \in Int
    BY <1>1, <2>1
  <2>5. \A x \in Int : x \div 1 = x
    OBVIOUS
  <2> QED
    BY <2>2, <2>3, <2>4, <2>5
<1>3. ShareOf(cost, t, g, "linear", k, 1)
  BY <1>2 DEF ShareOf
<1> HIDE DEF k
<1> QED
  BY <1>1, <1>3

LEMMA ImpactShare ==
  ASSUME NEW cost, TypedStack(cost), NEW t, TypedTrade(t), TradeErrors(cost, t) = {}, NEW g \in Nat
  PROVE  \E k \in Nat, d \in Nat \ {0} : ShareOf(cost, t, g, "impact", k, d)
<1>1. \A u : SliceOf(u, t) => Notional(u) \in Nat /\ ChargeOf(cost, u, g, "impact") = Impact(cost, u, g)
  BY AbsInt DEF SliceOf, Notional, ChargeOf
<1>2. CASE cost.impact = None \/ t.signed = 0 \/ cost.impact.rate = 0
  <2>1. \A u : SliceOf(u, t) => Impact(cost, u, g) = 0
    BY <1>2 DEF SliceOf, Impact, Notional, Abs
  <2>2. ShareOf(cost, t, g, "impact", 0, 1)
    BY <1>1, <2>1 DEF ShareOf
  <2> QED
    BY <2>2
<1>3. CASE cost.impact # None /\ t.signed # 0 /\ cost.impact.rate # 0
  <2>1. Notional(t) > 0
    BY <1>3 DEF TypedTrade, Notional, Abs
  <2>2. t.adv # None /\ t.adv # 0
    BY <1>3, <2>1 DEF TradeErrors
  <2>3. t.adv \in Nat /\ cost.impact.rate \in Nat /\ cost.impact.exponent \in Nat
    BY <1>3, <2>2 DEF TypedStack, TypedTrade
  <2> DEFINE e == cost.impact.exponent
             k == cost.impact.rate * Power(g, e)
             d == Power(t.adv, e)
  <2>4. Power(g, e) \in Nat /\ d \in Nat \ {0}
    BY <2>2, <2>3, PowerNat
  <2>5. k \in Nat
    BY <2>3, <2>4
  <2>6. ASSUME NEW u, SliceOf(u, t) PROVE Impact(cost, u, g) = (k * Notional(u)) \div d
    <3>1. Impact(cost, u, g) = IF Notional(u) = 0 THEN 0 ELSE (k * Notional(u)) \div d
      BY <1>3, <2>6 DEF Impact, SliceOf
    <3>2. Notional(u) \in Nat
      BY <1>1, <2>6
    <3> HIDE DEF k, d
    <3>3. Notional(u) = 0 => (k * Notional(u)) \div d = 0
      BY <2>4, <2>5
    <3> QED
      BY <3>1, <3>3
  <2>7. ShareOf(cost, t, g, "impact", k, d)
    BY <1>1, <2>6 DEF ShareOf
  <2> HIDE DEF k, d
  <2> QED
    BY <2>4, <2>5, <2>7
<1> QED
  BY <1>2, <1>3

LEMMA PenaltyShare ==
  ASSUME NEW cost, TypedStack(cost), NEW t, TypedTrade(t), TradeErrors(cost, t) = {}, NEW g \in Nat
  PROVE  \E k \in Nat, d \in Nat \ {0} : ShareOf(cost, t, g, "penalty", k, d)
<1> DEFINE over == Excess(cost, t, g)
<1>1. \A u : SliceOf(u, t) => /\ Notional(u) \in Nat /\ ChargeOf(cost, u, g, "penalty") = Penalty(cost, u, g)
                              /\ Excess(cost, u, g) = over
  BY AbsInt DEF SliceOf, Notional, ChargeOf, Excess
<1>2. CASE cost.participation = None \/ t.signed = 0 \/ cost.participation.penalty = None \/ ~ (over > 0)
  <2>1. \A u : SliceOf(u, t) => Penalty(cost, u, g) = 0
    BY <1>1, <1>2 DEF SliceOf, Penalty, Breaches, Notional, Abs
  <2>2. ShareOf(cost, t, g, "penalty", 0, 1)
    BY <1>1, <2>1 DEF ShareOf
  <2> QED
    BY <2>2
<1>3. CASE cost.participation # None /\ t.signed # 0 /\ cost.participation.penalty # None /\ over > 0
  <2>1. Notional(t) > 0
    BY <1>3 DEF TypedTrade, Notional, Abs
  <2>2. t.adv # None
    BY <1>3, <2>1 DEF TradeErrors
  <2>3. t.adv \in Nat /\ cost.participation.cap \in Nat /\ cost.participation.penalty \in Nat
    BY <1>3, <2>2 DEF TypedStack, TypedTrade
  <2> DEFINE k == cost.participation.penalty * over
             d == 100 * g
  <2>4. over \in Nat /\ g > 0
    <3>1. over = 100 * g - cost.participation.cap * t.adv
      BY DEF Excess
    <3>2. cost.participation.cap * t.adv \in Nat
      BY <2>3
    <3> HIDE DEF over
    <3> QED
      BY <1>3, <3>1, <3>2
  <2>5. k \in Nat /\ d \in Nat \ {0}
    <3> HIDE DEF over
    <3> QED
      BY <2>3, <2>4
  <2>6. ASSUME NEW u, SliceOf(u, t) PROVE Penalty(cost, u, g) = (k * Notional(u)) \div d
    <3>1. Excess(cost, u, g) = over /\ Notional(u) \in Nat
      BY <1>1, <2>6
    <3>2. Penalty(cost, u, g) = IF ~ (Notional(u) > 0) THEN 0 ELSE (k * Notional(u)) \div d
      <4> HIDE DEF over
      <4> QED
        BY <1>3, <3>1 DEF Penalty, Breaches
    <3> HIDE DEF k, d
    <3>3. Notional(u) = 0 => (k * Notional(u)) \div d = 0
      BY <2>5
    <3> QED
      BY <3>1, <3>2, <3>3
  <2>7. ShareOf(cost, t, g, "penalty", k, d)
    BY <1>1, <2>6 DEF ShareOf
  <2> HIDE DEF k, d
  <2> QED
    BY <2>5, <2>7
<1> QED
  BY <1>2, <1>3

\* Whatever is charged for a trade of one side, its two slices are charged the
\* same, or one unit less.
LEMMA SlicesCharge ==
  ASSUME NEW cost, TypedStack(cost), NEW t, TypedTrade(t), TradeErrors(cost, t) = {}, NEW g \in Nat,
         NEW b \in Sliceable, NEW u, SliceOf(u, t), NEW v, SliceOf(v, t),
         Notional(t) = Notional(u) + Notional(v)
  PROVE  /\ ChargeOf(cost, t, g, b) \in Nat /\ ChargeOf(cost, u, g, b) \in Nat /\ ChargeOf(cost, v, g, b) \in Nat
         /\ ChargeOf(cost, t, g, b) - ChargeOf(cost, u, g, b) - ChargeOf(cost, v, g, b) \in 0 .. 1
<1>1. b \in {"spread", "linear", "impact", "penalty"}
  BY DEF Sliceable, TradeBuckets
<1>2. PICK k \in Nat, d \in Nat \ {0} : ShareOf(cost, t, g, b, k, d)
  <2>1. CASE b = "spread"
    BY <2>1, SpreadShare
  <2>2. CASE b = "linear"
    BY <2>2, LinearShare
  <2>3. CASE b = "impact"
    BY <2>3, ImpactShare
  <2>4. CASE b = "penalty"
    BY <2>4, PenaltyShare
  <2> QED
    BY <1>1, <2>1, <2>2, <2>3, <2>4
<1>3. SliceOf(t, t)
  BY DEF SliceOf, TypedTrade
<1>4. /\ ChargeOf(cost, t, g, b) = (k * Notional(t)) \div d
      /\ ChargeOf(cost, u, g, b) = (k * Notional(u)) \div d
      /\ ChargeOf(cost, v, g, b) = (k * Notional(v)) \div d
  BY <1>2, <1>3, Zenon DEF ShareOf
<1>5. Notional(u) \in Nat /\ Notional(v) \in Nat
  BY AbsInt DEF SliceOf, Notional
<1> DEFINE p == k * Notional(u)
           q == k * Notional(v)
<1>6. p \in Nat /\ q \in Nat /\ k * Notional(t) = p + q
  BY <1>5
<1> HIDE DEF p, q
<1>7. (p + q) \div d - p \div d - q \div d \in 0 .. 1
  BY <1>6, DivSplits
<1>8. p \div d \in Nat /\ q \div d \in Nat /\ (p + q) \div d \in Nat
  BY <1>6, DivNat
<1>9. /\ ChargeOf(cost, t, g, b) = (p + q) \div d
      /\ ChargeOf(cost, u, g, b) = p \div d /\ ChargeOf(cost, v, g, b) = q \div d
  BY <1>4, <1>6, Zenon DEF p, q
<1> DEFINE x == ChargeOf(cost, t, g, b)
           y == ChargeOf(cost, u, g, b)
           z == ChargeOf(cost, v, g, b)
<1>10. x = (p + q) \div d /\ y = p \div d /\ z = q \div d
  BY <1>9
<1> HIDE DEF x, y, z
<1>11. x \in Nat /\ y \in Nat /\ z \in Nat /\ x - y - z \in 0 .. 1
  BY <1>7, <1>8, <1>10
<1> QED
  BY <1>11 DEF x, y, z

\* The group that a row is priced in.
GroupSize(cost, trades, i) == IF NeedsGroups(cost) THEN GroupNotional(trades, i) ELSE Notional(trades[i])
BucketOf(cost, trades, aum, i, b) == PriceTrades(cost, trades, aum)[i].by[b]
CostOf(cost, trades, aum, b) == SumAlong(LAMBDA c : c.by[b], PriceTrades(cost, trades, aum))

\* What a row comes to.
LEMMA RowPriced ==
  ASSUME NEW cost, TypedStack(cost), NEW aum \in Nat, NEW trades, NEW i \in DOMAIN trades, NEW b \in Sliceable,
         ChargeOf(cost, trades[i], GroupSize(cost, trades, i), b) \in Nat
  PROVE  /\ ScaleOf(cost, trades[i], aum, b) \in Nat
         /\ BucketOf(cost, trades, aum, i, b)
              = ChargeOf(cost, trades[i], GroupSize(cost, trades, i), b) * ScaleOf(cost, trades[i], aum, b)
<1> DEFINE t == trades[i]
           g == GroupSize(cost, trades, i)
           x == ChargeOf(cost, t, g, b)
           m == RateFor(1, cost.multipliers, t.region)
           f == IF cost.scaling # None /\ b \in cost.scaling.buckets
                THEN Power(aum \div cost.scaling.reference, cost.scaling.exponent) ELSE 1
<1>1. m \in Nat
  BY DEF TypedStack, RateFor
<1>2. f \in Nat
  <2>1. CASE cost.scaling # None
    <3>1. cost.scaling.reference \in Nat \ {0} /\ cost.scaling.exponent \in Nat
      BY <2>1 DEF TypedStack
    <3>2. aum \div cost.scaling.reference \in Nat
      BY <3>1, DivNat
    <3>3. Power(aum \div cost.scaling.reference, cost.scaling.exponent) \in Nat
      BY <3>1, <3>2, PowerNat
    <3> QED
      BY <3>3
  <2>2. CASE cost.scaling = None
    BY <2>2
  <2> QED
    BY <2>1, <2>2
<1>3. ScaleOf(cost, t, aum, b) = m * f
  BY DEF ScaleOf
<1>4. PriceTrades(cost, trades, aum)[i] = PriceTrade(cost, t, aum, g)
  BY Zenon DEF PriceTrades, GroupSize
<1>5. b \in {"spread", "linear", "impact", "penalty"} /\ b \in TradeBuckets
  BY DEF Sliceable, TradeBuckets
<1>6. PriceTrade(cost, t, aum, g).by[b] = x * m * f
  <2> DEFINE charge == [commission |-> Commission(cost, t), spread |-> HalfSpread(cost, t),
                        linear |-> Linear(cost, t), impact |-> Impact(cost, t, g), penalty |-> Penalty(cost, t, g)]
  <2>1. charge[b] = x
    <3> HIDE DEF t, g
    <3> QED
      BY <1>5 DEF ChargeOf
  <2>2. PriceTrade(cost, t, aum, g).by[b] = charge[b] * m * f
    <3> HIDE DEF t, g
    <3> QED
      BY <1>5, Zenon DEF PriceTrade
  <2> HIDE DEF charge
  <2> QED
    BY <2>1, <2>2, Zenon
<1>7. x \in Nat
  OBVIOUS
<1> HIDE DEF x, m, f
<1>8. x * m * f = x * (m * f) /\ m * f \in Nat
  BY <1>1, <1>2, <1>7
<1> USE DEF x
<1> QED
  BY <1>3, <1>4, <1>6, <1>8, Zenon DEF BucketOf

\* Where no component looks at groups, the size of the group does not count.
LEMMA GroupIgnored ==
  ASSUME NEW cost, ~ NeedsGroups(cost), NEW t, NEW g, NEW h, NEW b
  PROVE  ChargeOf(cost, t, g, b) = ChargeOf(cost, t, h, b)
<1>1. cost.impact = None /\ cost.participation = None
  BY DEF NeedsGroups
<1>2. Impact(cost, t, g) = Impact(cost, t, h) /\ Penalty(cost, t, g) = Penalty(cost, t, h)
  BY <1>1 DEF Impact, Penalty, Breaches
<1> QED
  BY <1>2, Zenon DEF ChargeOf

\* A and C slice the rows of a list into two.
Sliced(A, C, n, list) ==
  /\ DOMAIN list = 1 .. n /\ DOMAIN A = 1 .. n /\ DOMAIN C = 1 .. n
  /\ \A j \in 1 .. n : /\ TypedTrade(list[j]) /\ SliceOf(A[j], list[j]) /\ SliceOf(C[j], list[j])
                       /\ A[j].sec = list[j].sec /\ A[j].date = list[j].date
                       /\ C[j].sec = list[j].sec /\ C[j].date = list[j].date
                       /\ Notional(list[j]) = Notional(A[j]) + Notional(C[j])

\* The rows of two sequences, one after the other.
LEMMA Joined ==
  ASSUME NEW n \in Nat, NEW A, NEW C, A = [j \in 1 .. n |-> A[j]], C = [j \in 1 .. n |-> C[j]]
  PROVE  /\ DOMAIN (A \o C) = 1 .. n + n
         /\ \A j \in 1 .. n : (A \o C)[j] = A[j] /\ (A \o C)[n + j] = C[j]
<1> DEFINE S == {A[j] : j \in 1 .. n} \cup {C[j] : j \in 1 .. n}
<1>1. A \in [1 .. n -> S] /\ C \in [1 .. n -> S]
  OBVIOUS
<1>2. A \in Seq(S) /\ C \in Seq(S) /\ Len(A) = n /\ Len(C) = n
  BY <1>1
<1> HIDE DEF S
<1>3. /\ Len(A \o C) = n + n /\ A \o C \in Seq(S)
      /\ \A j \in 1 .. n + n : (A \o C)[j] = IF j <= n THEN A[j] ELSE C[j - n]
  BY <1>2
<1>4. DOMAIN (A \o C) = 1 .. n + n
  BY <1>3
<1>5. ASSUME NEW j \in 1 .. n PROVE (A \o C)[j] = A[j] /\ (A \o C)[n + j] = C[j]
  <2>1. j \in 1 .. n + n /\ n + j \in 1 .. n + n /\ j <= n /\ ~ (n + j <= n) /\ (n + j) - n = j
    OBVIOUS
  <2> QED
    BY <1>3, <2>1
<1> QED
  BY <1>4, <1>5

SlicedIn(A, C, n, list, table) ==
  /\ Sliced(A, C, n, list) /\ DOMAIN table = 1 .. n + n
  /\ \A j \in 1 .. n : table[j] = A[j] /\ table[n + j] = C[j]

\* A day's group is of the same size, sliced or not.
LEMMA GroupKept ==
  ASSUME NEW n \in Nat, NEW list, NEW A, NEW C, NEW table, SlicedIn(A, C, n, list, table), NEW i \in 1 .. n
  PROVE  /\ GroupNotional(table, i) = GroupNotional(list, i) /\ GroupNotional(table, n + i) = GroupNotional(list, i)
         /\ GroupNotional(list, i) \in Nat
<1> DEFINE G == Group(list, i)
           f == [j \in DOMAIN table |-> Notional(table[j])]
           h == [j \in DOMAIN list |-> Notional(list[j])]
<1>0. /\ Sliced(A, C, n, list) /\ DOMAIN table = 1 .. n + n
      /\ \A j \in 1 .. n : table[j] = A[j] /\ table[n + j] = C[j]
  BY DEF SlicedIn
<1>1. G \in SUBSET (1 .. n)
  BY <1>0 DEF Group, Sliced
<1>2. ASSUME NEW j \in 1 .. n
      PROVE  /\ f[j] = Notional(A[j]) /\ f[n + j] = Notional(C[j]) /\ h[j] = Notional(list[j])
             /\ h[j] = f[j] + f[n + j] /\ f[j] \in Nat /\ f[n + j] \in Nat /\ h[j] \in Nat
  <2>1. j \in DOMAIN table /\ n + j \in DOMAIN table /\ j \in DOMAIN list
    BY <1>0 DEF Sliced
  <2>2. f[j] = Notional(A[j]) /\ f[n + j] = Notional(C[j]) /\ h[j] = Notional(list[j])
    BY <1>0, <2>1
  <2>3. A[j].signed \in Int /\ C[j].signed \in Int /\ Notional(list[j]) = Notional(A[j]) + Notional(C[j])
    BY <1>0 DEF Sliced, SliceOf
  <2>4. Notional(A[j]) \in Nat /\ Notional(C[j]) \in Nat
    BY <2>3, AbsInt DEF Notional
  <2> QED
    BY <2>2, <2>3, <2>4
<1>3. ASSUME NEW k \in {i, n + i} PROVE Group(table, k) = G \cup Shifted(n, G)
  <2>1. table[k].sec = list[i].sec /\ table[k].date = list[i].date
    BY <1>0 DEF Sliced
  <2>2. ASSUME NEW j \in 1 .. n
        PROVE  /\ table[j].sec = list[j].sec /\ table[j].date = list[j].date
               /\ table[n + j].sec = list[j].sec /\ table[n + j].date = list[j].date
    BY <1>0 DEF Sliced
  <2>3. ASSUME NEW j \in 1 .. n + n PROVE j \in Group(table, k) <=> j \in G \cup Shifted(n, G)
    <3>1. CASE j <= n
      <4>1. j \notin Shifted(n, G)
        BY <1>1, <3>1 DEF Shifted
      <4>2. j \in 1 .. n /\ j \in DOMAIN table /\ j \in DOMAIN list
        BY <1>0, <3>1 DEF Sliced
      <4> QED
        BY <2>1, <2>2, <4>1, <4>2 DEF Group
    <3>2. CASE ~ (j <= n)
      <4> DEFINE m == j - n
      <4>1. m \in 1 .. n /\ j = n + m /\ j \in DOMAIN table /\ m \in DOMAIN list
        BY <1>0, <3>2 DEF Sliced
      <4>2. j \notin G
        BY <1>1, <3>2
      <4>3. j \in Shifted(n, G) <=> m \in G
        <5> HIDE DEF G
        <5> QED
          BY <1>1, <4>1 DEF Shifted
      <4>4. j \in Group(table, k) <=> m \in G
        <5> HIDE DEF m
        <5> QED
          BY <2>1, <2>2, <4>1 DEF Group
      <4> QED
        BY <4>2, <4>3, <4>4
    <3> QED
      BY <3>1, <3>2
  <2>4. Group(table, k) \subseteq 1 .. n + n
    BY <1>0 DEF Group
  <2>5. G \cup Shifted(n, G) \subseteq 1 .. n + n
    <3> HIDE DEF G
    <3>1. G \subseteq 1 .. n + n
      BY <1>1
    <3>2. ASSUME NEW x \in Shifted(n, G) PROVE x \in 1 .. n + n
      <4>1. PICK y \in G : x = n + y
        BY <3>2 DEF Shifted
      <4>2. y \in 1 .. n
        BY <1>1
      <4> QED
        BY <4>1, <4>2
    <3> QED
      BY <3>1, <3>2
  <2> HIDE DEF G
  <2> QED
    BY <2>3, <2>4, <2>5
<1> HIDE DEF G, f, h
<1>4. SumOver(f, G \cup Shifted(n, G)) = SumOver(h, G)
  <2>1. (\A j \in G : f[j] \in Int /\ f[n + j] \in Int) /\ \A j \in G : h[j] = f[j] + f[n + j]
    <3>1. ASSUME NEW j \in G PROVE f[j] \in Int /\ f[n + j] \in Int /\ h[j] = f[j] + f[n + j]
      <4>1. j \in 1 .. n
        BY <1>1
      <4>2. f[j] \in Nat /\ f[n + j] \in Nat /\ h[j] = f[j] + f[n + j]
        BY <1>2, <4>1
      <4> QED
        BY <4>2
    <3> QED
      BY <3>1
  <2> QED
    BY <1>1, <2>1, PairedSum
<1>5. SumOver(h, G) \in Nat
  <2>1. IsFiniteSet(G) /\ \A j \in G : h[j] \in Nat
    BY <1>1, <1>2, UpToFinite, FS_Subset
  <2> QED
    BY <2>1, SumOverNat
<1>6. GroupNotional(list, i) = SumOver(h, G)
  BY DEF GroupNotional, G, h
<1>7. \A k \in {i, n + i} : GroupNotional(table, k) = SumOver(f, Group(table, k))
  BY DEF GroupNotional, f
<1> QED
  BY <1>3, <1>4, <1>5, <1>6, <1>7

\* A sum between another and that less a slack of each term.
Between(N, w, h, m) ==
  \A j \in N : /\ h[j] \in Int /\ w[j] \in Int /\ m[j] \in Int
               /\ w[j] - m[j] <= h[j] /\ h[j] <= w[j]
LEMMA SumsBetween ==
  ASSUME NEW N, IsFiniteSet(N), NEW w, NEW h, NEW m, Between(N, w, h, m)
  PROVE  /\ SumOver(w, N) - SumOver(m, N) <= SumOver(h, N) /\ SumOver(h, N) <= SumOver(w, N)
         /\ SumOver(w, N) \in Int /\ SumOver(m, N) \in Int
<1> DEFINE low == [j \in N |-> w[j] - m[j]]
<1>1. /\ \A s \in N : low[s] \in Int
      /\ \A s \in N : m[s] \in Int
      /\ \A s \in N : w[s] = low[s] + 1 * m[s]
  BY DEF Between
<1>2. \A s \in N : h[s] \in Int /\ w[s] \in Int /\ h[s] <= w[s]
  BY DEF Between
<1>3. \A s \in N : low[s] \in Int /\ h[s] \in Int /\ low[s] <= h[s]
  BY DEF Between
<1> HIDE DEF low
<1>4. /\ SumOver(w, N) = SumOver(low, N) + 1 * SumOver(m, N)
      /\ SumOver(low, N) \in Int /\ SumOver(m, N) \in Int
  BY <1>1, SumOverPlus
<1>5. SumOver(h, N) <= SumOver(w, N)
  BY <1>2, SumOverOrder
<1>6. SumOver(low, N) <= SumOver(h, N)
  BY <1>3, SumOverOrder
<1>7. SumOver(h, N) \in Int
  BY <1>2, SumOverWhole
<1> QED
  BY <1>4, <1>5, <1>6, <1>7

\* The two slices of a row cost together what the row does, or its factor less.
LEMMA SlicedRow ==
  ASSUME NEW cost, TypedStack(cost), NEW aum \in Nat, NEW b \in Sliceable,
         NEW n \in Nat, NEW list, NEW A, NEW C, NEW table, SlicedIn(A, C, n, list, table), NEW i \in 1 .. n,
         TradeErrors(cost, list[i]) = {}
  PROVE  LET whole == BucketOf(cost, list, aum, i, b)
             first == BucketOf(cost, table, aum, i, b)
             second == BucketOf(cost, table, aum, n + i, b)
             unit == ScaleOf(cost, list[i], aum, b)
         IN /\ whole \in Nat /\ first \in Nat /\ second \in Nat /\ unit \in Nat
            /\ whole - unit <= first + second /\ first + second <= whole
<1> DEFINE t == list[i]
           u == A[i]
           v == C[i]
           g == IF NeedsGroups(cost) THEN GroupNotional(list, i) ELSE Notional(t)
           x == ChargeOf(cost, t, g, b)
           y == ChargeOf(cost, u, g, b)
           z == ChargeOf(cost, v, g, b)
           unit == ScaleOf(cost, t, aum, b)
<1>1. /\ TypedTrade(t) /\ SliceOf(u, t) /\ SliceOf(v, t) /\ Notional(t) = Notional(u) + Notional(v)
      /\ i \in DOMAIN list /\ i \in DOMAIN table /\ n + i \in DOMAIN table /\ table[i] = u /\ table[n + i] = v
  <2>1. Sliced(A, C, n, list) /\ DOMAIN table = 1 .. n + n /\ table[i] = A[i] /\ table[n + i] = C[i]
    BY DEF SlicedIn
  <2>2. i \in 1 .. n + n /\ n + i \in 1 .. n + n
    OBVIOUS
  <2> QED
    BY <2>1, <2>2 DEF Sliced
<1>2. g \in Nat
  <2>1. Notional(t) \in Nat
    BY <1>1, AbsInt DEF TypedTrade, Notional
  <2>2. GroupNotional(list, i) \in Nat
    BY GroupKept
  <2> QED
    BY <2>1, <2>2
<1>3. x \in Nat /\ y \in Nat /\ z \in Nat /\ x - y - z \in 0 .. 1
  <2> HIDE DEF t, u, v, g
  <2>1. TradeErrors(cost, t) = {}
    BY DEF t
  <2> QED
    BY <1>1, <1>2, <2>1, SlicesCharge
<1>4. GroupSize(cost, list, i) = g
  BY DEF GroupSize
<1>5. ChargeOf(cost, u, GroupSize(cost, table, i), b) = y /\ ChargeOf(cost, v, GroupSize(cost, table, n + i), b) = z
  <2>1. CASE NeedsGroups(cost)
    <3>1. GroupNotional(table, i) = GroupNotional(list, i) /\ GroupNotional(table, n + i) = GroupNotional(list, i)
      BY GroupKept
    <3>2. GroupSize(cost, table, i) = g /\ GroupSize(cost, table, n + i) = g
      BY <2>1, <3>1 DEF GroupSize
    <3> QED
      BY <3>2
  <2>2. CASE ~ NeedsGroups(cost)
    BY <2>2, GroupIgnored
  <2> QED
    BY <2>1, <2>2
<1>6. unit \in Nat /\ BucketOf(cost, list, aum, i, b) = x * unit
  <2>1. ChargeOf(cost, list[i], GroupSize(cost, list, i), b) = x
    BY <1>4
  <2>2. ChargeOf(cost, list[i], GroupSize(cost, list, i), b) \in Nat
    BY <1>3, <2>1
  <2>3. /\ ScaleOf(cost, list[i], aum, b) \in Nat
        /\ BucketOf(cost, list, aum, i, b)
             = ChargeOf(cost, list[i], GroupSize(cost, list, i), b) * ScaleOf(cost, list[i], aum, b)
    BY <1>1, <2>2, RowPriced
  <2> QED
    BY <2>1, <2>3, Zenon
<1>7. ScaleOf(cost, u, aum, b) = unit /\ ScaleOf(cost, v, aum, b) = unit
  BY <1>1 DEF ScaleOf, SliceOf
<1>8. BucketOf(cost, table, aum, i, b) = y * unit
  <2>1. ChargeOf(cost, table[i], GroupSize(cost, table, i), b) = y
    BY <1>1, <1>5
  <2>2. ChargeOf(cost, table[i], GroupSize(cost, table, i), b) \in Nat
    BY <1>3, <2>1
  <2>3. BucketOf(cost, table, aum, i, b)
          = ChargeOf(cost, table[i], GroupSize(cost, table, i), b) * ScaleOf(cost, table[i], aum, b)
    BY <1>1, <2>2, RowPriced
  <2> QED
    BY <1>1, <1>7, <2>1, <2>3, Zenon
<1>9. BucketOf(cost, table, aum, n + i, b) = z * unit
  <2> DEFINE k == n + i
  <2>0. k \in DOMAIN table /\ table[k] = v
    BY <1>1
  <2> HIDE DEF k
  <2>1. ChargeOf(cost, table[k], GroupSize(cost, table, k), b) = z
    BY <1>5, <2>0 DEF k
  <2>2. ChargeOf(cost, table[k], GroupSize(cost, table, k), b) \in Nat
    BY <1>3, <2>1
  <2>3. BucketOf(cost, table, aum, k, b)
          = ChargeOf(cost, table[k], GroupSize(cost, table, k), b) * ScaleOf(cost, table[k], aum, b)
    BY <2>0, <2>2, RowPriced
  <2>4. BucketOf(cost, table, aum, k, b) = z * unit
    BY <2>0, <1>7, <2>1, <2>3, Zenon
  <2> QED
    BY <2>4 DEF k
<1> HIDE DEF x, y, z, unit
<1>10. /\ x * unit \in Nat /\ y * unit \in Nat /\ z * unit \in Nat
       /\ x * unit - unit <= y * unit + z * unit /\ y * unit + z * unit <= x * unit
  <2>1. x = y + z \/ x = y + z + 1
    BY <1>3
  <2>2. (y + z) * unit = y * unit + z * unit /\ (y + z + 1) * unit = y * unit + z * unit + unit
    BY <1>3, <1>6
  <2>3. x * unit \in Nat /\ y * unit \in Nat /\ z * unit \in Nat
    BY <1>3, <1>6
  <2>4. x * unit = y * unit + z * unit \/ x * unit = y * unit + z * unit + unit
    BY <2>1, <2>2
  <2> QED
    BY <1>6, <2>3, <2>4
<1>11. unit = ScaleOf(cost, list[i], aum, b)
  BY DEF unit
<1> QED
  BY <1>6, <1>8, <1>9, <1>10, <1>11, Zenon

\* What a bucket comes to, as a sum over rows.
LEMMA CostIs ==
  ASSUME NEW cost, NEW aum, NEW trades, NEW b
  PROVE  CostOf(cost, trades, aum, b) = SumOver([i \in DOMAIN trades |-> BucketOf(cost, trades, aum, i, b)], DOMAIN trades)
<1>1. DOMAIN PriceTrades(cost, trades, aum) = DOMAIN trades
  BY DEF PriceTrades
<1>2. CostOf(cost, trades, aum, b)
        = Total([i \in DOMAIN PriceTrades(cost, trades, aum) |-> PriceTrades(cost, trades, aum)[i].by[b]])
  BY Zenon DEF CostOf, SumAlong
<1>3. CostOf(cost, trades, aum, b) = Total([i \in DOMAIN trades |-> BucketOf(cost, trades, aum, i, b)])
  BY <1>1, <1>2, Zenon DEF BucketOf
<1> DEFINE f == [i \in DOMAIN trades |-> BucketOf(cost, trades, aum, i, b)]
<1>4. DOMAIN f = DOMAIN trades
  OBVIOUS
<1> HIDE DEF f
<1>5. Total(f) = SumOver(f, DOMAIN trades)
  BY <1>4 DEF Total
<1> QED
  BY <1>3, <1>5, Zenon DEF f

\* What trades cost does not depend on how they are sliced: in every bucket but
\* the commission's, charged a row, the rows cut into two of the same side cost
\* together what the whole rows did, less at most the factor of each row's region
\* and of the fund's size, for the rounding (price_trade and _group_notional of
\* the cost stack, with any components).
THEOREM SlicingCosts ==
  ASSUME NEW cost, TypedStack(cost), NEW aum \in Nat, NEW b \in Sliceable,
         NEW n \in Nat, NEW list, NEW A, NEW C, Sliced(A, C, n, list),
         A = [j \in 1 .. n |-> A[j]], C = [j \in 1 .. n |-> C[j]],
         \A j \in 1 .. n : TradeErrors(cost, list[j]) = {}
  PROVE  LET slack == SumOver([j \in 1 .. n |-> ScaleOf(cost, list[j], aum, b)], 1 .. n)
         IN /\ CostOf(cost, list, aum, b) \in Nat /\ CostOf(cost, A \o C, aum, b) \in Nat
            /\ CostOf(cost, list, aum, b) - slack <= CostOf(cost, A \o C, aum, b)
            /\ CostOf(cost, A \o C, aum, b) <= CostOf(cost, list, aum, b)
<1> DEFINE table == A \o C
           N == 1 .. n
           w == [j \in DOMAIN list |-> BucketOf(cost, list, aum, j, b)]
           f == [j \in DOMAIN table |-> BucketOf(cost, table, aum, j, b)]
           m == [j \in N |-> ScaleOf(cost, list[j], aum, b)]
           h == [j \in N |-> f[j] + f[n + j]]
           low == [j \in N |-> w[j] - m[j]]
<1>1. DOMAIN table = 1 .. n + n /\ \A j \in 1 .. n : table[j] = A[j] /\ table[n + j] = C[j]
  BY Joined
<1>2. DOMAIN list = N
  BY DEF Sliced
<1> HIDE DEF table
<1>3. ASSUME NEW j \in N
      PROVE  /\ w[j] \in Nat /\ f[j] \in Nat /\ f[n + j] \in Nat /\ m[j] \in Nat
             /\ w[j] - m[j] <= f[j] + f[n + j] /\ f[j] + f[n + j] <= w[j]
  <2> DEFINE whole == BucketOf(cost, list, aum, j, b)
             first == BucketOf(cost, table, aum, j, b)
             second == BucketOf(cost, table, aum, n + j, b)
             unit == ScaleOf(cost, list[j], aum, b)
  <2>1. /\ whole \in Nat /\ first \in Nat /\ second \in Nat /\ unit \in Nat
        /\ whole - unit <= first + second /\ first + second <= whole
    <3>1. SlicedIn(A, C, n, list, table) /\ j \in 1 .. n /\ TradeErrors(cost, list[j]) = {}
      BY <1>1 DEF SlicedIn
    <3> QED
      BY <3>1, SlicedRow
  <2>2. j \in DOMAIN table /\ n + j \in DOMAIN table /\ j \in DOMAIN list /\ j \in N
    BY <1>1, <1>2
  <2>3. w[j] = whole /\ f[j] = first /\ f[n + j] = second /\ m[j] = unit
    BY <2>2, Zenon
  <2> HIDE DEF whole, first, second, unit, w, f, m
  <2> QED
    BY <2>1, <2>3
<1>4. \A j \in N : h[j] = f[j] + f[n + j] /\ low[j] = w[j] - m[j]
  BY Zenon
<1>5. CostOf(cost, list, aum, b) = SumOver(w, N) /\ CostOf(cost, table, aum, b) = SumOver(f, DOMAIN table)
  BY <1>2, CostIs, Zenon
<1> HIDE DEF w, f, m, h, low
<1>6. N \cup Shifted(n, N) = DOMAIN table
  <2>1. ASSUME NEW x \in 1 .. n + n PROVE x \in N \cup Shifted(n, N)
    <3>1. CASE x <= n
      BY <3>1
    <3>2. CASE ~ (x <= n)
      <4>1. x - n \in N /\ x = n + (x - n)
        BY <3>2
      <4>2. x \in Shifted(n, N)
        BY <4>1 DEF Shifted
      <4> QED
        BY <4>2
    <3> QED
      BY <3>1, <3>2
  <2>2. ASSUME NEW x \in Shifted(n, N) PROVE x \in 1 .. n + n
    BY <2>2 DEF Shifted
  <2> QED
    BY <1>1, <2>1, <2>2
<1>7. IsFiniteSet(N)
  BY UpToFinite
<1>8. SumOver(f, DOMAIN table) = SumOver(h, N)
  <2>1. N \in SUBSET (1 .. n) /\ (\A j \in N : f[j] \in Int /\ f[n + j] \in Int) /\ \A j \in N : h[j] = f[j] + f[n + j]
    BY <1>3, <1>4
  <2> HIDE DEF N
  <2>2. SumOver(f, N \cup Shifted(n, N)) = SumOver(h, N)
    BY <2>1, PairedSum
  <2> QED
    BY <1>6, <2>2
<1> HIDE DEF N
<1>9. /\ SumOver(w, N) - SumOver(m, N) <= SumOver(h, N) /\ SumOver(h, N) <= SumOver(w, N)
      /\ SumOver(w, N) \in Int /\ SumOver(m, N) \in Int
  <2>1. \A j \in N : /\ h[j] \in Int /\ w[j] \in Int /\ m[j] \in Int
                     /\ w[j] - m[j] <= h[j] /\ h[j] <= w[j]
    <3>1. ASSUME NEW j \in N
          PROVE  /\ h[j] \in Int /\ w[j] \in Int /\ m[j] \in Int
                 /\ w[j] - m[j] <= h[j] /\ h[j] <= w[j]
      <4>1. /\ w[j] \in Nat /\ f[j] \in Nat /\ f[n + j] \in Nat /\ m[j] \in Nat
            /\ w[j] - m[j] <= f[j] + f[n + j] /\ f[j] + f[n + j] <= w[j]
        BY <1>3
      <4>2. h[j] = f[j] + f[n + j]
        BY <1>4
      <4> QED
        BY <4>1, <4>2
    <3> QED
      BY <3>1
  <2>2. Between(N, w, h, m)
    BY <2>1 DEF Between
  <2> QED
    BY <1>7, <2>2, SumsBetween
<1>11. SumOver(w, N) \in Nat /\ SumOver(h, N) \in Nat
  <2>1. \A j \in N : w[j] \in Nat /\ h[j] \in Nat
    BY <1>3, <1>4
  <2> QED
    BY <1>7, <2>1, SumOverNat
<1> DEFINE X == CostOf(cost, list, aum, b)
           Y == CostOf(cost, table, aum, b)
           Z == SumOver(m, N)
<1>12. X = SumOver(w, N) /\ Y = SumOver(h, N)
  BY <1>5, <1>8
<1> HIDE DEF X, Y, Z
<1>13. X \in Nat /\ Y \in Nat /\ X - Z <= Y /\ Y <= X
  BY <1>9, <1>11, <1>12 DEF Z
<1> QED
  BY <1>13, Zenon DEF X, Y, Z, table, m, N

\* The members of a finite set of numbers, put in order, are its members.
LEMMA OrderedMembers ==
  ASSUME NEW D, IsFiniteSet(D), D \subseteq Int
  PROVE  /\ Cardinality(D) \in Nat /\ DOMAIN InOrder(D, <) = 1 .. Cardinality(D)
         /\ \A i \in 1 .. Cardinality(D) : InOrder(D, <)[i] \in D
<1> DEFINE n == Cardinality(D)
           place == [x \in D |-> 1 + Cardinality({y \in D : y < x})]
           flat == [s \in D |-> 0]
           rank == [s \in D |-> StableRank(flat, s)]
<1>1. InOrder(D, <) = [i \in 1 .. n |-> CHOOSE x \in D : place[x] = i]
  BY DEF InOrder
<1>2. n \in Nat
  BY FS_CardinalityType
<1>3. rank \in Bijection(D, 0 .. n - 1)
  <2>1. IsCrossSection(flat) /\ DOMAIN flat = D
    BY DEF IsCrossSection
  <2>2. [s \in DOMAIN flat |-> StableRank(flat, s)] \in Bijection(DOMAIN flat, 0 .. Cardinality(DOMAIN flat) - 1)
    BY <2>1, RankBijects
  <2> HIDE DEF flat
  <2> QED
    BY <2>1, <2>2
<1>4. ASSUME NEW x \in D PROVE place[x] = 1 + rank[x]
  <2>1. rank[x] = Cardinality({y \in D : flat[y] < flat[x] \/ (flat[y] = flat[x] /\ y < x)})
    BY DEF StableRank
  <2>2. {y \in D : flat[y] < flat[x] \/ (flat[y] = flat[x] /\ y < x)} = {y \in D : y < x}
    OBVIOUS
  <2> QED
    BY <2>1, <2>2
<1>5. ASSUME NEW i \in 1 .. n PROVE (CHOOSE x \in D : place[x] = i) \in D
  <2> HIDE DEF place, rank, n
  <2>1. i - 1 \in 0 .. n - 1
    BY <1>2
  <2>2. PICK x \in D : rank[x] = i - 1
    BY <1>3, <2>1 DEF Bijection, Surjection
  <2>3. place[x] = i
    BY <1>4, <2>2
  <2> QED
    BY <2>3
<1> HIDE DEF place, n
<1>6. /\ DOMAIN InOrder(D, <) = 1 .. n
      /\ \A i \in 1 .. n : InOrder(D, <)[i] \in D
  BY <1>1, <1>5
<1> QED
  BY <1>2, <1>6 DEF n

\* Positions in the run's names.
NamedBook(w) == DOMAIN w \subseteq Names /\ \A s \in DOMAIN w : w[s] \in Int

\* The rows that the adapter makes of a rebalance.
LEMMA TradeRows ==
  ASSUME NEW list, NamedBook(list), NEW date, NEW table, table = Trades(list, date, Attributes)
  PROVE  \E n \in Nat : /\ DOMAIN table = 1 .. n
                        /\ \A j \in 1 .. n : /\ TypedTrade(table[j])
                                             /\ table[j].adv = 6 /\ table[j].spread = 4
<1> DEFINE D == DOMAIN list
           ids == InOrder(D, <)
           n == Cardinality(D)
<1>1. D \subseteq Int /\ IsFiniteSet(D)
  <2>1. D \in SUBSET Names
    BY DEF NamedBook
  <2>2. IsFiniteSet(Names) /\ Names \subseteq Int
    BY PortfolioAssumption
  <2> HIDE DEF D
  <2> QED
    BY <2>1, <2>2, FS_Subset
<1>2. n \in Nat /\ DOMAIN ids = 1 .. n /\ \A i \in 1 .. n : ids[i] \in D
  <2> HIDE DEF D
  <2> QED
    BY <1>1, OrderedMembers
<1>3. table = [i \in DOMAIN ids |->
               [sec |-> ids[i], date |-> date, signed |-> list[ids[i]],
                region |-> Attributes[ids[i]].region, adv |-> Attributes[ids[i]].adv,
                spread |-> Attributes[ids[i]].spread]]
  BY Zenon DEF Trades
<1> HIDE DEF ids, n
<1>4. ASSUME NEW j \in 1 .. n PROVE TypedTrade(table[j]) /\ table[j].adv = 6 /\ table[j].spread = 4
  <2> DEFINE s == ids[j]
             t == [sec |-> s, date |-> date, signed |-> list[s], region |-> Attributes[s].region,
                   adv |-> Attributes[s].adv, spread |-> Attributes[s].spread]
  <2>1. s \in Names /\ list[s] \in Int
    BY <1>2 DEF NamedBook
  <2>2. table[j] = t
    BY <1>2, <1>3
  <2>3. Attributes[s].adv = 6 /\ Attributes[s].spread = 4
    BY <2>1 DEF Attributes
  <2>4. t.signed = list[s] /\ t.adv = 6 /\ t.spread = 4 /\ TradeFields \subseteq DOMAIN t
    BY <2>3 DEF TradeFields
  <2> HIDE DEF t, s
  <2>5. TypedTrade(t)
    BY <2>1, <2>4 DEF TypedTrade
  <2> QED
    BY <2>2, <2>4, <2>5
<1> QED
  BY <1>2, <1>3, <1>4

\* The figures of the run's stacks.
LEMMA StacksTyped ==
  ASSUME NEW cost \in Stacks
  PROVE  /\ TypedStack(cost)
         /\ \A t, aum, b : ScaleOf(cost, t, aum, b) \in 1 .. 2
<1>1. ASSUME NEW fee \in Fees, cost = StackWith(fee)
      PROVE  TypedStack(cost) /\ cost.scaling = None /\ cost.multipliers = [eu |-> 2]
  <2>1. /\ cost.spread = 50 /\ cost.linear = [rate |-> 10, overrides |-> [eu |-> 20]]
        /\ cost.impact = [rate |-> 36, exponent |-> 1] /\ cost.participation = [cap |-> 50, penalty |-> 7]
        /\ cost.scaling = None /\ cost.multipliers = [eu |-> 2]
    BY <1>1 DEF StackWith
  <2>2. cost.linear.rate \in Nat /\ \A r \in DOMAIN cost.linear.overrides : cost.linear.overrides[r] \in Nat
    BY <2>1
  <2>3. \A r \in DOMAIN cost.multipliers : cost.multipliers[r] \in Nat
    BY <2>1
  <2>4. cost.impact.rate \in Nat /\ cost.impact.exponent \in Nat /\ cost.participation.cap \in Nat
        /\ cost.participation.penalty \in Nat /\ cost.spread \in Nat
    BY <2>1
  <2> QED
    BY <2>1, <2>2, <2>3, <2>4 DEF TypedStack
<1>2. ASSUME NEW c \in Sections, ~ VersionRefused(c), cost = VersionStack(c)
      PROVE  TypedStack(cost) /\ cost.scaling = None /\ cost.multipliers = <<>>
  <2>1. c.base = None /\ c.oneWay = 5 /\ c.tiers = [eu |-> 8, us |-> 4] /\ c.overrides = [eu |-> 6]
    BY DEF Sections
  <2>2. /\ cost.spread = None /\ cost.impact = None /\ cost.participation = None
        /\ cost.scaling = None /\ cost.multipliers = <<>>
    BY <1>2 DEF VersionStack
  <2> DEFINE rates == [r \in DOMAIN c.tiers \cup DOMAIN c.overrides |->
                         IF r \in DOMAIN c.tiers THEN c.tiers[r] ELSE c.overrides[r]]
             base == IF c.base # None THEN c.base ELSE c.oneWay
  <2>3. cost.linear = [rate |-> base, overrides |-> rates]
    BY <1>2 DEF VersionStack
  <2>4. base = 5
    BY <2>1
  <2>5. \A r \in DOMAIN rates : rates[r] \in Nat
    BY <2>1
  <2> HIDE DEF rates, base
  <2>6. cost.linear.rate = base /\ cost.linear.overrides = rates
    BY <2>3
  <2>7. cost.linear.rate \in Nat /\ \A r \in DOMAIN cost.linear.overrides : cost.linear.overrides[r] \in Nat
    BY <2>4, <2>5, <2>6
  <2>8. \A r \in DOMAIN cost.multipliers : cost.multipliers[r] \in Nat
    BY <2>2
  <2> QED
    BY <2>2, <2>7, <2>8 DEF TypedStack
<1>3. \/ \E fee \in Fees : cost = StackWith(fee)
      \/ \E c \in Sections : ~ VersionRefused(c) /\ cost = VersionStack(c)
  BY DEF Stacks
<1>4. TypedStack(cost) /\ cost.scaling = None /\ cost.multipliers \in {[eu |-> 2], <<>>}
  BY <1>1, <1>2, <1>3
<1>5. ASSUME NEW t, NEW aum, NEW b PROVE ScaleOf(cost, t, aum, b) \in 1 .. 2
  <2>1. RateFor(1, cost.multipliers, t.region) \in 1 .. 2
    <3>1. CASE cost.multipliers = [eu |-> 2]
      BY <3>1 DEF RateFor
    <3>2. CASE cost.multipliers = <<>>
      BY <3>2 DEF RateFor
    <3> QED
      BY <1>4, <3>1, <3>2
  <2>2. ScaleOf(cost, t, aum, b) = RateFor(1, cost.multipliers, t.region) * 1
    BY <1>4 DEF ScaleOf
  <2> QED
    BY <2>1, <2>2
<1> QED
  BY <1>4, <1>5

\* A book holds names that are scored.
LEMMA SimpleBookNamed ==
  ASSUME NEW scores, NEW k, NEW half, BuildSimple(scores, k, half).error = "none"
  PROVE  DOMAIN BuildSimple(scores, k, half).weights \subseteq DOMAIN scores
<1> DEFINE top == Top(scores, k)
           bottom == Bottom(scores, k)
           weights == [s \in top \cup bottom |-> IF s \in top THEN half \div Cardinality(top)
                                                 ELSE -(half \div Cardinality(bottom))]
<1>1. FractileErrors(scores, k) = "none"
  BY DEF BuildSimple, Refused
<1>2. BuildSimple(scores, k, half) = Portfolio(weights)
  BY <1>1 DEF BuildSimple
<1>3. top \cup bottom \subseteq DOMAIN scores
  BY DEF Top, Bottom, Leg
<1> HIDE DEF top, bottom
<1>4. DOMAIN weights = top \cup bottom
  OBVIOUS
<1>5. Portfolio(weights).error = "none"
  BY <1>2
<1> HIDE DEF weights
<1>6. Portfolio(weights).weights = weights
  BY <1>5 DEF Portfolio, Refused, Answered
<1> QED
  BY <1>2, <1>3, <1>4, <1>6

LEMMA WeightedBookNamed ==
  ASSUME NEW scores, IsCrossSection(scores), NEW k \in Int, NEW half \in Nat, NEW cap \in Nat,
         NEW mode \in {"none", "joint", "per_leg"}, NEW beta, \A s \in DOMAIN beta : beta[s] \in Int,
         BuildSignalWeighted(scores, k, half, cap, mode, beta).error = "none"
  PROVE  DOMAIN BuildSignalWeighted(scores, k, half, cap, mode, beta).weights \subseteq DOMAIN scores
<1> DEFINE answer == BuildSignalWeighted(scores, k, half, cap, mode, beta)
           w == Residualize(scores, mode, Top(scores, k), Bottom(scores, k), beta)
           legs == Top(scores, k) \cup Bottom(scores, k)
<1>1. Follows(answer.weights, w, half, cap) /\ DOMAIN w = legs
  <2>1. Follows(answer.weights, w, half, cap)
    BY WeightedBookFollows
  <2>2. DOMAIN w = legs
    <3>1. \A v, x, ids : DOMAIN Residuals(v, x, ids).of = ids
      BY DEF Residuals, Centered
    <3>2. \A v, ids : DOMAIN Centered(v, ids).of = ids
      BY DEF Centered
    <3>3. \A l, r : DOMAIN JoinLegs(l, r) = DOMAIN l.of \cup DOMAIN r.of
      BY DEF JoinLegs
    <3>4. CASE mode = "none"
      BY <3>2, <3>4 DEF Residualize
    <3>5. CASE mode = "joint"
      BY <3>1, <3>5 DEF Residualize
    <3>6. CASE mode = "per_leg"
      <4> DEFINE l == Residuals(scores, beta, Top(scores, k))
                 r == Residuals(scores, beta, Bottom(scores, k))
      <4>1. w = JoinLegs(l, r)
        BY <3>6 DEF Residualize
      <4>2. DOMAIN l.of = Top(scores, k) /\ DOMAIN r.of = Bottom(scores, k)
        BY <3>1
      <4> HIDE DEF w, l, r
      <4> QED
        BY <3>3, <4>1, <4>2
    <3> QED
      BY <3>4, <3>5, <3>6
  <2> QED
    BY <2>1, <2>2
<1>2. legs \subseteq DOMAIN scores
  BY DEF Top, Bottom, Leg
<1> HIDE DEF answer, w, legs
<1>3. DOMAIN answer.weights \subseteq DOMAIN w
  BY <1>1, Zenon DEF Follows
<1>4. DOMAIN answer.weights \subseteq DOMAIN scores
  BY <1>1, <1>2, <1>3
<1> QED
  BY <1>4 DEF answer

\* The books of a run are of its names.
LEMMA AnswerNamed ==
  ASSUME NEW month, NEW a \in Asked(month), Answer(a).error = "none"
  PROVE  NamedBook(Answer(a).weights)
<1> DEFINE fractile == [level : {1}, k : Counts("fractile_ls"), cap : {NoCap}, mode : {"none"},
                        beta : {<<>>}, scores : TwoScores]
           weighted == [level : {2}, k : {2}, cap : {NoCap, 9}, mode : {"none"}, beta : {<<>>}, scores : TwoHalves]
           residual == [level : {2}, k : {2}, cap : {9, 13}, mode : {"joint", "per_leg"},
                        beta : Betas, scores : TwoHalves]
           w == Answer(a).weights
<1>1. a \in fractile \cup weighted \cup residual
  BY Zenon DEF Asked
<1>2. WholeBook(w)
  BY AnswerWhole
<1>3. DOMAIN a.scores = Names
  <2>1. \A scores \in TwoHalves : DOMAIN scores = Names
    BY DEF TwoHalves
  <2>2. \A scores \in TwoScores : DOMAIN scores = Names
    BY DEF TwoScores
  <2>3. a.scores \in TwoHalves \cup TwoScores
    BY <1>1
  <2> QED
    BY <2>1, <2>2, <2>3
<1>5. CASE a \in fractile
  <2>1. Answer(a) = BuildSimple(a.scores, a.k, Half)
    BY <1>5 DEF Answer
  <2>2. DOMAIN w \subseteq Names
    BY <1>3, <2>1, SimpleBookNamed
  <2>3. NamedBook(w)
    BY <1>2, <2>2, Zenon DEF WholeBook, NamedBook
  <2> QED
    BY <2>3
<1>6. CASE a \in weighted \cup residual
  <2>1. /\ a.level = 2 /\ a.k = 2 /\ a.cap \in {NoCap, 9, 13} /\ a.mode \in {"none", "joint", "per_leg"}
        /\ a.beta \in {<<>>} \cup Betas /\ a.scores \in TwoHalves
    BY <1>6
  <2>2. /\ IsCrossSection(a.scores) /\ a.cap \in Nat /\ a.k \in Int /\ \A s \in DOMAIN a.beta : a.beta[s] \in Int
        /\ Half \in Nat
    BY <2>1, RunScores, PortfolioAssumption DEF NoCap
  <2>3. Answer(a) = BuildSignalWeighted(a.scores, a.k, Half, a.cap, a.mode, a.beta)
    BY <2>1 DEF Answer
  <2>4. DOMAIN w \subseteq DOMAIN a.scores
    BY <2>1, <2>2, <2>3, WeightedBookNamed
  <2>5. DOMAIN w \subseteq Names
    BY <1>3, <2>4
  <2>6. NamedBook(w)
    BY <1>2, <2>5, Zenon DEF WholeBook, NamedBook
  <2> QED
    BY <2>6
<1> QED
  BY <1>1, <1>5, <1>6

\* One record's day, sliced.
SlicedCost(cost, list, b) ==
  LET sliced == [j \in DOMAIN list |-> Half1(list[j])] \o [j \in DOMAIN list |-> Half2(list[j])]
  IN Abs(CostOf(cost, list, 1, b) - CostOf(cost, sliced, 1, b)) <= 2 * Len(sliced)

LEMMA HalvesSlice ==
  ASSUME NEW t, TypedTrade(t)
  PROVE  /\ SliceOf(Half1(t), t) /\ Half1(t).sec = t.sec /\ Half1(t).date = t.date
         /\ SliceOf(Half2(t), t) /\ Half2(t).sec = t.sec /\ Half2(t).date = t.date
         /\ Notional(t) = Notional(Half1(t)) + Notional(Half2(t))
<1> DEFINE x == t.signed
           h == x \div 2
<1>1. x \in Int /\ h \in Int /\ TradeFields \subseteq DOMAIN t
  BY DEF TypedTrade
<1>2. /\ Half1(t) = [t EXCEPT !.signed = h] /\ Half2(t) = [t EXCEPT !.signed = x - h]
  BY DEF Half1, Half2
<1>3. (x >= 0 => h >= 0 /\ x - h >= 0) /\ (x < 0 => h <= 0 /\ x - h <= 0) /\ (x = 0 => h = 0)
  BY <1>1
<1>4. Abs(x) = Abs(h) + Abs(x - h)
  <2> HIDE DEF x, h
  <2> QED
    BY <1>1, <1>3 DEF Abs
<1> HIDE DEF x, h
<1>5. /\ Half1(t).signed = h /\ Half1(t).sec = t.sec /\ Half1(t).date = t.date
      /\ Half1(t).region = t.region /\ Half1(t).adv = t.adv /\ Half1(t).spread = t.spread
  BY <1>1, <1>2 DEF TradeFields
<1>6. /\ Half2(t).signed = x - h /\ Half2(t).sec = t.sec /\ Half2(t).date = t.date
      /\ Half2(t).region = t.region /\ Half2(t).adv = t.adv /\ Half2(t).spread = t.spread
  BY <1>1, <1>2 DEF TradeFields
<1>7. SliceOf(Half1(t), t)
  <2>1. t.signed = x
    BY DEF x
  <2> QED
    BY <1>1, <1>3, <1>5, <2>1 DEF SliceOf
<1>8. SliceOf(Half2(t), t)
  <2>1. t.signed = x
    BY DEF x
  <2> QED
    BY <1>1, <1>3, <1>6, <2>1 DEF SliceOf
<1>9. Notional(t) = Notional(Half1(t)) + Notional(Half2(t))
  <2>1. Notional(t) = Abs(x) /\ Notional(Half1(t)) = Abs(h) /\ Notional(Half2(t)) = Abs(x - h)
    BY <1>5, <1>6, Zenon DEF Notional, x
  <2> QED
    BY <1>4, <2>1
<1> QED
  BY <1>5, <1>6, <1>7, <1>8, <1>9

LEMMA DaySliced ==
  ASSUME NEW cost \in Stacks, NEW list, NEW n \in Nat, DOMAIN list = 1 .. n,
         \A j \in 1 .. n : TypedTrade(list[j]) /\ list[j].adv = 6 /\ list[j].spread = 4,
         NEW b \in Sliceable
  PROVE  SlicedCost(cost, list, b)
<1> DEFINE A == [j \in DOMAIN list |-> Half1(list[j])]
           C == [j \in DOMAIN list |-> Half2(list[j])]
           slack == SumOver([j \in 1 .. n |-> ScaleOf(cost, list[j], 1, b)], 1 .. n)
<1>1. Sliced(A, C, n, list)
  <2>1. ASSUME NEW j \in 1 .. n
        PROVE  /\ TypedTrade(list[j]) /\ SliceOf(A[j], list[j]) /\ SliceOf(C[j], list[j])
               /\ A[j].sec = list[j].sec /\ A[j].date = list[j].date
               /\ C[j].sec = list[j].sec /\ C[j].date = list[j].date
               /\ Notional(list[j]) = Notional(A[j]) + Notional(C[j])
    <3>1. TypedTrade(list[j]) /\ A[j] = Half1(list[j]) /\ C[j] = Half2(list[j])
      OBVIOUS
    <3> QED
      BY <3>1, HalvesSlice
  <2>2. DOMAIN A = 1 .. n /\ DOMAIN C = 1 .. n
    OBVIOUS
  <2> HIDE DEF A, C
  <2> QED
    BY <2>1, <2>2 DEF Sliced
<1>2. A = [j \in 1 .. n |-> A[j]] /\ C = [j \in 1 .. n |-> C[j]]
  OBVIOUS
<1>3. ASSUME NEW j \in 1 .. n PROVE TradeErrors(cost, list[j]) = {}
  <2> DEFINE t == list[j]
  <2>1. t.adv # None /\ t.spread # None /\ t.adv # 0
    <3>1. t.adv = 6 /\ t.spread = 4
      OBVIOUS
    <3> HIDE DEF t
    <3> QED
      BY <3>1, NoFigure
  <2> HIDE DEF t
  <2>2. TradeErrors(cost, t) = {}
    BY <2>1, Zenon DEF TradeErrors
  <2> QED
    BY <2>2 DEF t
<1>4. TypedStack(cost) /\ 1 \in Nat
  BY StacksTyped
<1>5. Len(A \o C) = n + n
  <2>1. A \in [1 .. n -> {A[j] : j \in 1 .. n} \cup {C[j] : j \in 1 .. n}]
    BY <1>2
  <2>2. C \in [1 .. n -> {A[j] : j \in 1 .. n} \cup {C[j] : j \in 1 .. n}]
    BY <1>2
  <2> DEFINE S == {A[j] : j \in 1 .. n} \cup {C[j] : j \in 1 .. n}
  <2> HIDE DEF A, C
  <2>3. A \in Seq(S) /\ C \in Seq(S) /\ Len(A) = n /\ Len(C) = n
    BY <2>1, <2>2
  <2> HIDE DEF S
  <2> QED
    BY <2>3
<1>6. slack \in Int /\ slack <= 2 * n
  <2> DEFINE m == [j \in 1 .. n |-> ScaleOf(cost, list[j], 1, b)]
             two == [j \in 1 .. n |-> 2]
             N == 1 .. n
  <2>1. \A j \in N : m[j] \in Int /\ two[j] \in Int /\ m[j] <= two[j]
    <3>1. \A j \in N : ScaleOf(cost, list[j], 1, b) \in 1 .. 2
      BY StacksTyped
    <3> QED
      BY <3>1
  <2>2. \A j \in N : two[j] = 2
    OBVIOUS
  <2>3. IsFiniteSet(N) /\ Cardinality(N) = n
    BY UpToFinite, FS_Interval
  <2>4. slack = SumOver(m, N)
    OBVIOUS
  <2> HIDE DEF m, two, N, slack
  <2>5. SumOver(m, N) <= SumOver(two, N) /\ SumOver(m, N) \in Int
    <3>1. \A j \in N : m[j] \in Int
      BY <2>1
    <3> QED
      BY <2>1, <2>3, <3>1, SumOverOrder, SumOverWhole
  <2>6. SumOver(two, N) = 2 * Cardinality(N)
    BY <2>2, <2>3, SumOverConstant
  <2> QED
    BY <2>3, <2>4, <2>5, <2>6
<1> DEFINE x == CostOf(cost, list, 1, b)
           y == CostOf(cost, A \o C, 1, b)
<1>7. x \in Nat /\ y \in Nat /\ x - slack <= y /\ y <= x
  <2> HIDE DEF A, C
  <2> QED
    BY <1>1, <1>2, <1>3, <1>4, SlicingCosts
<1>8. SlicedCost(cost, list, b) = (Abs(x - y) <= 2 * Len(A \o C))
  BY Zenon DEF SlicedCost
<1> HIDE DEF x, y, slack, A, C
<1>9. Abs(x - y) <= 2 * Len(A \o C)
  BY <1>5, <1>6, <1>7 DEF Abs
<1> QED
  BY <1>8, <1>9

\* The inductive invariant: what is held, built or charged is in the run's names.
SliceInv ==
  /\ stack \in Stacks
  /\ book # None /\ book.error = "none" => NamedBook(book.weights)
  /\ NamedBook(held)
  /\ \E S : records \in Seq(S)
  /\ \A i \in DOMAIN records : NamedBook(records[i].call.trades)

LEMMA MovesNamed ==
  ASSUME NamedBook(book.weights), NamedBook(held)
  PROVE  NamedBook(Moves)
<1>1. DOMAIN Moves \subseteq DOMAIN book.weights \cup DOMAIN held
  BY DEF Moves
<1>2. ASSUME NEW s \in DOMAIN Moves PROVE Moves[s] \in Int
  <2>1. Moves[s] = Weight(book.weights, s) - Weight(held, s)
    BY DEF Moves, Delta
  <2>2. Weight(book.weights, s) \in Int /\ Weight(held, s) \in Int
    BY DEF Weight, NamedBook
  <2> QED
    BY <2>1, <2>2
<1> HIDE DEF Moves
<1> QED
  BY <1>1, <1>2 DEF NamedBook

LEMMA SliceInit == PartInit => SliceInv
<1> SUFFICES ASSUME PartInit PROVE SliceInv
  OBVIOUS
<1>1. stack \in Stacks /\ book = None /\ records = <<>> /\ held = <<>>
  BY DEF PartInit, BooksInit
<1>2. records \in Seq({}) /\ DOMAIN records = {} /\ DOMAIN held = {}
  BY <1>1
<1> QED
  BY <1>1, <1>2 DEF SliceInv, NamedBook

LEMMA SliceStep == SliceInv /\ [PartNext]_<<part, vars, books>> => SliceInv'
<1> SUFFICES ASSUME SliceInv, [PartNext]_<<part, vars, books>> PROVE SliceInv'
  OBVIOUS
<1>1. CASE UNCHANGED <<stack, book, held, records>>
  BY <1>1 DEF SliceInv, NamedBook
<1>2. CASE Construct
  <2>1. PICK a \in Asked(Len(records)) : book' = Answer(a)
    BY <1>2 DEF Construct
  <2>2. UNCHANGED <<stack, held, records>>
    BY <1>2 DEF Construct
  <2>3. book'.error = "none" => NamedBook(book'.weights)
    BY <2>1, AnswerNamed
  <2> QED
    BY <2>2, <2>3 DEF SliceInv
<1>3. CASE ChargeBook
  <2> DEFINE r == [call |-> Call, result |-> PeriodCharges(stack, Call, Denominator, Attributes)]
  <2>1. NamedBook(r.call.trades) /\ NamedBook(book.weights)
    <3>1. NamedBook(book.weights) /\ NamedBook(held)
      BY <1>3 DEF SliceInv, ChargeBook
    <3>2. r.call = Call /\ Call.trades = Moves
      BY DEF Call
    <3> HIDE DEF r
    <3> QED
      BY <3>1, <3>2, MovesNamed
  <2>2. records' = Append(records, r) /\ book' = None /\ held' = book.weights /\ UNCHANGED stack
    BY <1>3 DEF ChargeBook
  <2> HIDE DEF r
  <2>3. PICK S : records \in Seq(S)
    BY DEF SliceInv
  <2>4. records' \in Seq(S \cup {r})
    <3>1. records \in Seq(S \cup {r})
      BY <2>3
    <3> QED
      BY <2>2, <3>1
  <2>5. ASSUME NEW i \in DOMAIN records' PROVE NamedBook(records'[i].call.trades)
    <3>1. (i \in DOMAIN records /\ records'[i] = records[i]) \/ records'[i] = r
      BY <2>2, <2>3
    <3> QED
      BY <2>1, <3>1 DEF SliceInv
  <2> QED
    BY <2>1, <2>2, <2>4, <2>5 DEF SliceInv
<1>4. UNCHANGED <<stack, book, held, records>> \/ Construct \/ ChargeBook
  BY DEF PartNext, BooksNext, AskOptimizer, books
<1> QED
  BY <1>1, <1>2, <1>3, <1>4

\* However a month's orders are sliced, the run's stack charges them the same, but
\* for the commission and the rounding (SlicingCosts, with what a run can charge).
THEOREM SlicingChangesNothing == PartSpec => []SlicingIsFree
<1>1. ASSUME SliceInv PROVE SlicingIsFree
  <2>1. ASSUME NEW i \in DOMAIN records, NEW b \in Sliceable
        PROVE  SlicedCost(stack, Trades(records[i].call.trades, records[i].call.date, Attributes), b)
    <3> DEFINE list == Trades(records[i].call.trades, records[i].call.date, Attributes)
    <3>1. NamedBook(records[i].call.trades) /\ stack \in Stacks
      BY <1>1 DEF SliceInv
    <3>2. PICK n \in Nat : /\ DOMAIN list = 1 .. n
                           /\ \A j \in 1 .. n : TypedTrade(list[j]) /\ list[j].adv = 6 /\ list[j].spread = 4
      BY <3>1, TradeRows
    <3> HIDE DEF list
    <3>3. SlicedCost(stack, list, b)
      BY <3>1, <3>2, DaySliced
    <3> QED
      BY <3>3 DEF list
  <2> QED
    BY <2>1, Zenon DEF SlicingIsFree, SlicedCost, CostOf, Sliceable
<1> QED
  BY <1>1, SliceInit, SliceStep, PTL DEF PartSpec
-----------------------------------------------------------------------------
(* Adding up.                                                                 *)

\* The sum of a row of five buckets.
Buckets == TradeBuckets \cup {"borrow"}
WholeRow(row) == \A b \in Buckets : row[b] \in Int

LEMMA RowTotal ==
  ASSUME NEW row, WholeRow(row)
  PROVE  TradingTotal(row) = row["commission"] + row["spread"] + row["linear"] + row["impact"] + row["penalty"]
<1> DEFINE A == {"commission", "spread"}
           B == {"impact", "penalty"}
           C == {"linear"} \cup B
<1>1. \A b \in TradeBuckets : row[b] \in Int
  BY DEF WholeRow, Buckets
<1>2. TradeBuckets = A \cup C /\ TradeBuckets \ A = C /\ C \ {"linear"} = B /\ A \in SUBSET TradeBuckets
      /\ {"linear"} \in SUBSET C /\ C \in SUBSET TradeBuckets /\ B \in SUBSET TradeBuckets
  BY DEF TradeBuckets
<1>3. IsFiniteSet(A) /\ IsFiniteSet(B) /\ IsFiniteSet({"linear"}) /\ Cardinality({"linear"}) = 1
  <2>1. IsFiniteSet({"commission"}) /\ IsFiniteSet({"spread"}) /\ IsFiniteSet({"impact"})
        /\ IsFiniteSet({"penalty"}) /\ IsFiniteSet({"linear"}) /\ Cardinality({"linear"}) = 1
    BY FS_Singleton
  <2>2. IsFiniteSet({"commission"} \cup {"spread"}) /\ IsFiniteSet({"impact"} \cup {"penalty"})
    BY <2>1, FS_Union
  <2>3. A = {"commission"} \cup {"spread"} /\ B = {"impact"} \cup {"penalty"}
    OBVIOUS
  <2> HIDE DEF A, B
  <2> QED
    BY <2>1, <2>2, <2>3
<1>4. IsFiniteSet(C) /\ IsFiniteSet(TradeBuckets)
  BY <1>2, <1>3, FS_Union
<1>5. row["commission"] \in Int /\ row["spread"] \in Int /\ row["linear"] \in Int
      /\ row["impact"] \in Int /\ row["penalty"] \in Int
  BY <1>1 DEF TradeBuckets
<1>6. SumOver(row, A) = row["commission"] + row["spread"] /\ SumOver(row, B) = row["impact"] + row["penalty"]
  BY <1>5, SumOverTwo
<1>7. SumOver(row, {"linear"}) = row["linear"]
  <2>1. SumOver(row, {"linear"}) = row["linear"] * Cardinality({"linear"})
    BY <1>3, <1>5, SumOverConstant
  <2> QED
    BY <1>3, <1>5, <2>1
<1> HIDE DEF A, B, C
<1>8. SumOver(row, TradeBuckets) = SumOver(row, A) + SumOver(row, C)
  <2>1. SumOver(row, TradeBuckets) = SumOver(row, A) + SumOver(row, TradeBuckets \ A)
    BY <1>1, <1>2, <1>4, SumOverSplit
  <2> QED
    BY <1>2, <2>1
<1>9. SumOver(row, C) = SumOver(row, {"linear"}) + SumOver(row, B)
  <2>1. \A b \in C : row[b] \in Int
    BY <1>1, <1>2
  <2>2. SumOver(row, C) = SumOver(row, {"linear"}) + SumOver(row, C \ {"linear"})
    BY <1>2, <1>4, <2>1, SumOverSplit
  <2> QED
    BY <1>2, <2>2
<1> QED
  BY <1>5, <1>6, <1>7, <1>8, <1>9 DEF TradingTotal

\* Rows of trades and of marks with whole figures.
WholeCosts(costs, accruals) ==
  /\ IsFiniteSet(DOMAIN costs) /\ IsFiniteSet(DOMAIN accruals)
  /\ \A i \in DOMAIN costs : \A b \in TradeBuckets : costs[i].by[b] \in Int
  /\ \A j \in DOMAIN accruals : accruals[j].amount \in Int

Column(costs, accruals, b) ==
  IF b = "borrow" THEN [j \in DOMAIN accruals |-> accruals[j].amount] ELSE [i \in DOMAIN costs |-> costs[i].by[b]]
Places(costs, accruals, b) == IF b = "borrow" THEN DOMAIN accruals ELSE DOMAIN costs
PlacesOn(costs, accruals, b, d) == IF b = "borrow" THEN MarksOn(accruals, d) ELSE TradesOn(costs, d)

LEMMA TotalsAre ==
  ASSUME NEW costs, NEW accruals, NEW b \in Buckets
  PROVE  /\ Totals(costs, accruals)[b] = SumOver(Column(costs, accruals, b), Places(costs, accruals, b))
         /\ \A d \in DOMAIN AggregatePeriods(costs, accruals) :
              AggregatePeriods(costs, accruals)[d][b]
                = SumOver(Column(costs, accruals, b), PlacesOn(costs, accruals, b, d))
<1>1. \A I, J : TotalsOf(costs, accruals, I, J)[b]
                  = SumOver(Column(costs, accruals, b), IF b = "borrow" THEN J ELSE I)
  BY Zenon DEF TotalsOf, Column, Buckets
<1>2. Totals(costs, accruals)[b] = SumOver(Column(costs, accruals, b), Places(costs, accruals, b))
  BY <1>1, Zenon DEF Totals, Places
<1>3. ASSUME NEW d \in DOMAIN AggregatePeriods(costs, accruals)
      PROVE  AggregatePeriods(costs, accruals)[d][b]
               = SumOver(Column(costs, accruals, b), PlacesOn(costs, accruals, b, d))
  <2>1. AggregatePeriods(costs, accruals)[d] = TotalsOf(costs, accruals, TradesOn(costs, d), MarksOn(accruals, d))
    BY <1>3, Zenon DEF AggregatePeriods
  <2> QED
    BY <1>1, <2>1, Zenon DEF PlacesOn
<1> QED
  BY <1>2, <1>3

\* The rows by date make up the totals, bucket by bucket (aggregate_periods, totals_of).
THEOREM PeriodsMakeTotals ==
  ASSUME NEW costs, NEW accruals, WholeCosts(costs, accruals), NEW b \in Buckets,
         NEW periods, periods = AggregatePeriods(costs, accruals)
  PROVE  /\ SumOver([d \in DOMAIN periods |-> periods[d][b]], DOMAIN periods) = Totals(costs, accruals)[b]
         /\ IsFiniteSet(DOMAIN periods) /\ Totals(costs, accruals)[b] \in Int
         /\ \A d \in DOMAIN periods : periods[d][b] \in Int
<1> DEFINE D == DOMAIN periods
           S == Places(costs, accruals, b)
           f == Column(costs, accruals, b)
           key == [s \in S |-> IF b = "borrow" THEN accruals[s].mark.date ELSE costs[s].trade.date]
           h == [d \in D |-> periods[d][b]]
<1>1. D = TradeDates(costs) \cup MarkDates(accruals)
  BY DEF AggregatePeriods
<1>2. IsFiniteSet(D)
  <2>1. IsFiniteSet(DOMAIN costs) /\ IsFiniteSet(DOMAIN accruals)
    BY DEF WholeCosts
  <2>2. [i \in DOMAIN costs |-> costs[i].trade.date] \in Surjection(DOMAIN costs, TradeDates(costs))
    BY DEF Surjection, TradeDates
  <2>3. [j \in DOMAIN accruals |-> accruals[j].mark.date] \in Surjection(DOMAIN accruals, MarkDates(accruals))
    BY DEF Surjection, MarkDates
  <2>4. IsFiniteSet(TradeDates(costs)) /\ IsFiniteSet(MarkDates(accruals))
    BY <2>1, <2>2, <2>3, FS_Surjection
  <2> QED
    BY <1>1, <2>4, FS_Union
<1>3. IsFiniteSet(S) /\ \A s \in S : f[s] \in Int
  BY DEF WholeCosts, Column, Places, Buckets
<1>4. \A s \in S : key[s] \in D
  BY <1>1 DEF TradeDates, MarkDates, Places
<1>5. ASSUME NEW d \in D PROVE PlacesOn(costs, accruals, b, d) = Sharing(S, key, d)
  BY DEF PlacesOn, TradesOn, MarksOn, Sharing, Places
<1>6. ASSUME NEW d \in D PROVE h[d] = SumOver(f, Sharing(S, key, d))
  <2>1. h[d] = periods[d][b]
    OBVIOUS
  <2> HIDE DEF h, S, key
  <2>2. periods[d][b] = SumOver(f, PlacesOn(costs, accruals, b, d))
    BY TotalsAre
  <2> QED
    BY <1>5, <2>1, <2>2
<1>7. Totals(costs, accruals)[b] = SumOver(f, S)
  BY TotalsAre
<1>11. \A d \in D : h[d] = periods[d][b]
  OBVIOUS
<1> HIDE DEF D, S, f, key, h
<1>8. SumOver(f, S) = SumOver(h, D) /\ SumOver(f, S) \in Int
  <2>1. SharedOut(S, f, key, D, h)
    BY <1>2, <1>3, <1>4, <1>6, Zenon DEF SharedOut
  <2> QED
    BY <1>3, <2>1, SharedSum, SumOverWhole
<1>9. ASSUME NEW d \in D PROVE h[d] \in Int
  <2>1. Sharing(S, key, d) \in SUBSET S
    BY DEF Sharing
  <2>2. IsFiniteSet(Sharing(S, key, d)) /\ \A s \in Sharing(S, key, d) : f[s] \in Int
    BY <1>3, <2>1, FS_Subset
  <2>3. SumOver(f, Sharing(S, key, d)) \in Int
    BY <2>2, SumOverWhole
  <2> QED
    BY <1>6, <2>3
<1>10. \A d \in D : periods[d][b] \in Int
  BY <1>9, <1>11
<1> QED
  BY <1>2, <1>7, <1>8, <1>10 DEF D, h

LEMMA SumOverEqual ==
  ASSUME NEW S, NEW f, NEW g, \A s \in S : f[s] = g[s]
  PROVE  SumOver(f, S) = SumOver(g, S)
<1>1. [s \in S |-> f[s]] = [s \in S |-> g[s]]
  OBVIOUS
<1>2. SumOver(f, S) = SumOver([s \in S |-> f[s]], S) /\ SumOver(g, S) = SumOver([s \in S |-> g[s]], S)
  BY SumOverSame
<1> QED
  BY <1>1, <1>2

\* What is left of the gross profit of some dates is the gross profit of all of
\* them less all costs (CostRunResult.net_of), whatever the dates of the costs
\* are, so long as they are dates of the gross profit.
THEOREM NetAddsUp ==
  ASSUME NEW costs, NEW accruals, WholeCosts(costs, accruals), NEW run,
         run.periods = AggregatePeriods(costs, accruals), run.totals = Totals(costs, accruals),
         NEW gross, IsFiniteSet(DOMAIN gross), \A d \in DOMAIN gross : gross[d] \in Int, ~ NetRefused(run, gross)
  PROVE  Total(NetOf(run, gross)) = Total(gross) - TradingTotal(run.totals) - run.totals["borrow"]
<1> DEFINE D == DOMAIN gross
           P == DOMAIN run.periods
           row(d) == run.periods[d]
           of(b) == [d \in P |-> row(d)[b]]
           whole == run.totals
           net == NetOf(run, gross)
<1>1. P \in SUBSET D
  BY DEF NetRefused
<1>2. ASSUME NEW b \in Buckets
      PROVE  /\ SumOver(of(b), P) = whole[b] /\ IsFiniteSet(P) /\ whole[b] \in Int
             /\ \A d \in P : row(d)[b] \in Int
  <2> DEFINE periods == run.periods
  <2>1. periods = AggregatePeriods(costs, accruals) /\ whole = Totals(costs, accruals)
    OBVIOUS
  <2> HIDE DEF periods, whole
  <2>2. /\ SumOver([d \in DOMAIN periods |-> periods[d][b]], DOMAIN periods) = Totals(costs, accruals)[b]
        /\ IsFiniteSet(DOMAIN periods) /\ Totals(costs, accruals)[b] \in Int
        /\ \A d \in DOMAIN periods : periods[d][b] \in Int
    BY <2>1, PeriodsMakeTotals
  <2>3. /\ SumOver([d \in DOMAIN periods |-> periods[d][b]], DOMAIN periods) = whole[b]
        /\ IsFiniteSet(DOMAIN periods) /\ whole[b] \in Int
        /\ \A d \in DOMAIN periods : periods[d][b] \in Int
    BY <2>1, <2>2, Zenon
  <2> QED
    BY <2>3, Zenon DEF periods
<1>3. WholeRow(whole) /\ \A d \in P : WholeRow(row(d))
  BY <1>2, Zenon DEF WholeRow
<1> DEFINE f1 == of("commission")
           f2 == of("spread")
           f3 == of("linear")
           f4 == of("impact")
           f5 == of("penalty")
           f6 == of("borrow")
           s2 == [d \in P |-> f1[d] + f2[d]]
           s3 == [d \in P |-> s2[d] + f3[d]]
           s4 == [d \in P |-> s3[d] + f4[d]]
           s5 == [d \in P |-> s4[d] + f5[d]]
           s6 == [d \in P |-> s5[d] + f6[d]]
           c == [d \in D |-> IF d \in P THEN s6[d] ELSE 0]
<1>4. /\ "commission" \in Buckets /\ "spread" \in Buckets /\ "linear" \in Buckets
      /\ "impact" \in Buckets /\ "penalty" \in Buckets /\ "borrow" \in Buckets
  BY DEF Buckets, TradeBuckets
<1>5. /\ SumOver(f1, P) = whole["commission"] /\ SumOver(f2, P) = whole["spread"] /\ SumOver(f3, P) = whole["linear"]
      /\ SumOver(f4, P) = whole["impact"] /\ SumOver(f5, P) = whole["penalty"] /\ SumOver(f6, P) = whole["borrow"]
      /\ IsFiniteSet(P)
  BY <1>2, <1>4, Zenon
<1>6. ASSUME NEW d \in P
      PROVE  /\ f1[d] \in Int /\ f2[d] \in Int /\ f3[d] \in Int /\ f4[d] \in Int /\ f5[d] \in Int /\ f6[d] \in Int
             /\ TradingTotal(row(d)) = f1[d] + f2[d] + f3[d] + f4[d] + f5[d] /\ row(d)["borrow"] = f6[d]
  <2>1. /\ f1[d] = row(d)["commission"] /\ f2[d] = row(d)["spread"] /\ f3[d] = row(d)["linear"]
        /\ f4[d] = row(d)["impact"] /\ f5[d] = row(d)["penalty"] /\ f6[d] = row(d)["borrow"]
    BY Zenon
  <2>2. TradingTotal(row(d)) = row(d)["commission"] + row(d)["spread"] + row(d)["linear"] + row(d)["impact"]
                               + row(d)["penalty"]
    BY <1>3, RowTotal
  <2>3. /\ row(d)["commission"] \in Int /\ row(d)["spread"] \in Int /\ row(d)["linear"] \in Int
        /\ row(d)["impact"] \in Int /\ row(d)["penalty"] \in Int /\ row(d)["borrow"] \in Int
    BY <1>2, <1>4, Zenon
  <2> HIDE DEF f1, f2, f3, f4, f5, f6, row
  <2> QED
    BY <2>1, <2>2, <2>3
<1>7. \A d \in P : /\ s2[d] = f1[d] + 1 * f2[d] /\ s3[d] = s2[d] + 1 * f3[d] /\ s4[d] = s3[d] + 1 * f4[d]
                   /\ s5[d] = s4[d] + 1 * f5[d] /\ s6[d] = s5[d] + 1 * f6[d]
  <2> HIDE DEF f1, f2, f3, f4, f5, f6
  <2> QED
    BY <1>6
<1>8. \A d \in D : c[d] = IF d \in P THEN s6[d] ELSE 0
  BY Zenon
<1>9. TradingTotal(whole) = whole["commission"] + whole["spread"] + whole["linear"] + whole["impact"] + whole["penalty"]
  BY <1>3, RowTotal
<1>10. \A d \in D : net[d] = IF d \in P THEN gross[d] - TradingTotal(row(d)) - row(d)["borrow"] ELSE gross[d]
  BY Zenon DEF NetOf
<1>11. DOMAIN net = D
  BY DEF NetOf
<1> HIDE DEF f1, f2, f3, f4, f5, f6, s2, s3, s4, s5, s6, c, net, P, D, whole, row
<1>12. SumOver(s2, P) = SumOver(f1, P) + 1 * SumOver(f2, P) /\ SumOver(f1, P) \in Int /\ SumOver(f2, P) \in Int
  <2>1. (\A d \in P : f1[d] \in Int) /\ (\A d \in P : f2[d] \in Int) /\ \A d \in P : s2[d] = f1[d] + 1 * f2[d]
    BY <1>6, <1>7
  <2> QED
    BY <1>5, <2>1, SumOverPlus
<1>13. SumOver(s3, P) = SumOver(s2, P) + 1 * SumOver(f3, P) /\ SumOver(s2, P) \in Int /\ SumOver(f3, P) \in Int
  <2>1. (\A d \in P : s2[d] \in Int) /\ (\A d \in P : f3[d] \in Int) /\ \A d \in P : s3[d] = s2[d] + 1 * f3[d]
    BY <1>6, <1>7
  <2> QED
    BY <1>5, <2>1, SumOverPlus
<1>14. SumOver(s4, P) = SumOver(s3, P) + 1 * SumOver(f4, P) /\ SumOver(s3, P) \in Int /\ SumOver(f4, P) \in Int
  <2>1. (\A d \in P : s3[d] \in Int) /\ (\A d \in P : f4[d] \in Int) /\ \A d \in P : s4[d] = s3[d] + 1 * f4[d]
    BY <1>6, <1>7
  <2> QED
    BY <1>5, <2>1, SumOverPlus
<1>15. SumOver(s5, P) = SumOver(s4, P) + 1 * SumOver(f5, P) /\ SumOver(s4, P) \in Int /\ SumOver(f5, P) \in Int
  <2>1. (\A d \in P : s4[d] \in Int) /\ (\A d \in P : f5[d] \in Int) /\ \A d \in P : s5[d] = s4[d] + 1 * f5[d]
    BY <1>6, <1>7
  <2> QED
    BY <1>5, <2>1, SumOverPlus
<1>16. SumOver(s6, P) = SumOver(s5, P) + 1 * SumOver(f6, P) /\ SumOver(s5, P) \in Int /\ SumOver(f6, P) \in Int
  <2>1. (\A d \in P : s5[d] \in Int) /\ (\A d \in P : f6[d] \in Int) /\ \A d \in P : s6[d] = s5[d] + 1 * f6[d]
    BY <1>6, <1>7
  <2> QED
    BY <1>5, <2>1, SumOverPlus
<1>17. SumOver(s6, P) = TradingTotal(whole) + whole["borrow"] /\ SumOver(s6, P) \in Int
  BY <1>5, <1>9, <1>12, <1>13, <1>14, <1>15, <1>16
<1>18. \A d \in D : c[d] \in Int /\ gross[d] \in Int /\ net[d] = gross[d] - c[d]
  <2> SUFFICES ASSUME NEW d \in D PROVE c[d] \in Int /\ gross[d] \in Int /\ net[d] = gross[d] - c[d]
    OBVIOUS
  <2>1. gross[d] \in Int
    BY DEF D
  <2>2. CASE d \in P
    <3>1. s6[d] = TradingTotal(row(d)) + row(d)["borrow"] /\ s6[d] \in Int
          /\ TradingTotal(row(d)) \in Int /\ row(d)["borrow"] \in Int
      BY <1>6, <1>7, <2>2
    <3>2. c[d] = s6[d] /\ net[d] = gross[d] - TradingTotal(row(d)) - row(d)["borrow"]
      BY <1>8, <1>10, <2>2
    <3> QED
      BY <2>1, <3>1, <3>2
  <2>3. CASE d \notin P
    BY <1>8, <1>10, <2>1, <2>3
  <2> QED
    BY <2>2, <2>3
<1>19. IsFiniteSet(D)
  BY DEF D
<1>20. SumOver(c, D) = SumOver(s6, P)
  <2>1. SumOver(c, P) = SumOver(c, D)
    <3>1. (\A d \in D : c[d] \in Int) /\ \A d \in D \ P : c[d] = 0
      BY <1>8, <1>18
    <3> QED
      BY <1>1, <1>19, <3>1, SumOverSupport
  <2>2. SumOver(c, P) = SumOver(s6, P)
    <3>1. \A d \in P : c[d] = s6[d]
      BY <1>1, <1>8
    <3> QED
      BY <3>1, SumOverEqual
  <2> QED
    BY <2>1, <2>2
<1>21. SumOver(gross, D) = SumOver(net, D) + 1 * SumOver(c, D) /\ SumOver(net, D) \in Int /\ SumOver(c, D) \in Int
  <2>1. (\A d \in D : net[d] \in Int) /\ (\A d \in D : c[d] \in Int) /\ \A d \in D : gross[d] = net[d] + 1 * c[d]
    BY <1>18
  <2> QED
    BY <1>19, <2>1, SumOverPlus
<1>22. Total(net) = SumOver(net, D) /\ Total(gross) = SumOver(gross, D)
  BY <1>11 DEF Total, D
<1>23. whole["borrow"] \in Int /\ TradingTotal(whole) \in Int
  <2>1. whole["commission"] \in Int /\ whole["spread"] \in Int /\ whole["linear"] \in Int
        /\ whole["impact"] \in Int /\ whole["penalty"] \in Int /\ whole["borrow"] \in Int
    BY <1>3, <1>4, Zenon DEF WholeRow
  <2> QED
    BY <1>9, <2>1
<1>24. Total(net) = Total(gross) - TradingTotal(whole) - whole["borrow"]
  BY <1>17, <1>20, <1>21, <1>22, <1>23
<1> QED
  BY <1>24 DEF net, whole
-----------------------------------------------------------------------------
(* Months, one after the other.                                               *)

\* Sums over places that are named otherwise.
LEMMA Reindexed ==
  ASSUME NEW S, NEW T, NEW m, m \in Bijection(S, T), IsFiniteSet(S), NEW f, \A t \in T : f[t] \in Int
  PROVE  IsFiniteSet(T) /\ SumOver(f, T) = SumOver([s \in S |-> f[m[s]]], S)
<1> DEFINE g == [s \in S |-> f[m[s]]]
<1>1. m \in Surjection(S, T) /\ m \in [S -> T]
  BY DEF Bijection, Surjection
<1>2. IsFiniteSet(T)
  BY <1>1, FS_Surjection
<1>3. \A s \in S : g[s] \in Int /\ m[s] \in T
  BY <1>1
<1>4. ASSUME NEW t \in T PROVE f[t] = SumOver(g, Sharing(S, m, t))
  <2>1. PICK s \in S : m[s] = t
    BY <1>1 DEF Surjection
  <2>2. \A r \in S : m[r] = t => r = s
    BY <2>1 DEF Bijection, Injection, IsInjective
  <2>3. Sharing(S, m, t) = {s}
    BY <2>1, <2>2 DEF Sharing
  <2>4. g[s] = f[t] /\ f[t] \in Int
    BY <2>1
  <2> HIDE DEF g
  <2>5. IsFiniteSet({s}) /\ Cardinality({s}) = 1
    BY FS_Singleton
  <2>6. SumOver(g, {s}) = g[s] * Cardinality({s})
    BY <2>4, <2>5, SumOverConstant
  <2> QED
    BY <2>3, <2>4, <2>5, <2>6
<1> HIDE DEF g
<1>5. SharedOut(S, g, m, T, f)
  BY <1>2, <1>3, <1>4, Zenon DEF SharedOut
<1>6. SumOver(g, S) = SumOver(f, T)
  BY <1>5, SharedSum
<1> QED
  BY <1>2, <1>6 DEF g

\* Rows in parts: each has as many as its length says.
Parts(parts, n) ==
  /\ n \in Nat /\ DOMAIN parts = 1 .. n
  /\ \A i \in 1 .. n : Len(parts[i]) \in Nat /\ DOMAIN parts[i] = 1 .. Len(parts[i])

LEMMA StartsRise ==
  ASSUME NEW parts, NEW n, Parts(parts, n)
  PROVE  /\ \A i \in 1 .. n : Starts(parts)[i] \in Nat
         /\ \A i \in 1 .. n : \A j \in 1 .. n : i < j => Starts(parts)[i] + Len(parts[i]) <= Starts(parts)[j]
         /\ n > 0 => Starts(parts)[1] = 0
         /\ \A i \in 1 .. n : i < n => Starts(parts)[i + 1] = Starts(parts)[i] + Len(parts[i])
         /\ LET total == Total([j \in DOMAIN parts |-> Len(parts[j])])
            IN /\ total \in Nat
               /\ n > 0 => total = Starts(parts)[n] + Len(parts[n])
               /\ n = 0 => total = 0
<1> DEFINE lens == [j \in DOMAIN parts |-> Len(parts[j])]
           upTo(i) == SumOver(lens, 1 .. i)
<1>1. n \in Nat /\ DOMAIN lens = 1 .. n /\ \A i \in 1 .. n : lens[i] \in Nat /\ lens[i] = Len(parts[i])
  BY DEF Parts
<1>2. \A i \in 1 .. n : Starts(parts)[i] = upTo(i - 1)
  BY DEF Starts, Parts
<1>3. Total(lens) = upTo(n)
  <2>1. Total(lens) = SumOver(lens, DOMAIN lens)
    BY DEF Total
  <2> HIDE DEF lens
  <2> QED
    BY <1>1, <2>1
<1> HIDE DEF lens
<1>4. ASSUME NEW i \in 0 .. n PROVE upTo(i) \in Nat
  <2>1. i \in Nat
    BY <1>1
  <2>2. IsFiniteSet(1 .. i)
    BY <2>1, UpToFinite
  <2>3. \A j \in 1 .. i : lens[j] \in Nat
    BY <1>1
  <2> QED
    BY <2>2, <2>3, SumOverNat
<1>5. ASSUME NEW i \in 0 .. n, NEW j \in 0 .. n, i <= j PROVE upTo(i) <= upTo(j)
  <2>0. i \in Nat /\ j \in Nat
    BY <1>1
  <2>1. IsFiniteSet(1 .. j) /\ 1 .. i \in SUBSET (1 .. j)
    BY <1>5, <2>0, UpToFinite
  <2>2. \A k \in 1 .. j : lens[k] \in Nat
    BY <1>1
  <2> DEFINE D == 1 .. j
             P == 1 .. i
  <2>5. IsFiniteSet(D) /\ P \in SUBSET D /\ \A k \in D : lens[k] \in Nat
    BY <2>1, <2>2
  <2> HIDE DEF D, P
  <2>3. SumOver(lens, D) = SumOver(lens, P) + SumOver(lens, D \ P)
    <3>1. \A k \in D : lens[k] \in Int
      BY <2>5
    <3> QED
      BY <2>5, <3>1, SumOverSplit
  <2>4. SumOver(lens, D \ P) \in Nat /\ SumOver(lens, P) \in Nat
    <3>1. IsFiniteSet(D \ P) /\ IsFiniteSet(P)
      BY <2>5, FS_Subset
    <3>2. (\A k \in D \ P : lens[k] \in Nat) /\ \A k \in P : lens[k] \in Nat
      BY <2>5
    <3> QED
      BY <3>1, <3>2, SumOverNat
  <2>6. SumOver(lens, P) <= SumOver(lens, D)
    BY <2>3, <2>4
  <2> QED
    BY <2>6 DEF D, P
<1>6. ASSUME NEW i \in 1 .. n PROVE upTo(i) = upTo(i - 1) + lens[i]
  <2> DEFINE D == 1 .. i
             P == 1 .. i - 1
  <2>1. i \in Nat /\ i - 1 \in Nat
    BY <1>1
  <2>2. IsFiniteSet(D) /\ P \in SUBSET D /\ D \ P = {i}
    BY <2>1, UpToFinite
  <2>3. \A k \in D : lens[k] \in Int
    BY <1>1
  <2>4. lens[i] \in Int
    BY <1>1
  <2>8. IsFiniteSet({i}) /\ Cardinality({i}) = 1
    BY FS_Singleton
  <2> HIDE DEF D, P
  <2>5. SumOver(lens, D) = SumOver(lens, P) + SumOver(lens, D \ P)
    BY <2>2, <2>3, SumOverSplit
  <2>6. SumOver(lens, {i}) = lens[i] * Cardinality({i})
    BY <2>4, <2>8, SumOverConstant
  <2>7. SumOver(lens, D) = SumOver(lens, P) + lens[i]
    BY <2>2, <2>4, <2>5, <2>6, <2>8
  <2> QED
    BY <2>7 DEF D, P
<1>7. n > 0 => upTo(0) = 0
  <2>1. 1 .. 0 = {} /\ IsFiniteSet({}) /\ Cardinality({}) = 0
    BY FS_EmptySet
  <2>2. SumOver(lens, {}) = 0 * Cardinality({})
    BY <2>1, SumOverConstant
  <2> QED
    BY <2>1, <2>2
<1>8. n = 0 => upTo(n) = 0
  <2>1. 1 .. 0 = {} /\ IsFiniteSet({}) /\ Cardinality({}) = 0
    BY FS_EmptySet
  <2>2. SumOver(lens, {}) = 0 * Cardinality({})
    BY <2>1, SumOverConstant
  <2> QED
    BY <2>1, <2>2
<1> HIDE DEF upTo
<1>9. \A i \in 1 .. n : Starts(parts)[i] \in Nat
  <2> SUFFICES ASSUME NEW i \in 1 .. n PROVE Starts(parts)[i] \in Nat
    OBVIOUS
  <2>1. i - 1 \in 0 .. n
    BY <1>1
  <2> QED
    BY <1>2, <1>4, <2>1
<1>10. ASSUME NEW i \in 1 .. n, NEW j \in 1 .. n, i < j
       PROVE  Starts(parts)[i] + Len(parts[i]) <= Starts(parts)[j]
  <2>1. i \in 0 .. n /\ j - 1 \in 0 .. n /\ i <= j - 1
    BY <1>1, <1>10
  <2>2. upTo(i) <= upTo(j - 1)
    BY <1>5, <2>1
  <2> QED
    BY <1>1, <1>2, <1>6, <2>2
<1>11. n > 0 => Starts(parts)[1] = 0
  <2> SUFFICES ASSUME n > 0 PROVE Starts(parts)[1] = 0
    OBVIOUS
  <2>1. 1 \in 1 .. n /\ 1 - 1 = 0
    BY <1>1
  <2> QED
    BY <1>2, <1>7, <2>1
<1>12. ASSUME NEW i \in 1 .. n, i < n PROVE Starts(parts)[i + 1] = Starts(parts)[i] + Len(parts[i])
  <2>1. i + 1 \in 1 .. n /\ (i + 1) - 1 = i
    BY <1>1, <1>12
  <2>2. Starts(parts)[i + 1] = upTo(i)
    BY <1>2, <2>1
  <2> QED
    BY <1>1, <1>2, <1>6, <2>2
<1>13. /\ Total(lens) \in Nat
       /\ n > 0 => Total(lens) = Starts(parts)[n] + Len(parts[n])
       /\ n = 0 => Total(lens) = 0
  <2>1. n \in 0 .. n
    BY <1>1
  <2>2. Total(lens) \in Nat
    BY <1>3, <1>4, <2>1
  <2>3. n > 0 => n \in 1 .. n
    BY <1>1
  <2>4. n > 0 => Total(lens) = Starts(parts)[n] + Len(parts[n])
    BY <1>1, <1>2, <1>3, <1>6, <2>3
  <2> QED
    BY <1>3, <1>8, <2>2, <2>4
<1> QED
  BY <1>9, <1>10, <1>11, <1>12, <1>13 DEF lens

\* The places of the i-th part's rows among all rows.
PlacesIn(parts, i) == {Starts(parts)[i] + j : j \in DOMAIN parts[i]}
Shift(parts, i) == [j \in DOMAIN parts[i] |-> Starts(parts)[i] + j]

LEMMA PlaceOnce ==
  ASSUME NEW parts, NEW n, Parts(parts, n), NEW i \in 1 .. n, NEW j \in DOMAIN parts[i],
         NEW h \in 1 .. n, NEW k \in DOMAIN parts[h], Starts(parts)[i] + j = Starts(parts)[h] + k
  PROVE  i = h /\ j = k
<1> DEFINE x == Starts(parts)[i]
           y == Starts(parts)[h]
           lx == Len(parts[i])
           ly == Len(parts[h])
<1>1. /\ x \in Nat /\ y \in Nat /\ lx \in Nat /\ ly \in Nat /\ j \in 1 .. lx /\ k \in 1 .. ly /\ x + j = y + k
      /\ i \in Int /\ h \in Int
  <2>1. x \in Nat /\ y \in Nat
    BY StartsRise
  <2>2. lx \in Nat /\ ly \in Nat /\ j \in 1 .. lx /\ k \in 1 .. ly /\ i \in Int /\ h \in Int
    BY DEF Parts
  <2> QED
    BY <2>1, <2>2
<1>2. (i < h => x + lx <= y) /\ (h < i => y + ly <= x) /\ (i = h => x = y)
  BY StartsRise
<1> HIDE DEF x, y, lx, ly
<1>3. ~ (i < h) /\ ~ (h < i)
  BY <1>1, <1>2
<1>4. i = h
  BY <1>1, <1>3
<1> QED
  BY <1>1, <1>2, <1>4

LEMMA PlaceFound ==
  ASSUME NEW parts, NEW n, Parts(parts, n), NEW k \in DOMAIN Concatenated(parts)
  PROVE  \E i \in 1 .. n : \E j \in DOMAIN parts[i] : k = Starts(parts)[i] + j
<1> DEFINE total == Total([j \in DOMAIN parts |-> Len(parts[j])])
           end(i) == Starts(parts)[i] + Len(parts[i])
           T == {i \in 1 .. n : k <= end(i)}
<1>1. k \in 1 .. total
  BY DEF Concatenated
<1>2. /\ total \in Nat /\ (n > 0 => total = end(n)) /\ (n = 0 => total = 0) /\ n \in Nat
      /\ n > 0 => Starts(parts)[1] = 0
      /\ \A i \in 1 .. n : i < n => Starts(parts)[i + 1] = end(i)
      /\ \A i \in 1 .. n : Starts(parts)[i] \in Nat
  BY StartsRise DEF Parts
<1>3. \A i \in 1 .. n : Len(parts[i]) \in Nat /\ DOMAIN parts[i] = 1 .. Len(parts[i])
  BY DEF Parts
<1> HIDE DEF total
<1>4. k \in Nat /\ k >= 1 /\ n > 0 /\ k <= end(n) /\ n \in T
  BY <1>1, <1>2
<1>5. PICK i \in T : \A h \in T : i <= h
  <2>1. T \in SUBSET Nat /\ T # {}
    BY <1>4
  <2> HIDE DEF T
  <2> QED
    BY <2>1, LeastNat
<1>6. i \in 1 .. n /\ i \in Int /\ k <= end(i)
  OBVIOUS
<1>7. Starts(parts)[i] < k
  <2>1. CASE i = 1
    BY <1>2, <1>4, <2>1
  <2>2. CASE i # 1
    <3> DEFINE h == i - 1
    <3>1. h \in 1 .. n /\ h + 1 = i /\ h < n /\ ~ (i <= h)
      BY <1>2, <1>6, <2>2
    <3>2. h \notin T
      BY <1>5, <3>1
    <3>3. end(h) \in Nat /\ ~ (k <= end(h))
      BY <1>2, <1>3, <3>1, <3>2
    <3>4. Starts(parts)[i] = end(h)
      BY <1>2, <3>1
    <3> HIDE DEF h, end
    <3> QED
      BY <1>4, <3>3, <3>4
  <2> QED
    BY <2>1, <2>2
<1>8. k - Starts(parts)[i] \in DOMAIN parts[i] /\ k = Starts(parts)[i] + (k - Starts(parts)[i])
  BY <1>2, <1>3, <1>4, <1>6, <1>7
<1> QED
  BY <1>6, <1>8

\* The rows are where their part says they are.
LEMMA PlacesHold ==
  ASSUME NEW parts, NEW n, Parts(parts, n), NEW i \in 1 .. n, NEW j \in DOMAIN parts[i]
  PROVE  /\ Starts(parts)[i] + j \in DOMAIN Concatenated(parts)
         /\ Concatenated(parts)[Starts(parts)[i] + j] = parts[i][j]
<1> DEFINE total == Total([l \in DOMAIN parts |-> Len(parts[l])])
           k == Starts(parts)[i] + j
<1>1. /\ total \in Nat /\ (n > 0 => total = Starts(parts)[n] + Len(parts[n])) /\ n \in Nat
      /\ Starts(parts)[i] \in Nat /\ Starts(parts)[n] \in Nat
      /\ i < n => Starts(parts)[i] + Len(parts[i]) <= Starts(parts)[n]
  <2>1. n \in Nat /\ n \in 1 .. n
    BY DEF Parts
  <2> QED
    BY <2>1, StartsRise
<1>2. /\ DOMAIN parts = 1 .. n /\ Len(parts[i]) \in Nat /\ Len(parts[n]) \in Nat /\ j \in 1 .. Len(parts[i])
      /\ \A h \in 1 .. n : Len(parts[h]) \in Nat /\ DOMAIN parts[h] = 1 .. Len(parts[h])
  <2>1. n \in Nat /\ n \in 1 .. n
    BY DEF Parts
  <2> QED
    BY <2>1 DEF Parts
<1> HIDE DEF total
<1>3. k \in 1 .. total
  <2>1. CASE i = n
    BY <1>1, <1>2, <2>1
  <2>2. CASE i # n
    <3>1. i < n /\ n > 0
      BY <1>1, <2>2
    <3> QED
      BY <1>1, <1>2, <3>1
  <2> QED
    BY <2>1, <2>2
<1>4. PartOf(parts, k) = i
  <2>1. Starts(parts)[i] < k /\ k <= Starts(parts)[i] + Len(parts[i])
    BY <1>1, <1>2
  <2>2. ASSUME NEW h \in DOMAIN parts, Starts(parts)[h] < k, k <= Starts(parts)[h] + Len(parts[h])
        PROVE  h = i
    <3> DEFINE m == k - Starts(parts)[h]
    <3>1. h \in 1 .. n /\ Starts(parts)[h] \in Nat /\ Len(parts[h]) \in Nat /\ k \in Nat
      <4>1. h \in 1 .. n
        BY <1>2
      <4>2. Starts(parts)[h] \in Nat
        BY <4>1, StartsRise
      <4>3. Starts(parts)[i] \in Nat /\ j \in Nat
        BY <1>1, <1>2
      <4> QED
        BY <1>2, <4>1, <4>2, <4>3
    <3>2. m \in 1 .. Len(parts[h]) /\ k = Starts(parts)[h] + m
      BY <2>2, <3>1
    <3>3. m \in DOMAIN parts[h]
      BY <1>2, <3>1, <3>2
    <3>4. Starts(parts)[i] + j = Starts(parts)[h] + m
      BY <3>2
    <3> HIDE DEF m
    <3> QED
      BY <3>1, <3>3, <3>4, PlaceOnce
  <2> HIDE DEF k
  <2> QED
    BY <1>2, <2>1, <2>2 DEF PartOf
<1>5. k - Starts(parts)[i] = j
  BY <1>1, <1>2
<1> HIDE DEF k
<1>6. k \in DOMAIN Concatenated(parts) /\ Concatenated(parts)[k] = parts[i][j]
  BY <1>3, <1>4, <1>5 DEF Concatenated, total
<1> QED
  BY <1>6 DEF k

LEMMA ShiftBijects ==
  ASSUME NEW parts, NEW n, Parts(parts, n), NEW i \in 1 .. n
  PROVE  /\ Shift(parts, i) \in Bijection(DOMAIN parts[i], PlacesIn(parts, i))
         /\ IsFiniteSet(DOMAIN parts[i]) /\ PlacesIn(parts, i) \subseteq DOMAIN Concatenated(parts)
         /\ IsFiniteSet(DOMAIN Concatenated(parts))
<1>1. ASSUME NEW j \in DOMAIN parts[i], NEW k \in DOMAIN parts[i], Shift(parts, i)[j] = Shift(parts, i)[k]
      PROVE  j = k
  <2>1. Starts(parts)[i] + j = Starts(parts)[i] + k
    BY <1>1 DEF Shift
  <2> QED
    BY <2>1, PlaceOnce
<1>2. Shift(parts, i) \in Surjection(DOMAIN parts[i], PlacesIn(parts, i))
  BY DEF Surjection, Shift, PlacesIn
<1>3. Shift(parts, i) \in Injection(DOMAIN parts[i], PlacesIn(parts, i))
  <2>1. Shift(parts, i) \in [DOMAIN parts[i] -> PlacesIn(parts, i)]
    BY DEF Shift, PlacesIn
  <2> QED
    BY <1>1, <2>1 DEF Injection, IsInjective
<1>4. IsFiniteSet(DOMAIN parts[i])
  <2>1. DOMAIN parts[i] = 1 .. Len(parts[i]) /\ Len(parts[i]) \in Nat
    BY DEF Parts
  <2> QED
    BY <2>1, UpToFinite
<1>5. PlacesIn(parts, i) \subseteq DOMAIN Concatenated(parts)
  BY PlacesHold DEF PlacesIn
<1>6. IsFiniteSet(DOMAIN Concatenated(parts))
  <2> DEFINE total == Total([l \in DOMAIN parts |-> Len(parts[l])])
  <2>1. total \in Nat
    BY StartsRise
  <2>2. DOMAIN Concatenated(parts) = 1 .. total
    BY DEF Concatenated
  <2> HIDE DEF total
  <2> QED
    BY <2>1, <2>2, UpToFinite
<1> QED
  BY <1>2, <1>3, <1>4, <1>5, <1>6 DEF Bijection

\* What one part's rows come to, wherever they stand.
LEMMA PartSum ==
  ASSUME NEW parts, NEW n, Parts(parts, n), NEW i \in 1 .. n, NEW f, NEW g,
         \A j \in DOMAIN parts[i] : g[j] \in Int /\ f[Starts(parts)[i] + j] = g[j]
  PROVE  SumOver(f, PlacesIn(parts, i)) = SumOver(g, DOMAIN parts[i])
<1> DEFINE S == DOMAIN parts[i]
           T == PlacesIn(parts, i)
           m == Shift(parts, i)
<1>1. m \in Bijection(S, T) /\ IsFiniteSet(S)
  BY ShiftBijects
<1>2. \A j \in S : m[j] = Starts(parts)[i] + j
  BY DEF Shift
<1>3. \A t \in T : f[t] \in Int
  BY DEF PlacesIn
<1>4. \A j \in S : f[m[j]] = g[j]
  BY <1>2
<1> HIDE DEF S, T, m
<1>5. SumOver(f, T) = SumOver([s \in S |-> f[m[s]]], S)
  BY <1>1, <1>3, Reindexed
<1>6. SumOver([s \in S |-> f[m[s]]], S) = SumOver(g, S)
  <2> DEFINE h == [s \in S |-> f[m[s]]]
  <2>1. \A s \in S : h[s] = g[s]
    BY <1>4
  <2> HIDE DEF h
  <2>2. SumOver(h, S) = SumOver(g, S)
    BY <2>1, SumOverEqual
  <2> QED
    BY <2>2 DEF h
<1>7. SumOver(f, T) = SumOver(g, S)
  BY <1>5, <1>6
<1> QED
  BY <1>7 DEF S, T

\* What all rows come to is what the parts come to.
LEMMA PartsSum ==
  ASSUME NEW parts, NEW n, Parts(parts, n), NEW f, NEW h,
         \A k \in DOMAIN Concatenated(parts) : f[k] \in Int,
         \A i \in 1 .. n : h[i] = SumOver(f, PlacesIn(parts, i))
  PROVE  SumOver(f, DOMAIN Concatenated(parts)) = SumOver(h, 1 .. n)
<1> DEFINE S == DOMAIN Concatenated(parts)
           N == 1 .. n
           key == [k \in S |-> CHOOSE i \in N : k \in PlacesIn(parts, i)]
<1>1. IsFiniteSet(N) /\ IsFiniteSet(S)
  <2>1. n \in Nat
    BY DEF Parts
  <2> DEFINE total == Total([l \in DOMAIN parts |-> Len(parts[l])])
  <2>2. total \in Nat
    BY StartsRise
  <2>3. S = 1 .. total
    BY DEF Concatenated
  <2> HIDE DEF total
  <2> QED
    BY <2>1, <2>2, <2>3, UpToFinite
<1>2. ASSUME NEW k \in S PROVE \E i \in N : k \in PlacesIn(parts, i)
  BY PlaceFound DEF PlacesIn
<1>3. ASSUME NEW k \in S, NEW i \in N, k \in PlacesIn(parts, i), NEW l \in N, k \in PlacesIn(parts, l) PROVE i = l
  <2>1. PICK j \in DOMAIN parts[i] : k = Starts(parts)[i] + j
    BY <1>3 DEF PlacesIn
  <2>2. PICK m \in DOMAIN parts[l] : k = Starts(parts)[l] + m
    BY <1>3 DEF PlacesIn
  <2> QED
    BY <2>1, <2>2, PlaceOnce
<1>4. ASSUME NEW i \in N PROVE PlacesIn(parts, i) = Sharing(S, key, i)
  <2>1. PlacesIn(parts, i) \subseteq S
    BY ShiftBijects
  <2>2. \A k \in S : key[k] = i <=> k \in PlacesIn(parts, i)
    <3> SUFFICES ASSUME NEW k \in S PROVE key[k] = i <=> k \in PlacesIn(parts, i)
      OBVIOUS
    <3>1. key[k] \in N /\ k \in PlacesIn(parts, key[k])
      BY <1>2
    <3> HIDE DEF key
    <3> QED
      BY <1>3, <3>1
  <2> HIDE DEF key, S
  <2> QED
    BY <2>1, <2>2 DEF Sharing
<1>5. \A k \in S : key[k] \in N
  BY <1>2
<1> HIDE DEF S, N, key
<1>6. \A i \in N : h[i] = SumOver(f, Sharing(S, key, i))
  BY <1>4 DEF N
<1>7. \A k \in S : f[k] \in Int
  BY DEF S
<1>8. SharedOut(S, f, key, N, h)
  BY <1>1, <1>5, <1>6, <1>7, Zenon DEF SharedOut
<1>9. SumOver(f, S) = SumOver(h, N)
  BY <1>8, SharedSum
<1> QED
  BY <1>9 DEF S, N
\* The rows of a part are those of its date.
Dated(parts, n, dates) ==
  /\ Parts(parts, n)
  /\ \A i \in 1 .. n : \A j \in DOMAIN parts[i] : parts[i][j].date = dates[i]
  /\ \A i \in 1 .. n : \A h \in 1 .. n : dates[i] = dates[h] => i = h

LEMMA OfADate ==
  ASSUME NEW parts, NEW n, NEW dates, Dated(parts, n, dates), NEW i \in 1 .. n
  PROVE  {k \in DOMAIN Concatenated(parts) : Concatenated(parts)[k].date = dates[i]} = PlacesIn(parts, i)
<1> DEFINE D == DOMAIN Concatenated(parts)
<1>1. Parts(parts, n)
  BY DEF Dated
<1>2. PlacesIn(parts, i) \subseteq D
  BY <1>1, ShiftBijects
<1>3. ASSUME NEW k \in D PROVE Concatenated(parts)[k].date = dates[i] <=> k \in PlacesIn(parts, i)
  <2>0. PICK h \in 1 .. n : \E j \in DOMAIN parts[h] : k = Starts(parts)[h] + j
    BY <1>1, PlaceFound
  <2>1. PICK j \in DOMAIN parts[h] : k = Starts(parts)[h] + j
    BY <2>0
  <2>2. Concatenated(parts)[k] = parts[h][j]
    BY <1>1, <2>1, PlacesHold
  <2>3. Concatenated(parts)[k].date = dates[h]
    BY <2>2 DEF Dated
  <2>4. k \in PlacesIn(parts, h)
    BY <2>1 DEF PlacesIn
  <2>5. k \in PlacesIn(parts, i) => i = h
    <3> SUFFICES ASSUME k \in PlacesIn(parts, i) PROVE i = h
      OBVIOUS
    <3>1. PICK l \in DOMAIN parts[i] : k = Starts(parts)[i] + l
      BY DEF PlacesIn
    <3> QED
      BY <1>1, <2>1, <3>1, PlaceOnce
  <2>6. dates[h] = dates[i] => h = i
    BY DEF Dated
  <2> QED
    BY <2>3, <2>4, <2>5, <2>6
<1> HIDE DEF D
<1>4. {k \in D : Concatenated(parts)[k].date = dates[i]} = PlacesIn(parts, i)
  BY <1>2, <1>3
<1> QED
  BY <1>4 DEF D

\* A row's group is the group it had in its part.
LEMMA GroupOfPart ==
  ASSUME NEW parts, NEW n, NEW dates, Dated(parts, n, dates), NEW i \in 1 .. n, NEW j \in DOMAIN parts[i],
         \A l \in DOMAIN parts[i] : Notional(parts[i][l]) \in Int
  PROVE  GroupNotional(Concatenated(parts), Starts(parts)[i] + j) = GroupNotional(parts[i], j)
<1> DEFINE list == Concatenated(parts)
           K == Starts(parts)[i] + j
           S == Group(parts[i], j)
           T == Group(list, K)
           m == [l \in S |-> Starts(parts)[i] + l]
           f == [k \in DOMAIN list |-> Notional(list[k])]
           g == [l \in DOMAIN parts[i] |-> Notional(parts[i][l])]
<1>1. Parts(parts, n) /\ S \subseteq DOMAIN parts[i]
  BY DEF Dated, Group
<1>2. \A l \in DOMAIN parts[i] : Starts(parts)[i] + l \in DOMAIN list /\ list[Starts(parts)[i] + l] = parts[i][l]
  BY <1>1, PlacesHold
<1>3. K \in DOMAIN list /\ list[K] = parts[i][j] /\ list[K].date = dates[i]
  BY <1>2 DEF Dated
<1>4. ASSUME NEW l \in S PROVE m[l] \in T
  <2>1. l \in DOMAIN parts[i] /\ parts[i][l].sec = parts[i][j].sec /\ parts[i][l].date = parts[i][j].date
    BY DEF Group
  <2>2. m[l] \in DOMAIN list /\ list[m[l]] = parts[i][l]
    BY <1>2, <2>1
  <2> HIDE DEF m, K, list
  <2> QED
    BY <1>3, <2>1, <2>2 DEF Group
<1>5. ASSUME NEW k \in T PROVE \E l \in S : k = m[l]
  <2>1. k \in DOMAIN list /\ list[k].sec = list[K].sec /\ list[k].date = list[K].date
    BY DEF Group
  <2>2. k \in PlacesIn(parts, i)
    BY <1>3, <2>1, OfADate
  <2>3. PICK l \in DOMAIN parts[i] : k = Starts(parts)[i] + l
    BY <2>2 DEF PlacesIn
  <2>4. list[k] = parts[i][l]
    BY <1>2, <2>3
  <2>5. l \in S
    <3> HIDE DEF K, list
    <3> QED
      BY <1>3, <2>1, <2>4 DEF Group
  <2> QED
    BY <2>3, <2>5
<1>6. ASSUME NEW l \in S, NEW h \in S, m[l] = m[h] PROVE l = h
  <2>1. Starts(parts)[i] + l = Starts(parts)[i] + h /\ l \in DOMAIN parts[i] /\ h \in DOMAIN parts[i]
    BY <1>1, <1>6
  <2> QED
    BY <1>1, <2>1, PlaceOnce
<1>7. m \in Bijection(S, T)
  <2>1. m \in [S -> T]
    BY <1>4
  <2> HIDE DEF m, S, T
  <2>2. m \in Injection(S, T)
    BY <1>6, <2>1 DEF Injection, IsInjective
  <2>3. m \in Surjection(S, T)
    BY <1>5, <2>1 DEF Surjection
  <2> QED
    BY <2>2, <2>3 DEF Bijection
<1>8. IsFiniteSet(S)
  <2>1. IsFiniteSet(DOMAIN parts[i])
    BY <1>1, ShiftBijects
  <2> HIDE DEF S
  <2> QED
    BY <1>1, <2>1, FS_Subset
<1>9. \A l \in S : f[m[l]] = g[l] /\ g[l] \in Int
  <2> SUFFICES ASSUME NEW l \in S PROVE f[m[l]] = g[l] /\ g[l] \in Int
    OBVIOUS
  <2>1. l \in DOMAIN parts[i] /\ m[l] = Starts(parts)[i] + l
    BY <1>1
  <2>2. m[l] \in DOMAIN list /\ list[m[l]] = parts[i][l]
    BY <1>2, <2>1
  <2> HIDE DEF m, list, S
  <2> QED
    BY <2>1, <2>2
<1>10. \A k \in T : f[k] \in Int
  <2> HIDE DEF S, T, f, g, m
  <2> QED
    BY <1>5, <1>9
<1>11. GroupNotional(list, K) = SumOver(f, T) /\ GroupNotional(parts[i], j) = SumOver(g, S)
  BY Zenon DEF GroupNotional
<1> HIDE DEF S, T, m, f, g, list, K
<1>12. SumOver(f, T) = SumOver([s \in S |-> f[m[s]]], S)
  BY <1>7, <1>8, <1>10, Reindexed
<1>13. SumOver([s \in S |-> f[m[s]]], S) = SumOver(g, S)
  <2> DEFINE h == [s \in S |-> f[m[s]]]
  <2>1. \A s \in S : h[s] = g[s]
    BY <1>9
  <2> HIDE DEF h
  <2>2. SumOver(h, S) = SumOver(g, S)
    BY <2>1, SumOverEqual
  <2> QED
    BY <2>2 DEF h
<1>14. GroupNotional(list, K) = GroupNotional(parts[i], j)
  BY <1>11, <1>12, <1>13
<1> QED
  BY <1>14 DEF list, K

\* A row is priced as it was in its part.
LEMMA PricedAsInPart ==
  ASSUME NEW cost, NEW aum, NEW parts, NEW n, NEW dates, Dated(parts, n, dates), NEW i \in 1 .. n,
         NEW j \in DOMAIN parts[i], \A l \in DOMAIN parts[i] : Notional(parts[i][l]) \in Int
  PROVE  PriceTrades(cost, Concatenated(parts), aum)[Starts(parts)[i] + j] = PriceTrades(cost, parts[i], aum)[j]
<1> DEFINE list == Concatenated(parts)
           K == Starts(parts)[i] + j
<1>1. Parts(parts, n)
  BY DEF Dated
<1>2. K \in DOMAIN list /\ list[K] = parts[i][j]
  BY <1>1, PlacesHold
<1>3. GroupNotional(list, K) = GroupNotional(parts[i], j)
  BY GroupOfPart
<1>4. GroupSize(cost, list, K) = GroupSize(cost, parts[i], j)
  <2> HIDE DEF list, K
  <2> QED
    BY <1>2, <1>3 DEF GroupSize
<1>5. PriceTrades(cost, list, aum)[K] = PriceTrade(cost, list[K], aum, GroupSize(cost, list, K))
  <2> HIDE DEF list, K
  <2> QED
    BY <1>2, Zenon DEF PriceTrades, GroupSize
<1>6. PriceTrades(cost, parts[i], aum)[j] = PriceTrade(cost, parts[i][j], aum, GroupSize(cost, parts[i], j))
  BY Zenon DEF PriceTrades, GroupSize
<1>7. PriceTrades(cost, list, aum)[K] = PriceTrades(cost, parts[i], aum)[j]
  <2> HIDE DEF list, K
  <2> QED
    BY <1>2, <1>4, <1>5, <1>6, Zenon
<1> QED
  BY <1>7 DEF list, K
\* What the marks of the short book accrue.
AccrualsOf(cost, shorts) == [j \in DOMAIN shorts |-> Accrue(cost, shorts[j])]

LEMMA RunAddsUp ==
  ASSUME NEW cost, NEW trades, NEW shorts, NEW aum
  PROVE  /\ Run(cost, trades, shorts, aum).totals = Totals(PriceTrades(cost, trades, aum), AccrualsOf(cost, shorts))
         /\ Run(cost, trades, shorts, aum).periods
              = AggregatePeriods(PriceTrades(cost, trades, aum), AccrualsOf(cost, shorts))
  BY Zenon DEF Run, AccrualsOf

LEMMA RowsOfRun ==
  ASSUME NEW cost, NEW trades, NEW aum
  PROVE  /\ DOMAIN PriceTrades(cost, trades, aum) = DOMAIN trades
         /\ \A k \in DOMAIN trades : PriceTrades(cost, trades, aum)[k].trade = trades[k]
<1>1. DOMAIN PriceTrades(cost, trades, aum) = DOMAIN trades
  BY DEF PriceTrades
<1>2. ASSUME NEW k \in DOMAIN trades PROVE PriceTrades(cost, trades, aum)[k].trade = trades[k]
  <2>1. PriceTrades(cost, trades, aum)[k] = PriceTrade(cost, trades[k], aum, GroupSize(cost, trades, k))
    BY Zenon DEF PriceTrades, GroupSize
  <2>2. \A t, g : PriceTrade(cost, t, aum, g).trade = t
    BY DEF PriceTrade
  <2> QED
    BY <2>1, <2>2
<1> QED
  BY <1>1, <1>2

LEMMA MarksOfRun ==
  ASSUME NEW cost, NEW shorts
  PROVE  /\ DOMAIN AccrualsOf(cost, shorts) = DOMAIN shorts
         /\ \A k \in DOMAIN shorts : /\ AccrualsOf(cost, shorts)[k] = Accrue(cost, shorts[k])
                                     /\ AccrualsOf(cost, shorts)[k].mark = shorts[k]
<1>1. \A m : Accrue(cost, m).mark = m
  BY DEF Accrue
<1> QED
  BY <1>1 DEF AccrualsOf

\* Months of trades and marks, each on its date, that come to whole figures.
MonthsOf(cost, aum, trades, shorts, n, dates) ==
  /\ Dated(trades, n, dates) /\ Dated(shorts, n, dates)
  /\ \A i \in 1 .. n : \A j \in DOMAIN trades[i] :
       /\ Notional(trades[i][j]) \in Int
       /\ \A b \in TradeBuckets : PriceTrades(cost, trades[i], aum)[j].by[b] \in Int
  /\ \A i \in 1 .. n : \A j \in DOMAIN shorts[i] : Accrue(cost, shorts[i][j]).amount \in Int

\* The rows that a bucket adds up.
Rows(trades, shorts, b) == IF b = "borrow" THEN shorts ELSE trades

LEMMA ColumnOfPart ==
  ASSUME NEW cost, NEW aum, NEW trades, NEW shorts, NEW n, NEW dates, MonthsOf(cost, aum, trades, shorts, n, dates),
         NEW i \in 1 .. n, NEW b \in Buckets, NEW j \in DOMAIN Rows(trades, shorts, b)[i],
         NEW costs, costs = PriceTrades(cost, Concatenated(trades), aum),
         NEW accruals, accruals = AccrualsOf(cost, Concatenated(shorts)),
         NEW ci, ci = PriceTrades(cost, trades[i], aum), NEW ai, ai = AccrualsOf(cost, shorts[i])
  PROVE  /\ Column(costs, accruals, b)[Starts(Rows(trades, shorts, b))[i] + j] = Column(ci, ai, b)[j]
         /\ Column(ci, ai, b)[j] \in Int
<1>1. CASE b = "borrow"
  <2> DEFINE K == Starts(shorts)[i] + j
             marks == Concatenated(shorts)
  <2>1. Parts(shorts, n) /\ Rows(trades, shorts, b) = shorts
    BY <1>1 DEF MonthsOf, Dated, Rows
  <2>2. K \in DOMAIN marks /\ marks[K] = shorts[i][j] /\ j \in DOMAIN shorts[i]
    BY <2>1, PlacesHold
  <2> HIDE DEF K, marks
  <2>3. accruals[K] = Accrue(cost, marks[K]) /\ DOMAIN accruals = DOMAIN marks
        /\ ai[j] = Accrue(cost, shorts[i][j]) /\ DOMAIN ai = DOMAIN shorts[i]
    <3>1. accruals = AccrualsOf(cost, marks) /\ ai = AccrualsOf(cost, shorts[i])
      BY DEF marks
    <3> QED
      BY <2>2, <3>1, RowsOfRun, MarksOfRun
  <2>4. Column(costs, accruals, b)[K] = accruals[K].amount /\ Column(ci, ai, b)[j] = ai[j].amount
    BY <1>1, <2>2, <2>3 DEF Column
  <2>5. Accrue(cost, shorts[i][j]).amount \in Int
    BY <2>2 DEF MonthsOf
  <2>6. Column(costs, accruals, b)[K] = Column(ci, ai, b)[j] /\ Column(ci, ai, b)[j] \in Int
    BY <2>2, <2>3, <2>4, <2>5
  <2> QED
    BY <2>1, <2>6 DEF K
<1>2. CASE b # "borrow"
  <2> DEFINE K == Starts(trades)[i] + j
             list == Concatenated(trades)
  <2>1. Parts(trades, n) /\ Rows(trades, shorts, b) = trades /\ Dated(trades, n, dates) /\ b \in TradeBuckets
    BY <1>2 DEF MonthsOf, Dated, Rows, Buckets
  <2>2. K \in DOMAIN list /\ j \in DOMAIN trades[i]
    BY <2>1, PlacesHold
  <2>3. costs[K] = ci[j]
    <3>1. \A l \in DOMAIN trades[i] : Notional(trades[i][l]) \in Int
      BY DEF MonthsOf
    <3> QED
      BY <2>1, <2>2, <3>1, PricedAsInPart
  <2>4. DOMAIN costs = DOMAIN list /\ DOMAIN ci = DOMAIN trades[i]
    BY RowsOfRun, MarksOfRun
  <2> HIDE DEF K, list
  <2>5. Column(costs, accruals, b)[K] = costs[K].by[b] /\ Column(ci, ai, b)[j] = ci[j].by[b]
    BY <1>2, <2>2, <2>4 DEF Column
  <2>6. ci[j].by[b] \in Int
    BY <2>1, <2>2 DEF MonthsOf
  <2>7. Column(costs, accruals, b)[K] = Column(ci, ai, b)[j] /\ Column(ci, ai, b)[j] \in Int
    BY <2>3, <2>5, <2>6
  <2> QED
    BY <2>1, <2>7 DEF K
<1> QED
  BY <1>1, <1>2

LEMMA SameTotals ==
  ASSUME NEW costs, NEW accruals, NEW I, NEW J, NEW a, NEW c, NEW P, NEW Q,
         NEW f, f = TotalsOf(costs, accruals, I, J), NEW g, g = TotalsOf(a, c, P, Q),
         \A b \in Buckets : f[b] = g[b]
  PROVE  f = g
<1>1. DOMAIN f = Buckets /\ DOMAIN g = Buckets
  BY Zenon DEF TotalsOf, Buckets
<1>2. f = [b \in DOMAIN f |-> f[b]] /\ g = [b \in DOMAIN g |-> g[b]]
  BY DEF TotalsOf
<1> QED
  BY <1>1, <1>2

\* The charges of a date are those of its month.
LEMMA DateIsPart ==
  ASSUME NEW cost, NEW aum, NEW trades, NEW shorts, NEW n, NEW dates, MonthsOf(cost, aum, trades, shorts, n, dates),
         NEW i \in 1 .. n,
         NEW costs, costs = PriceTrades(cost, Concatenated(trades), aum),
         NEW accruals, accruals = AccrualsOf(cost, Concatenated(shorts)),
         NEW ci, ci = PriceTrades(cost, trades[i], aum), NEW ai, ai = AccrualsOf(cost, shorts[i])
  PROVE  /\ TradesOn(costs, dates[i]) = PlacesIn(trades, i) /\ MarksOn(accruals, dates[i]) = PlacesIn(shorts, i)
         /\ \A b \in Buckets : SumOver(Column(costs, accruals, b), PlacesIn(Rows(trades, shorts, b), i))
                                 = SumOver(Column(ci, ai, b), Places(ci, ai, b))
         /\ TotalsOf(costs, accruals, PlacesIn(trades, i), PlacesIn(shorts, i)) = Totals(ci, ai)
<1> DEFINE list == Concatenated(trades)
           marks == Concatenated(shorts)
<1>1. Dated(trades, n, dates) /\ Dated(shorts, n, dates) /\ Parts(trades, n) /\ Parts(shorts, n)
  BY DEF MonthsOf, Dated
<1>2. TradesOn(costs, dates[i]) = PlacesIn(trades, i)
  <2>1. {k \in DOMAIN list : list[k].date = dates[i]} = PlacesIn(trades, i)
    BY <1>1, OfADate
  <2> HIDE DEF list
  <2>2. costs = PriceTrades(cost, list, aum)
    BY DEF list
  <2>3. DOMAIN costs = DOMAIN list /\ \A k \in DOMAIN list : costs[k].trade = list[k]
    BY <2>2, RowsOfRun, MarksOfRun
  <2> QED
    BY <2>1, <2>3 DEF TradesOn
<1>3. MarksOn(accruals, dates[i]) = PlacesIn(shorts, i)
  <2>1. {k \in DOMAIN marks : marks[k].date = dates[i]} = PlacesIn(shorts, i)
    BY <1>1, OfADate
  <2> HIDE DEF marks
  <2>2. accruals = AccrualsOf(cost, marks)
    BY DEF marks
  <2>3. DOMAIN accruals = DOMAIN marks /\ \A k \in DOMAIN marks : accruals[k].mark = marks[k]
    BY <2>2, RowsOfRun, MarksOfRun
  <2> QED
    BY <2>1, <2>3 DEF MarksOn
<1>4. ASSUME NEW b \in Buckets
      PROVE  SumOver(Column(costs, accruals, b), PlacesIn(Rows(trades, shorts, b), i))
               = SumOver(Column(ci, ai, b), Places(ci, ai, b))
  <2> DEFINE parts == Rows(trades, shorts, b)
             f == Column(costs, accruals, b)
             g == Column(ci, ai, b)
  <2>1. Parts(parts, n)
    BY <1>1 DEF Rows
  <2>2. \A j \in DOMAIN parts[i] : g[j] \in Int /\ f[Starts(parts)[i] + j] = g[j]
    BY ColumnOfPart
  <2>3. Places(ci, ai, b) = DOMAIN parts[i]
    <3>1. DOMAIN ci = DOMAIN trades[i] /\ DOMAIN ai = DOMAIN shorts[i]
      BY RowsOfRun, MarksOfRun
    <3> QED
      BY <3>1 DEF Places, Rows
  <2> HIDE DEF parts, f, g
  <2>4. SumOver(f, PlacesIn(parts, i)) = SumOver(g, DOMAIN parts[i])
    BY <2>1, <2>2, PartSum
  <2>5. SumOver(f, PlacesIn(parts, i)) = SumOver(g, Places(ci, ai, b))
    BY <2>3, <2>4
  <2> QED
    BY <2>5 DEF parts, f, g
<1>5. TotalsOf(costs, accruals, PlacesIn(trades, i), PlacesIn(shorts, i)) = Totals(ci, ai)
  <2> DEFINE I == PlacesIn(trades, i)
             J == PlacesIn(shorts, i)
  <2>1. ASSUME NEW b \in Buckets
        PROVE  TotalsOf(costs, accruals, I, J)[b] = Totals(ci, ai)[b]
    <3>1. \A P, Q : TotalsOf(costs, accruals, P, Q)[b]
                      = SumOver(Column(costs, accruals, b), IF b = "borrow" THEN Q ELSE P)
      BY Zenon DEF TotalsOf, Column, Buckets
    <3>2. Totals(ci, ai)[b] = SumOver(Column(ci, ai, b), Places(ci, ai, b))
      BY TotalsAre
    <3>3. PlacesIn(Rows(trades, shorts, b), i) = IF b = "borrow" THEN J ELSE I
      BY DEF Rows
    <3> QED
      BY <1>4, <3>1, <3>2, <3>3
  <2>2. Totals(ci, ai) = TotalsOf(ci, ai, DOMAIN ci, DOMAIN ai)
    BY DEF Totals
  <2> HIDE DEF I, J
  <2>3. TotalsOf(costs, accruals, I, J) = Totals(ci, ai)
    BY <2>1, <2>2, SameTotals
  <2> QED
    BY <2>3 DEF I, J
<1> QED
  BY <1>2, <1>3, <1>4, <1>5
\* What the runs of the months come to, and the run over all of them.
RunsOf(cost, aum, trades, shorts, n) == [i \in 1 .. n |-> Run(cost, trades[i], shorts[i], aum)]
AddUp(whole, month, trades, shorts, n, dates) ==
  /\ \A b \in Buckets : whole.totals[b] = SumOver([i \in 1 .. n |-> month[i].totals[b]], 1 .. n)
  /\ \A i \in 1 .. n : /\ dates[i] \in DOMAIN whole.periods <=> DOMAIN trades[i] \cup DOMAIN shorts[i] # {}
                       /\ dates[i] \in DOMAIN whole.periods => whole.periods[dates[i]] = month[i].totals
                       /\ WholeRow(month[i].totals)
  /\ DOMAIN whole.periods \subseteq {dates[i] : i \in 1 .. n}

\* One run over all months' trades and marks charges what the months' runs did:
\* in total the sum of them, by bucket, and on each month's date what the month
\* was charged, a month without trades and marks having no row of its own.
THEOREM MonthsAddUp ==
  ASSUME NEW cost, NEW aum, NEW trades, NEW shorts, NEW n, NEW dates, MonthsOf(cost, aum, trades, shorts, n, dates),
         NEW whole, whole = Run(cost, Concatenated(trades), Concatenated(shorts), aum),
         NEW month, month = RunsOf(cost, aum, trades, shorts, n)
  PROVE  AddUp(whole, month, trades, shorts, n, dates)
<1> DEFINE list == Concatenated(trades)
           marks == Concatenated(shorts)
           costs == PriceTrades(cost, list, aum)
           accruals == AccrualsOf(cost, marks)
           ci(i) == PriceTrades(cost, trades[i], aum)
           ai(i) == AccrualsOf(cost, shorts[i])
<1>1. Dated(trades, n, dates) /\ Dated(shorts, n, dates) /\ Parts(trades, n) /\ Parts(shorts, n)
  BY DEF MonthsOf, Dated
<1>2. whole.totals = Totals(costs, accruals) /\ whole.periods = AggregatePeriods(costs, accruals)
  BY RunAddsUp
<1>3. ASSUME NEW i \in 1 .. n PROVE month[i].totals = Totals(ci(i), ai(i))
  <2>1. month[i] = Run(cost, trades[i], shorts[i], aum)
    BY Zenon DEF RunsOf
  <2> QED
    BY <2>1, RunAddsUp
<1>4. DOMAIN costs = DOMAIN list /\ DOMAIN accruals = DOMAIN marks
      /\ (\A k \in DOMAIN list : costs[k].trade = list[k]) /\ \A k \in DOMAIN marks : accruals[k].mark = marks[k]
  <2> HIDE DEF list, marks
  <2> QED
    BY RowsOfRun, MarksOfRun
<1>5. ASSUME NEW i \in 1 .. n
      PROVE  /\ TradesOn(costs, dates[i]) = PlacesIn(trades, i) /\ MarksOn(accruals, dates[i]) = PlacesIn(shorts, i)
             /\ \A b \in Buckets : SumOver(Column(costs, accruals, b), PlacesIn(Rows(trades, shorts, b), i))
                                     = SumOver(Column(ci(i), ai(i), b), Places(ci(i), ai(i), b))
             /\ TotalsOf(costs, accruals, PlacesIn(trades, i), PlacesIn(shorts, i)) = Totals(ci(i), ai(i))
  <2> DEFINE c == costs
             a == accruals
             p == ci(i)
             q == ai(i)
  <2>1. /\ c = PriceTrades(cost, Concatenated(trades), aum) /\ a = AccrualsOf(cost, Concatenated(shorts))
        /\ p = PriceTrades(cost, trades[i], aum) /\ q = AccrualsOf(cost, shorts[i])
    OBVIOUS
  <2> HIDE DEF c, a, p, q
  <2>2. /\ TradesOn(c, dates[i]) = PlacesIn(trades, i) /\ MarksOn(a, dates[i]) = PlacesIn(shorts, i)
        /\ \A b \in Buckets : SumOver(Column(c, a, b), PlacesIn(Rows(trades, shorts, b), i))
                                = SumOver(Column(p, q, b), Places(p, q, b))
        /\ TotalsOf(c, a, PlacesIn(trades, i), PlacesIn(shorts, i)) = Totals(p, q)
    BY <2>1, DateIsPart
  <2> QED
    BY <2>2 DEF c, a, p, q
<1>6. ASSUME NEW b \in Buckets
      PROVE  /\ whole.totals[b] = SumOver([i \in 1 .. n |-> month[i].totals[b]], 1 .. n)
             /\ \A i \in 1 .. n : month[i].totals[b] \in Int
  <2> DEFINE parts == Rows(trades, shorts, b)
             f == Column(costs, accruals, b)
             h == [i \in 1 .. n |-> month[i].totals[b]]
             S == DOMAIN Concatenated(parts)
  <2>1. Parts(parts, n)
    BY <1>1 DEF Rows
  <2>2. whole.totals[b] = SumOver(f, Places(costs, accruals, b))
    <3>1. Totals(costs, accruals)[b] = SumOver(Column(costs, accruals, b), Places(costs, accruals, b))
      BY TotalsAre
    <3> QED
      BY <1>2, <3>1, Zenon
  <2>3. Places(costs, accruals, b) = S
    BY <1>4 DEF Places, Rows
  <2>4. ASSUME NEW i \in 1 .. n PROVE h[i] = SumOver(f, PlacesIn(parts, i))
    <3>1. h[i] = month[i].totals[b]
      OBVIOUS
    <3> DEFINE p == ci(i)
               q == ai(i)
    <3>2. month[i].totals = Totals(p, q)
      BY <1>3
    <3>3. SumOver(f, PlacesIn(parts, i)) = SumOver(Column(p, q, b), Places(p, q, b))
      BY <1>5
    <3> HIDE DEF h, f, parts, p, q
    <3>4. Totals(p, q)[b] = SumOver(Column(p, q, b), Places(p, q, b))
      BY TotalsAre
    <3> QED
      BY <3>1, <3>2, <3>3, <3>4, Zenon
  <2>5. ASSUME NEW k \in S PROVE f[k] \in Int
    <3>1. PICK i \in 1 .. n : \E j \in DOMAIN parts[i] : k = Starts(parts)[i] + j
      <4> HIDE DEF parts
      <4> QED
        BY <2>1, PlaceFound
    <3>2. PICK j \in DOMAIN parts[i] : k = Starts(parts)[i] + j
      BY <3>1
    <3> DEFINE p == ci(i)
               q == ai(i)
               c == costs
               a == accruals
    <3>3. /\ c = PriceTrades(cost, Concatenated(trades), aum) /\ a = AccrualsOf(cost, Concatenated(shorts))
          /\ p = PriceTrades(cost, trades[i], aum) /\ q = AccrualsOf(cost, shorts[i])
      OBVIOUS
    <3>4. f = Column(c, a, b)
      OBVIOUS
    <3> HIDE DEF c, a, p, q, f
    <3>5. /\ Column(c, a, b)[Starts(Rows(trades, shorts, b))[i] + j] = Column(p, q, b)[j]
          /\ Column(p, q, b)[j] \in Int
      BY <3>3, ColumnOfPart
    <3> QED
      BY <3>2, <3>4, <3>5
  <2>6. \A i \in 1 .. n : h[i] = month[i].totals[b]
    OBVIOUS
  <2>7. \A i \in 1 .. n : PlacesIn(parts, i) \subseteq S
    <3> HIDE DEF parts
    <3> QED
      BY <2>1, ShiftBijects
  <2>10. IsFiniteSet(S)
    <3> DEFINE total == Total([l \in DOMAIN parts |-> Len(parts[l])])
    <3> HIDE DEF parts
    <3>1. total \in Nat
      BY <2>1, StartsRise
    <3>2. S = 1 .. total
      BY DEF Concatenated
    <3> HIDE DEF total
    <3> QED
      BY <3>1, <3>2, UpToFinite
  <2> HIDE DEF h, f
  <2>8. SumOver(f, S) = SumOver(h, 1 .. n)
    <3> HIDE DEF parts
    <3> QED
      BY <2>1, <2>4, <2>5, PartsSum
  <2>9. \A i \in 1 .. n : month[i].totals[b] \in Int
    <3> SUFFICES ASSUME NEW i \in 1 .. n PROVE month[i].totals[b] \in Int
      OBVIOUS
    <3> DEFINE T == PlacesIn(parts, i)
    <3>1. IsFiniteSet(T) /\ \A k \in T : f[k] \in Int
      <4>1. T \in SUBSET S
        BY <2>7
      <4> HIDE DEF T, S
      <4> QED
        BY <2>5, <2>10, <4>1, FS_Subset
    <3>2. month[i].totals[b] = SumOver(f, T)
      BY <2>4, <2>6
    <3> HIDE DEF T
    <3>3. SumOver(f, T) \in Int
      BY <3>1, SumOverWhole
    <3> QED
      BY <3>2, <3>3
  <2> HIDE DEF S
  <2>11. whole.totals[b] = SumOver(h, 1 .. n)
    BY <2>2, <2>3, <2>8
  <2> QED
    BY <2>9, <2>11 DEF h
<1>7. DOMAIN whole.periods = TradeDates(costs) \cup MarkDates(accruals)
  BY <1>2 DEF AggregatePeriods
<1>8. ASSUME NEW i \in 1 .. n
      PROVE  /\ dates[i] \in DOMAIN whole.periods <=> DOMAIN trades[i] \cup DOMAIN shorts[i] # {}
             /\ dates[i] \in DOMAIN whole.periods => whole.periods[dates[i]] = month[i].totals
             /\ WholeRow(month[i].totals)
  <2>1. dates[i] \in TradeDates(costs) <=> TradesOn(costs, dates[i]) # {}
    BY DEF TradeDates, TradesOn
  <2>2. dates[i] \in MarkDates(accruals) <=> MarksOn(accruals, dates[i]) # {}
    BY DEF MarkDates, MarksOn
  <2>3. (PlacesIn(trades, i) # {} <=> DOMAIN trades[i] # {}) /\ (PlacesIn(shorts, i) # {} <=> DOMAIN shorts[i] # {})
    BY DEF PlacesIn
  <2>4. TradesOn(costs, dates[i]) = PlacesIn(trades, i) /\ MarksOn(accruals, dates[i]) = PlacesIn(shorts, i)
        /\ TotalsOf(costs, accruals, PlacesIn(trades, i), PlacesIn(shorts, i)) = Totals(ci(i), ai(i))
    BY <1>5
  <2>5. month[i].totals = Totals(ci(i), ai(i))
    BY <1>3
  <2> HIDE DEF costs, accruals, ci, ai
  <2>6. dates[i] \in DOMAIN whole.periods <=> DOMAIN trades[i] \cup DOMAIN shorts[i] # {}
    BY <1>7, <2>1, <2>2, <2>3, <2>4
  <2>7. ASSUME dates[i] \in DOMAIN whole.periods PROVE whole.periods[dates[i]] = month[i].totals
    <3> DEFINE d == dates[i]
    <3>1. d \in TradeDates(costs) \cup MarkDates(accruals)
      BY <1>7, <2>7
    <3> HIDE DEF d
    <3>2. whole.periods[d] = TotalsOf(costs, accruals, TradesOn(costs, d), MarksOn(accruals, d))
      BY <1>2, <3>1, Zenon DEF AggregatePeriods
    <3> QED
      BY <2>4, <2>5, <3>2, Zenon DEF d
  <2>8. WholeRow(month[i].totals)
    BY <1>6, Zenon DEF WholeRow
  <2> QED
    BY <2>6, <2>7, <2>8
<1>9. ASSUME NEW d \in DOMAIN whole.periods PROVE \E i \in 1 .. n : d = dates[i]
  <2>1. CASE d \in TradeDates(costs)
    <3>1. PICK k \in DOMAIN list : d = list[k].date
      <4> HIDE DEF list, costs
      <4> QED
        BY <1>4, <2>1 DEF TradeDates
    <3>2. PICK i \in 1 .. n : \E j \in DOMAIN trades[i] : k = Starts(trades)[i] + j
      BY <1>1, <3>1, PlaceFound
    <3>3. PICK j \in DOMAIN trades[i] : k = Starts(trades)[i] + j
      BY <3>2
    <3>4. list[k] = trades[i][j]
      BY <1>1, <3>3, PlacesHold
    <3> QED
      BY <1>1, <3>1, <3>4 DEF Dated
  <2>2. CASE d \in MarkDates(accruals)
    <3>1. PICK k \in DOMAIN marks : d = marks[k].date
      <4> HIDE DEF marks, accruals
      <4> QED
        BY <1>4, <2>2 DEF MarkDates
    <3>2. PICK i \in 1 .. n : \E j \in DOMAIN shorts[i] : k = Starts(shorts)[i] + j
      BY <1>1, <3>1, PlaceFound
    <3>3. PICK j \in DOMAIN shorts[i] : k = Starts(shorts)[i] + j
      BY <3>2
    <3>4. marks[k] = shorts[i][j]
      BY <1>1, <3>3, PlacesHold
    <3> QED
      BY <1>1, <3>1, <3>4 DEF Dated
  <2> HIDE DEF costs, accruals
  <2> QED
    BY <1>7, <2>1, <2>2
<1>10. DOMAIN whole.periods \subseteq {dates[i] : i \in 1 .. n}
  BY <1>9
<1> QED
  BY <1>6, <1>8, <1>10, Zenon DEF AddUp
-----------------------------------------------------------------------------
(* The months of a run.                                                       *)

LEMMA StackPlain ==
  ASSUME NEW cost \in Stacks
  PROVE  cost.scaling = None /\ cost.commission \in {3, None}
<1>1. \A fee : StackWith(fee).scaling = None /\ StackWith(fee).commission = 3
  BY DEF StackWith
<1>2. \A c : VersionStack(c).scaling = None /\ VersionStack(c).commission = None
  BY DEF VersionStack
<1>3. (\E fee \in Fees : cost = StackWith(fee)) \/ \E c \in Sections : cost = VersionStack(c)
  BY DEF Stacks
<1> QED
  BY <1>1, <1>2, <1>3

\* What a stack of the run charges a row is a whole figure.
LEMMA RowWhole ==
  ASSUME NEW cost \in Stacks, NEW list, NEW n \in Nat, DOMAIN list = 1 .. n,
         \A l \in 1 .. n : TypedTrade(list[l]) /\ list[l].adv = 6 /\ list[l].spread = 4,
         NEW j \in 1 .. n, NEW b \in TradeBuckets
  PROVE  PriceTrades(cost, list, 1)[j].by[b] \in Int
<1> DEFINE t == list[j]
           g == GroupSize(cost, list, j)
<1>1. TypedStack(cost) /\ TypedTrade(t) /\ 1 \in Nat
  BY StacksTyped
<1>2. g \in Nat
  <2> DEFINE f == [k \in DOMAIN list |-> Notional(list[k])]
             S == Group(list, j)
  <2>1. \A k \in 1 .. n : Notional(list[k]) \in Nat
    BY AbsInt DEF TypedTrade, Notional
  <2>2. S \in SUBSET (1 .. n)
    BY DEF Group
  <2>3. \A k \in S : f[k] \in Nat
    BY <2>1, <2>2
  <2>4. GroupNotional(list, j) = SumOver(f, S)
    BY Zenon DEF GroupNotional
  <2> HIDE DEF f, S
  <2>5. IsFiniteSet(1 .. n)
    BY UpToFinite
  <2>6. IsFiniteSet(S)
    BY <2>2, <2>5, FS_Subset
  <2>7. SumOver(f, S) \in Nat
    BY <2>3, <2>6, SumOverNat
  <2> QED
    BY <2>1, <2>4, <2>7 DEF GroupSize
<1>3. CASE b \in Sliceable
  <2>1. TradeErrors(cost, t) = {}
    <3>1. t.adv = 6 /\ t.spread = 4
      OBVIOUS
    <3> HIDE DEF t
    <3>2. t.adv # None /\ t.spread # None /\ t.adv # 0
      BY <3>1, NoFigure
    <3> QED
      BY <3>2, Zenon DEF TradeErrors
  <2>2. /\ SliceOf(Half1(t), t) /\ SliceOf(Half2(t), t) /\ Notional(t) = Notional(Half1(t)) + Notional(Half2(t))
    BY <1>1, HalvesSlice
  <2> DEFINE u == Half1(t)
             v == Half2(t)
  <2> HIDE DEF t, g, u, v
  <2>3. SliceOf(u, t) /\ SliceOf(v, t) /\ Notional(t) = Notional(u) + Notional(v)
    BY <2>2 DEF u, v
  <2>4. ChargeOf(cost, t, g, b) \in Nat
    BY <1>1, <1>2, <1>3, <2>1, <2>3, SlicesCharge
  <2>5. ChargeOf(cost, list[j], GroupSize(cost, list, j), b) \in Nat
    BY <2>4 DEF t, g
  <2>6. /\ ScaleOf(cost, list[j], 1, b) \in Nat
        /\ BucketOf(cost, list, 1, j, b) = ChargeOf(cost, list[j], GroupSize(cost, list, j), b) * ScaleOf(cost, list[j], 1, b)
    BY <1>1, <1>3, <2>5, RowPriced
  <2>7. BucketOf(cost, list, 1, j, b) \in Int
    BY <2>5, <2>6
  <2> QED
    BY <2>7, Zenon DEF BucketOf
<1>4. CASE b \notin Sliceable
  <2>1. b = "commission"
    BY <1>4 DEF Sliceable
  <2> DEFINE m == ScaleOf(cost, t, 1, "commission")
             c == Commission(cost, t)
  <2>2. m \in Int
    BY StacksTyped
  <2>3. c \in Int
    <3>1. cost.commission \in {3, None}
      BY StackPlain
    <3> QED
      BY <3>1 DEF Commission
  <2>4. PriceTrades(cost, list, 1)[j] = PriceTrade(cost, t, 1, g)
    BY Zenon DEF PriceTrades, GroupSize
  <2> DEFINE r == RateFor(1, cost.multipliers, t.region)
             f == IF cost.scaling # None /\ "commission" \in cost.scaling.buckets
                  THEN Power(1 \div cost.scaling.reference, cost.scaling.exponent) ELSE 1
             charge == [commission |-> c, spread |-> HalfSpread(cost, t),
                        linear |-> Linear(cost, t), impact |-> Impact(cost, t, g), penalty |-> Penalty(cost, t, g)]
  <2>5. PriceTrade(cost, t, 1, g).by["commission"] = charge["commission"] * r * f
    <3>1. "commission" \in TradeBuckets
      BY DEF TradeBuckets
    <3> HIDE DEF t, g
    <3> QED
      BY <3>1, Zenon DEF PriceTrade
  <2>6. charge["commission"] = c
    OBVIOUS
  <2>7. r \in Nat
    BY <1>1 DEF TypedStack, RateFor
  <2>8. f = 1
    <3>1. cost.scaling = None
      BY StackPlain
    <3> QED
      BY <3>1
  <2> HIDE DEF charge, r, f, c, t, g
  <2>9. PriceTrades(cost, list, 1)[j].by["commission"] = c * r * f
    BY <2>4, <2>5, <2>6, Zenon
  <2>10. c * r * f \in Int
    BY <2>3, <2>7, <2>8
  <2> QED
    BY <2>1, <2>9, <2>10
<1> QED
  BY <1>3, <1>4

\* The rows and the mark of one month.
LEMMA MonthRows ==
  ASSUME NEW list, NamedBook(list), NEW date, NEW table, table = Trades(list, date, Attributes)
  PROVE  /\ Len(table) \in Nat /\ DOMAIN table = 1 .. Len(table)
         /\ \A j \in DOMAIN table : /\ TypedTrade(table[j]) /\ table[j].adv = 6 /\ table[j].spread = 4
                                    /\ table[j].date = date /\ Notional(table[j]) \in Nat
<1>1. PICK n \in Nat : /\ DOMAIN table = 1 .. n
                       /\ \A j \in 1 .. n : TypedTrade(table[j]) /\ table[j].adv = 6 /\ table[j].spread = 4
  BY TradeRows
<1>2. table = [j \in DOMAIN table |-> table[j]] /\ \A j \in DOMAIN table : table[j].date = date
  <2> DEFINE ids == InOrder(DOMAIN list, <)
  <2>1. table = [i \in DOMAIN ids |->
                 [sec |-> ids[i], date |-> date, signed |-> list[ids[i]],
                  region |-> Attributes[ids[i]].region, adv |-> Attributes[ids[i]].adv,
                  spread |-> Attributes[ids[i]].spread]]
    BY Zenon DEF Trades
  <2> HIDE DEF ids
  <2> QED
    BY <2>1
<1>3. Len(table) = n
  <2> DEFINE S == {table[j] : j \in 1 .. n}
  <2>1. table \in [1 .. n -> S]
    BY <1>1, <1>2
  <2> HIDE DEF S
  <2>2. table \in Seq(S)
    BY <2>1
  <2> QED
    BY <1>1, <2>2
<1>4. \A j \in 1 .. n : Notional(table[j]) \in Nat
  BY <1>1, AbsInt DEF TypedTrade, Notional
<1> QED
  BY <1>1, <1>2, <1>3, <1>4

MarksAre(cost, short, date, marks) ==
  /\ Len(marks) \in Nat /\ DOMAIN marks = 1 .. Len(marks)
  /\ \A j \in DOMAIN marks : /\ marks[j].date = date /\ Accrue(cost, marks[j]).amount \in Int
                             /\ marks[j].sec = ShortBook
                             /\ DenominatorOf(cost.borrow) = 365 => marks[j].days = 73
  /\ short # 0 => 1 \in DOMAIN marks

LEMMA MonthMarks ==
  ASSUME NEW cost \in Stacks, NEW short \in Int, NEW date, NEW marks,
         marks = Marks(short, <<73, 365>>, DenominatorOf(cost.borrow), date)
  PROVE  MarksAre(cost, short, date, marks)
<1> DEFINE days == AccrualDays(<<73, 365>>, DenominatorOf(cost.borrow))
           mark == [sec |-> ShortBook, date |-> date, notional |-> short, fee |-> None,
                    days |-> days, region |-> None, hard |-> FALSE]
<1>1. cost.borrow \in Borrows
  BY StacksTagged
<1>2. CASE short = 0
  <2>1. marks = <<>>
    BY <1>2 DEF Marks
  <2> QED
    BY <1>2, <2>1 DEF MarksAre
<1>3. CASE short # 0
  <2>1. marks = <<mark>>
    <3>1. <<73, 365>>[1] = 73
      OBVIOUS
    <3>2. ~ (short = 0 \/ <<73, 365>>[1] = 0)
      BY <1>3, <3>1
    <3> HIDE DEF mark
    <3> QED
      BY <3>2, Zenon DEF Marks, mark, days
  <2>2. mark.fee = None /\ mark.notional = short /\ mark.days = days /\ mark.date = date /\ mark.sec = ShortBook
    OBVIOUS
  <2> HIDE DEF mark, days
  <2>3. Len(marks) = 1 /\ DOMAIN marks = 1 .. 1 /\ marks[1] = mark
    BY <2>1
  <2> DEFINE borrow == cost.borrow
             fee == Fee(borrow, mark)
  <2>4. days \in Int /\ fee \in Nat
    <3> DEFINE one == 1
    <3>1. one \in Int /\ one > 0 /\ days = AccrualDays(<<73, 365>>, DenominatorOf(borrow)) /\ borrow \in Borrows
      BY <1>1 DEF days
    <3> HIDE DEF one, fee, borrow
    <3>2. fee = Fee(borrow, mark)
      BY DEF fee
    <3> QED
      BY <2>2, <3>1, <3>2, BorrowAsks
  <2>5. DenominatorOf(borrow) = 365 => days = 73
    <3>1. <<73, 365>>[1] = 73 /\ <<73, 365>>[2] = 365
      OBVIOUS
    <3>2. days = (73 * DenominatorOf(borrow)) \div 365
      BY <3>1, Zenon DEF AccrualDays, days
    <3> QED
      BY <3>2
  <2>6. Accrue(cost, mark).amount = IF borrow = None THEN 0 ELSE (fee * short * days) \div borrow.denominator
    BY <2>2 DEF Accrue
  <2>7. Accrue(cost, mark).amount \in Int
    <3>1. CASE borrow = None
      BY <2>6, <3>1
    <3>2. CASE borrow # None
      <4>1. borrow.denominator \in {360, 365}
        BY <1>1, <3>2 DEF Borrows
      <4> DEFINE a == fee * short * days
      <4>2. a \in Int
        BY <2>4
      <4> HIDE DEF a
      <4>3. \A d \in {360, 365} : a \div d \in Int
        BY <4>2
      <4>4. Accrue(cost, mark).amount = a \div borrow.denominator
        BY <2>6, <3>2 DEF a
      <4> QED
        BY <4>1, <4>3, <4>4
    <3> QED
      BY <3>1, <3>2
  <2> QED
    BY <2>2, <2>3, <2>5, <2>7 DEF MarksAre
<1> QED
  BY <1>2, <1>3
\* The linear rate of 3, and nothing else.
LEMMA Linear3Is ==
  /\ Linear3.commission = None /\ Linear3.spread = None /\ Linear3.impact = None /\ Linear3.participation = None
  /\ Linear3.scaling = None /\ Linear3.multipliers = <<>>
  /\ Linear3.linear # None /\ Linear3.linear.rate = 3 /\ Linear3.linear.overrides = <<>>
<1> DEFINE c == CHOOSE s \in Sections : s.fee = None
           v == VersionStack(c)
           l == [rate |-> 3, overrides |-> <<>>]
<1>1. Linear3 = [v EXCEPT !.linear = l]
  BY DEF Linear3
<1>2. v.commission = None /\ v.spread = None /\ v.impact = None /\ v.participation = None
      /\ v.scaling = None /\ v.multipliers = <<>>
      /\ {"commission", "spread", "impact", "participation", "scaling", "multipliers", "linear"} \subseteq DOMAIN v
  <2> HIDE DEF c
  <2> QED
    BY DEF VersionStack
<1>3. l.rate = 3 /\ l.overrides = <<>> /\ l # None
  BY PortfolioAssumption
<1> HIDE DEF v, c, l
<1>4. /\ Linear3.commission = None /\ Linear3.spread = None /\ Linear3.impact = None /\ Linear3.participation = None
      /\ Linear3.scaling = None /\ Linear3.multipliers = <<>> /\ Linear3.linear = l
  BY <1>1, <1>2
<1> QED
  BY <1>3, <1>4

LEMMA LinearPriced ==
  ASSUME NEW list, NEW k \in DOMAIN list, Notional(list[k]) \in Nat, NEW b \in TradeBuckets
  PROVE  PriceTrades(Linear3, list, 1)[k].by[b] = IF b = "linear" THEN 3 * Notional(list[k]) ELSE 0
<1> DEFINE t == list[k]
           g == GroupSize(Linear3, list, k)
           r == RateFor(1, Linear3.multipliers, t.region)
           f == IF Linear3.scaling # None /\ b \in Linear3.scaling.buckets
                THEN Power(1 \div Linear3.scaling.reference, Linear3.scaling.exponent) ELSE 1
           charge == [commission |-> Commission(Linear3, t), spread |-> HalfSpread(Linear3, t),
                      linear |-> Linear(Linear3, t), impact |-> Impact(Linear3, t, g),
                      penalty |-> Penalty(Linear3, t, g)]
<1>1. PriceTrades(Linear3, list, 1)[k] = PriceTrade(Linear3, t, 1, g)
  BY Zenon DEF PriceTrades, GroupSize
<1>2. PriceTrade(Linear3, t, 1, g).by[b] = charge[b] * r * f
  <2> HIDE DEF t, g
  <2> QED
    BY Zenon DEF PriceTrade
<1>3. r = 1 /\ f = 1
  <2>1. Linear3.multipliers = <<>> /\ Linear3.scaling = None
    BY Linear3Is
  <2>2. r = 1
    <3> HIDE DEF t
    <3> QED
      BY <2>1 DEF RateFor
  <2> QED
    BY <2>1, <2>2
<1>4. /\ Commission(Linear3, t) = 0 /\ HalfSpread(Linear3, t) = 0 /\ Impact(Linear3, t, g) = 0
      /\ Penalty(Linear3, t, g) = 0 /\ Linear(Linear3, t) = 3 * Notional(t)
  <2> HIDE DEF t, g
  <2>1. Commission(Linear3, t) = 0 /\ HalfSpread(Linear3, t) = 0 /\ Impact(Linear3, t, g) = 0
    BY Linear3Is DEF Commission, HalfSpread, Impact
  <2>2. Penalty(Linear3, t, g) = 0
    BY Linear3Is DEF Penalty, Breaches
  <2>3. RateFor(Linear3.linear.rate, Linear3.linear.overrides, t.region) = 3
    <3>1. Linear3.linear.rate = 3 /\ Linear3.linear.overrides = <<>>
      BY Linear3Is
    <3> QED
      BY <3>1 DEF RateFor
  <2>4. Linear(Linear3, t) = 3 * Notional(t)
    BY <2>3, Linear3Is DEF Linear
  <2> QED
    BY <2>1, <2>2, <2>4
<1>5. charge[b] = IF b = "linear" THEN 3 * Notional(t) ELSE 0
  <2> HIDE DEF t, g
  <2> QED
    BY <1>4 DEF TradeBuckets
<1>6. Notional(t) \in Nat
  OBVIOUS
<1> DEFINE x == charge[b]
           y == Notional(t)
<1>7. x = (IF b = "linear" THEN 3 * y ELSE 0) /\ y \in Nat
  BY <1>5, <1>6
<1> HIDE DEF x, r, f, y
<1>8. x * r * f = (IF b = "linear" THEN 3 * y ELSE 0)
  BY <1>3, <1>7
<1>9. PriceTrades(Linear3, list, 1)[k].by[b] = x * r * f
  BY <1>1, <1>2, Zenon DEF x
<1> QED
  BY <1>8, <1>9, Zenon DEF y
\* A charge at the first month that the last one takes back.
LEMMA SumOverOne ==
  ASSUME NEW n \in Nat, NEW k \in 1 .. n, NEW c \in Int, NEW e, \A i \in 1 .. n : e[i] = IF i = k THEN c ELSE 0
  PROVE  SumOver(e, 1 .. n) = c
<1> DEFINE N == 1 .. n
<1>1. IsFiniteSet(N) /\ {k} \in SUBSET N
  BY UpToFinite
<1>2. (\A i \in N : e[i] \in Int) /\ (\A i \in N \ {k} : e[i] = 0) /\ \A i \in {k} : e[i] = c
  OBVIOUS
<1> HIDE DEF N
<1>3. IsFiniteSet({k}) /\ Cardinality({k}) = 1
  BY FS_Singleton
<1>4. SumOver(e, {k}) = c * Cardinality({k})
  BY <1>2, <1>3, SumOverConstant
<1>5. SumOver(e, {k}) = SumOver(e, N)
  BY <1>1, <1>2, SumOverSupport
<1>6. SumOver(e, N) = c
  BY <1>3, <1>4, <1>5
<1> QED
  BY <1>6 DEF N

\* h adds g to f, or takes it off.
Adds(S, f, g, h) ==
  /\ IsFiniteSet(S) /\ \A i \in S : f[i] \in Int
  /\ \A i \in S : g[i] \in Int
  /\ \A i \in S : h[i] = f[i] + g[i]
Takes(S, f, g, h) ==
  /\ IsFiniteSet(S) /\ \A i \in S : f[i] \in Int
  /\ \A i \in S : g[i] \in Int
  /\ \A i \in S : h[i] = f[i] - g[i]
OneOf(n, k, c, e) == n \in Nat /\ k \in 1 .. n /\ c \in Int /\ \A i \in 1 .. n : e[i] = IF i = k THEN c ELSE 0

LEMMA SumAdds ==
  ASSUME NEW S, NEW f, NEW g, NEW h, Adds(S, f, g, h)
  PROVE  SumOver(h, S) = SumOver(f, S) + SumOver(g, S) /\ SumOver(f, S) \in Int /\ SumOver(g, S) \in Int
<1>1. IsFiniteSet(S) /\ (\A i \in S : f[i] \in Int) /\ (\A i \in S : g[i] \in Int)
      /\ (\A i \in S : h[i] = f[i] + 1 * g[i]) /\ 1 \in {1, -1}
  BY DEF Adds
<1>2. SumOver(h, S) = SumOver(f, S) + 1 * SumOver(g, S) /\ SumOver(f, S) \in Int /\ SumOver(g, S) \in Int
  BY <1>1, SumOverPlus
<1> QED
  BY <1>2

LEMMA SumTakes ==
  ASSUME NEW S, NEW f, NEW g, NEW h, Takes(S, f, g, h)
  PROVE  SumOver(h, S) = SumOver(f, S) - SumOver(g, S) /\ SumOver(f, S) \in Int /\ SumOver(g, S) \in Int
<1>1. IsFiniteSet(S) /\ (\A i \in S : f[i] \in Int) /\ (\A i \in S : g[i] \in Int)
      /\ (\A i \in S : h[i] = f[i] + (-1) * g[i]) /\ -1 \in {1, -1}
  BY DEF Takes
<1>2. SumOver(h, S) = SumOver(f, S) + (-1) * SumOver(g, S) /\ SumOver(f, S) \in Int /\ SumOver(g, S) \in Int
  BY <1>1, SumOverPlus
<1> QED
  BY <1>2

LEMMA SumIsOne ==
  ASSUME NEW n, NEW k, NEW c, NEW e, OneOf(n, k, c, e)
  PROVE  SumOver(e, 1 .. n) = c
  BY SumOverOne DEF OneOf

LEMMA EarnedTotal ==
  ASSUME NEW n \in Nat, n > 0, NEW w, \A i \in 1 .. n : w[i] \in Int,
         NEW e, \A i \in 1 .. n : e[i] = 3 * w[i] + (IF i = 1 THEN 7 ELSE 0) - (IF i = n THEN 7 ELSE 0)
  PROVE  SumOver(e, 1 .. n) = 3 * SumOver(w, 1 .. n) /\ SumOver(w, 1 .. n) \in Int
<1> DEFINE N == 1 .. n
           e1 == [i \in N |-> IF i = 1 THEN 7 ELSE 0]
           e2 == [i \in N |-> IF i = n THEN 7 ELSE 0]
           w3 == [i \in N |-> 3 * w[i]]
           s == [i \in N |-> w3[i] + e1[i]]
<1>1. IsFiniteSet(N) /\ 1 \in N /\ n \in N
  BY UpToFinite
<1>2. OneOf(n, 1, 7, e1) /\ OneOf(n, n, 7, e2)
  BY <1>1 DEF OneOf
<1>3. Adds(N, w3, e1, s) /\ Takes(N, s, e2, e)
  BY <1>1 DEF Adds, Takes
<1>4. SumOver(w3, N) = 3 * SumOver(w, N) /\ SumOver(w, N) \in Int
  <2>1. SumOver([i \in N |-> 3 * w[i]], N) = 3 * SumOver(w, N)
    <3>1. 3 \in Int /\ \A i \in N : w[i] \in Int
      OBVIOUS
    <3> HIDE DEF N
    <3> QED
      BY <1>1, <3>1, SumOverTimes
  <2>2. \A i \in N : w[i] \in Int
    OBVIOUS
  <2> HIDE DEF N
  <2>3. SumOver(w, N) \in Int
    BY <1>1, <2>2, SumOverWhole
  <2> QED
    BY <2>1, <2>3 DEF w3
<1> HIDE DEF e1, e2, w3, s
<1>5. SumOver(e1, N) = 7 /\ SumOver(e2, N) = 7
  BY <1>2, SumIsOne, Zenon DEF N
<1> HIDE DEF N
<1>6. SumOver(s, N) = SumOver(w3, N) + SumOver(e1, N)
  BY <1>3, SumAdds, Zenon
<1>7. SumOver(e, N) = SumOver(s, N) - SumOver(e2, N)
  BY <1>3, SumTakes, Zenon
<1>8. SumOver(e, N) = 3 * SumOver(w, N)
  BY <1>4, <1>5, <1>6, <1>7
<1> QED
  BY <1>4, <1>8 DEF N

\* What the months traded, in one-way and two-way figures.
Traded(trades, n, w) ==
  \A i \in 1 .. n : /\ \A j \in DOMAIN trades[i] : Notional(trades[i][j]) \in Nat
                    /\ w[i] = SumOver([j \in DOMAIN trades[i] |-> Notional(trades[i][j])], DOMAIN trades[i])

\* The whole run at the linear rate of 3.
LEMMA LinearTotals ==
  ASSUME NEW trades, NEW n, Parts(trades, n), NEW w, Traded(trades, n, w),
         NEW costs, costs = PriceTrades(Linear3, Concatenated(trades), 1),
         NEW accruals, DOMAIN accruals = {}, NEW totals, totals = Totals(costs, accruals)
  PROVE  /\ WholeCosts(costs, accruals) /\ \A i \in 1 .. n : w[i] \in Nat
         /\ TradingTotal(totals) = 3 * SumOver(w, 1 .. n) /\ totals["borrow"] = 0
<1> DEFINE list == Concatenated(trades)
           S == DOMAIN list
           h == [i \in 1 .. n |-> 3 * w[i]]
<1>1. DOMAIN costs = S /\ IsFiniteSet(S)
  <2>1. DOMAIN costs = S
    <3> HIDE DEF list
    <3>1. costs = PriceTrades(Linear3, list, 1)
      BY DEF list
    <3> QED
      BY <3>1 DEF PriceTrades
  <2> DEFINE total == Total([l \in DOMAIN trades |-> Len(trades[l])])
  <2>2. total \in Nat
    BY StartsRise
  <2>3. S = 1 .. total
    BY DEF Concatenated
  <2> HIDE DEF total
  <2> QED
    BY <2>1, <2>2, <2>3, UpToFinite
<1>2. ASSUME NEW i \in 1 .. n, NEW j \in DOMAIN trades[i]
      PROVE  /\ Starts(trades)[i] + j \in S /\ list[Starts(trades)[i] + j] = trades[i][j]
             /\ Notional(trades[i][j]) \in Nat
  <2>1. Starts(trades)[i] + j \in S /\ list[Starts(trades)[i] + j] = trades[i][j]
    BY PlacesHold
  <2>2. Notional(trades[i][j]) \in Nat
    BY Zenon DEF Traded
  <2> QED
    BY <2>1, <2>2
<1>3. ASSUME NEW k \in S PROVE Notional(list[k]) \in Nat
  <2>1. PICK i \in 1 .. n : \E j \in DOMAIN trades[i] : k = Starts(trades)[i] + j
    BY PlaceFound
  <2>2. PICK j \in DOMAIN trades[i] : k = Starts(trades)[i] + j
    BY <2>1
  <2> HIDE DEF list
  <2> QED
    BY <1>2, <2>2
<1>4. ASSUME NEW k \in S, NEW b \in TradeBuckets
      PROVE  costs[k].by[b] = IF b = "linear" THEN 3 * Notional(list[k]) ELSE 0
  <2>1. costs = PriceTrades(Linear3, list, 1)
    OBVIOUS
  <2> HIDE DEF list
  <2> QED
    BY <1>3, <2>1, LinearPriced
<1>5. WholeCosts(costs, accruals)
  <2>1. IsFiniteSet(DOMAIN accruals)
    BY FS_EmptySet
  <2>2. \A k \in DOMAIN costs : \A b \in TradeBuckets : costs[k].by[b] \in Int
    <3> SUFFICES ASSUME NEW k \in DOMAIN costs, NEW b \in TradeBuckets PROVE costs[k].by[b] \in Int
      OBVIOUS
    <3>1. k \in S
      BY <1>1
    <3>2. Notional(list[k]) \in Nat
      BY <1>3, <3>1
    <3>3. costs[k].by[b] = IF b = "linear" THEN 3 * Notional(list[k]) ELSE 0
      BY <1>4, <3>1
    <3> HIDE DEF list
    <3> QED
      BY <3>2, <3>3
  <2> HIDE DEF S, list
  <2> QED
    BY <1>1, <2>1, <2>2 DEF WholeCosts
<1>6. \A b \in Buckets : totals[b] = SumOver(Column(costs, accruals, b), Places(costs, accruals, b))
  BY TotalsAre
<1>7. \A i \in 1 .. n : w[i] \in Nat /\ h[i] = 3 * w[i]
  <2> SUFFICES ASSUME NEW i \in 1 .. n PROVE w[i] \in Nat
    OBVIOUS
  <2> DEFINE g == [j \in DOMAIN trades[i] |-> Notional(trades[i][j])]
             D == DOMAIN trades[i]
  <2>1. IsFiniteSet(D)
    BY ShiftBijects
  <2>2. w[i] = SumOver(g, D) /\ \A j \in D : g[j] \in Nat
    BY DEF Traded
  <2> HIDE DEF g, D
  <2> QED
    BY <2>1, <2>2, SumOverNat
<1>8. totals["linear"] = SumOver(h, 1 .. n)
  <2> DEFINE f == Column(costs, accruals, "linear")
  <2>1. "linear" \in Buckets /\ "linear" \in TradeBuckets /\ "linear" # "borrow"
    BY DEF Buckets, TradeBuckets
  <2>2. totals["linear"] = SumOver(f, S)
    <3>1. Places(costs, accruals, "linear") = S
      BY <1>1, <2>1 DEF Places
    <3> QED
      BY <1>6, <2>1, <3>1, Zenon
  <2>3. ASSUME NEW k \in S PROVE f[k] = 3 * Notional(list[k])
    <3>1. f[k] = costs[k].by["linear"]
      BY <1>1, <2>1 DEF Column
    <3> QED
      BY <1>4, <2>1, <3>1
  <2>4. \A k \in S : f[k] \in Int
    BY <1>3, <2>3
  <2>5. ASSUME NEW i \in 1 .. n PROVE h[i] = SumOver(f, PlacesIn(trades, i))
    <3> DEFINE g == [j \in DOMAIN trades[i] |-> Notional(trades[i][j])]
               D == DOMAIN trades[i]
               g3 == [j \in D |-> 3 * g[j]]
    <3>1. \A j \in D : g[j] \in Nat /\ g3[j] \in Int /\ g3[j] = 3 * Notional(trades[i][j])
      BY <1>2
    <3>2. \A j \in D : f[Starts(trades)[i] + j] = g3[j]
      <4> SUFFICES ASSUME NEW j \in D PROVE f[Starts(trades)[i] + j] = g3[j]
        OBVIOUS
      <4> DEFINE K == Starts(trades)[i] + j
      <4>1. K \in S /\ list[K] = trades[i][j]
        BY <1>2
      <4> HIDE DEF K, f, list, S
      <4>2. f[K] = 3 * Notional(list[K])
        BY <2>3, <4>1
      <4>3. f[K] = g3[j]
        BY <3>1, <4>1, <4>2
      <4> QED
        BY <4>3 DEF K
    <3>3. IsFiniteSet(D)
      BY ShiftBijects
    <3>4. SumOver(f, PlacesIn(trades, i)) = SumOver(g3, D)
      <4>1. \A j \in DOMAIN trades[i] : g3[j] \in Int /\ f[Starts(trades)[i] + j] = g3[j]
        BY <3>1, <3>2
      <4> HIDE DEF g3, f
      <4> QED
        BY <4>1, PartSum
    <3>5. SumOver([j \in D |-> 3 * g[j]], D) = 3 * SumOver(g, D)
      <4> HIDE DEF g, D
      <4>1. \A j \in D : g[j] \in Int
        BY <3>1
      <4> QED
        BY <3>3, <4>1, SumOverTimes
    <3>6. w[i] = SumOver(g, D)
      BY DEF Traded
    <3>7. h[i] = 3 * w[i]
      BY <1>7
    <3> HIDE DEF g, h
    <3>8. SumOver(g3, D) = 3 * SumOver(g, D)
      BY <3>5
    <3> HIDE DEF D, g3, f
    <3> QED
      BY <3>4, <3>6, <3>7, <3>8
  <2> HIDE DEF f, h
  <2>6. SumOver(f, S) = SumOver(h, 1 .. n)
    BY <2>4, <2>5, PartsSum
  <2> QED
    BY <2>2, <2>6
<1>9. SumOver(h, 1 .. n) = 3 * SumOver(w, 1 .. n) /\ SumOver(w, 1 .. n) \in Int
  <2> DEFINE N == 1 .. n
  <2>1. n \in Nat
    BY DEF Parts
  <2>2. IsFiniteSet(N) /\ \A i \in N : w[i] \in Int
    BY <1>7, <2>1, UpToFinite
  <2> HIDE DEF N
  <2>3. SumOver([i \in N |-> 3 * w[i]], N) = 3 * SumOver(w, N)
    BY <2>2, SumOverTimes
  <2>4. SumOver(w, N) \in Int
    BY <2>2, SumOverWhole
  <2> QED
    BY <2>3, <2>4 DEF N
<1>10. ASSUME NEW b \in Buckets, b # "linear" PROVE totals[b] = 0
  <2> DEFINE f == Column(costs, accruals, b)
             T == Places(costs, accruals, b)
  <2>1. IsFiniteSet(T) /\ \A k \in T : f[k] = 0
    <3>1. CASE b = "borrow"
      BY <3>1, FS_EmptySet DEF Places
    <3>2. CASE b # "borrow"
      <4>1. T = DOMAIN costs /\ b \in TradeBuckets
        BY <3>2 DEF Places, Buckets
      <4>2. ASSUME NEW k \in T PROVE f[k] = 0
        <5>1. f[k] = costs[k].by[b]
          BY <3>2, <4>1 DEF Column
        <5>2. k \in S
          BY <1>1, <4>1
        <5> QED
          BY <1>4, <1>10, <4>1, <5>1, <5>2
      <4> HIDE DEF f
      <4> QED
        BY <1>1, <4>1, <4>2
    <3> QED
      BY <3>1, <3>2
  <2>2. totals[b] = SumOver(f, T)
    BY <1>6
  <2> HIDE DEF f, T
  <2>3. SumOver(f, T) = 0 * Cardinality(T)
    BY <2>1, SumOverConstant
  <2>4. Cardinality(T) \in Nat
    BY <2>1, FS_CardinalityType
  <2> QED
    BY <2>2, <2>3, <2>4
<1>11. TradingTotal(totals) = 3 * SumOver(w, 1 .. n) /\ totals["borrow"] = 0
  <2>1. /\ totals["commission"] = 0 /\ totals["spread"] = 0 /\ totals["impact"] = 0 /\ totals["penalty"] = 0
        /\ totals["borrow"] = 0
    BY <1>10 DEF Buckets, TradeBuckets
  <2> DEFINE x == SumOver(w, 1 .. n)
  <2>2. totals["linear"] = 3 * x /\ x \in Int
    BY <1>8, <1>9
  <2> HIDE DEF x
  <2>3. WholeRow(totals)
    <3>1. \A b \in Buckets : b = "linear" \/ totals[b] = 0
      BY <1>10
    <3>2. \A b \in Buckets : totals[b] \in Int
      BY <2>2, <3>1
    <3> QED
      BY <3>2, Zenon DEF WholeRow
  <2>4. TradingTotal(totals) = totals["commission"] + totals["spread"] + totals["linear"] + totals["impact"]
                                + totals["penalty"]
    BY <2>3, RowTotal
  <2>5. TradingTotal(totals) = 3 * x
    BY <2>1, <2>2, <2>4
  <2> QED
    BY <2>1, <2>5 DEF x
<1> QED
  BY <1>5, <1>7, <1>11
\* What the months earn, the rate that would eat it up, and what is left.
Earned(calls) == [i \in DOMAIN calls |-> 3 * calls[i].twoWay + (IF i = 1 THEN 7 ELSE 0)
                                          - (IF i = Len(calls) THEN 7 ELSE 0)]
OneWay(calls) == [i \in DOMAIN calls |-> calls[i].twoWay \div 2]
CallDates(calls) == {calls[i].date : i \in DOMAIN calls}
GrossOf(calls) == [d \in CallDates(calls) |-> Earned(calls)[CHOOSE i \in DOMAIN calls : calls[i].date = d]]

Called(calls, trades, n, dates, w) ==
  /\ Dated(trades, n, dates) /\ Traded(trades, n, w)
  /\ DOMAIN calls = 1 .. n /\ Len(calls) = n
  /\ \A i \in 1 .. n : calls[i].date = dates[i] /\ calls[i].twoWay = w[i]

DatesOf(dates, n) == {dates[i] : i \in 1 .. n}
GrossAdds(calls, gross, n, dates, w) ==
  /\ IsFiniteSet(DOMAIN gross) /\ DOMAIN gross = DatesOf(dates, n)
  /\ \A d \in DOMAIN gross : gross[d] \in Int
  /\ Total(gross) = 3 * SumOver(w, 1 .. n) /\ Total(Earned(calls)) = 3 * SumOver(w, 1 .. n)
  /\ SumOver(w, 1 .. n) \in Int

LEMMA GrossTotal ==
  ASSUME NEW calls, NEW trades, NEW n, NEW dates, NEW w, Called(calls, trades, n, dates, w), n > 0,
         \A i \in 1 .. n : w[i] \in Int,
         NEW gross, gross = GrossOf(calls)
  PROVE  GrossAdds(calls, gross, n, dates, w)
<1> DEFINE e == Earned(calls)
           N == 1 .. n
           D == CallDates(calls)
           m == [i \in N |-> dates[i]]
<1>1. n \in Nat /\ DOMAIN calls = N /\ Len(calls) = n
  BY DEF Called, Dated, Parts
<1>2. ASSUME NEW i \in N
      PROVE  e[i] = 3 * w[i] + (IF i = 1 THEN 7 ELSE 0) - (IF i = n THEN 7 ELSE 0) /\ e[i] \in Int
  <2>1. calls[i].twoWay = w[i] /\ w[i] \in Int /\ i \in DOMAIN calls
    BY <1>1 DEF Called
  <2>2. e[i] = 3 * calls[i].twoWay + (IF i = 1 THEN 7 ELSE 0) - (IF i = Len(calls) THEN 7 ELSE 0)
    BY <2>1 DEF Earned
  <2> HIDE DEF e
  <2> QED
    BY <1>1, <2>1, <2>2
<1>3. SumOver(e, N) = 3 * SumOver(w, N) /\ SumOver(w, N) \in Int
  <2> HIDE DEF e
  <2> QED
    BY <1>1, <1>2, EarnedTotal
<1>4. DOMAIN gross = D /\ DOMAIN e = N /\ \A d \in D : gross[d] = e[CHOOSE i \in DOMAIN calls : calls[i].date = d]
  BY <1>1 DEF GrossOf, Earned
<1>5. D = DatesOf(dates, n) /\ DatesOf(dates, n) = {dates[i] : i \in N}
  BY <1>1 DEF CallDates, Called, DatesOf
<1>6. m \in Bijection(N, D)
  <2>1. m \in [N -> D]
    BY <1>5
  <2>2. \A i \in N : \A h \in N : m[i] = m[h] => i = h
    BY DEF Called, Dated
  <2>3. \A d \in D : \E i \in N : m[i] = d
    BY <1>5
  <2> HIDE DEF m, D, N
  <2>4. m \in Injection(N, D) /\ m \in Surjection(N, D)
    BY <2>1, <2>2, <2>3 DEF Injection, IsInjective, Surjection
  <2> QED
    BY <2>4 DEF Bijection
<1>7. ASSUME NEW i \in N PROVE gross[m[i]] = e[i]
  <2> DEFINE d == dates[i]
             c == CHOOSE l \in DOMAIN calls : calls[l].date = d
  <2>1. i \in DOMAIN calls /\ calls[i].date = d
    BY <1>1 DEF Called
  <2>2. c \in N /\ calls[c].date = d
    BY <1>1, <2>1
  <2>3. c = i
    <3>1. dates[c] = dates[i]
      BY <2>2 DEF Called
    <3> HIDE DEF c
    <3> QED
      BY <2>2, <3>1 DEF Called, Dated
  <2>4. d \in D /\ m[i] = d
    BY <1>5
  <2> HIDE DEF e, m, D
  <2> QED
    BY <1>4, <2>3, <2>4
<1>8. IsFiniteSet(N)
  BY <1>1, UpToFinite
<1>9. ASSUME NEW d \in D PROVE gross[d] \in Int
  <2>1. PICK i \in N : m[i] = d
    BY <1>5
  <2> HIDE DEF m, e
  <2> QED
    BY <1>2, <1>7, <2>1
<1> HIDE DEF e, N, D, m
<1>10. IsFiniteSet(D) /\ SumOver(gross, D) = SumOver([i \in N |-> gross[m[i]]], N)
  BY <1>6, <1>8, <1>9, Reindexed
<1>11. SumOver([i \in N |-> gross[m[i]]], N) = SumOver(e, N)
  <2> DEFINE h == [i \in N |-> gross[m[i]]]
  <2>1. \A i \in N : h[i] = e[i]
    BY <1>7
  <2> HIDE DEF h
  <2>2. SumOver(h, N) = SumOver(e, N)
    BY <2>1, SumOverEqual
  <2> QED
    BY <2>2 DEF h
<1>12. Total(gross) = SumOver(gross, D) /\ Total(e) = SumOver(e, N)
  BY <1>4 DEF Total
<1>13. Total(gross) = 3 * SumOver(w, N) /\ Total(e) = 3 * SumOver(w, N)
  BY <1>3, <1>10, <1>11, <1>12
<1>14. IsFiniteSet(DOMAIN gross) /\ DOMAIN gross = DatesOf(dates, n) /\ \A d \in DOMAIN gross : gross[d] \in Int
  BY <1>4, <1>5, <1>9, <1>10
<1> QED
  BY <1>3, <1>13, <1>14 DEF N, e, GrossAdds

\* Whatever the months traded, a rate of 3 is the break-even of what they earn.
LEMMA BreakEvenHolds ==
  ASSUME NEW calls, NEW trades, NEW n, NEW dates, NEW w, Called(calls, trades, n, dates, w),
         NEW list, list = Concatenated(trades)
  PROVE  BreaksEven(calls, list)
<1> DEFINE earned == Earned(calls)
           oneWay == OneWay(calls)
           even == Breakeven(earned, oneWay)
           gross == GrossOf(calls)
           run == Run(Linear3, list, <<>>, 1)
           N == 1 .. n
<1>1. /\ n \in Nat /\ Parts(trades, n) /\ Traded(trades, n, w) /\ Dated(trades, n, dates)
      /\ DOMAIN calls = N /\ Len(calls) = n
  BY DEF Called, Dated, Parts
<1> SUFFICES ASSUME \A i \in DOMAIN calls : calls[i].twoWay % 2 = 0, ~ BreakevenRefused(earned, oneWay)
             PROVE  even.num = 3 * even.den /\ ~ NetRefused(run, gross) /\ Total(NetOf(run, gross)) = 0
  BY Zenon DEF BreaksEven, Earned, OneWay, GrossOf, CallDates
<1> DEFINE costs == PriceTrades(Linear3, list, 1)
           accruals == AccrualsOf(Linear3, <<>>)
           totals == Totals(costs, accruals)
<1>2. DOMAIN accruals = {}
  BY DEF AccrualsOf
<1>3. run.totals = totals /\ run.periods = AggregatePeriods(costs, accruals)
  <2> HIDE DEF accruals
  <2> QED
    BY RunAddsUp DEF accruals
<1>4. /\ WholeCosts(costs, accruals) /\ \A i \in 1 .. n : w[i] \in Nat
      /\ TradingTotal(totals) = 3 * SumOver(w, 1 .. n) /\ totals["borrow"] = 0
  <2>1. costs = PriceTrades(Linear3, Concatenated(trades), 1)
    OBVIOUS
  <2> HIDE DEF costs, accruals
  <2> QED
    BY <1>1, <1>2, <2>1, LinearTotals
<1>5. DOMAIN oneWay = N /\ \A i \in N : oneWay[i] \in Int /\ w[i] = 2 * oneWay[i]
  <2>1. DOMAIN oneWay = N
    BY <1>1 DEF OneWay
  <2>2. ASSUME NEW i \in N PROVE oneWay[i] \in Int /\ w[i] = 2 * oneWay[i]
    <3>1. oneWay[i] = w[i] \div 2 /\ w[i] % 2 = 0 /\ w[i] \in Nat
      BY <1>1, <1>4 DEF OneWay, Called
    <3> HIDE DEF oneWay
    <3> QED
      BY <3>1
  <2> QED
    BY <2>1, <2>2
<1>6. n > 0
  <2> SUFFICES ASSUME n = 0 PROVE FALSE
    BY <1>1
  <2>1. DOMAIN oneWay = {} /\ IsFiniteSet({}) /\ Cardinality({}) = 0
    BY <1>5, FS_EmptySet
  <2> HIDE DEF oneWay, earned
  <2>2. SumOver(oneWay, {}) = 0 * Cardinality({})
    BY <2>1, SumOverConstant
  <2>3. Total(oneWay) = 0
    BY <2>1, <2>2 DEF Total
  <2> QED
    BY <2>3 DEF BreakevenRefused
<1>7. /\ IsFiniteSet(DOMAIN gross) /\ DOMAIN gross = DatesOf(dates, n)
      /\ \A d \in DOMAIN gross : gross[d] \in Int
      /\ Total(gross) = 3 * SumOver(w, 1 .. n) /\ Total(earned) = 3 * SumOver(w, 1 .. n)
      /\ SumOver(w, 1 .. n) \in Int
  <2>1. \A i \in 1 .. n : w[i] \in Int
    BY <1>4
  <2>2. gross = GrossOf(calls) /\ earned = Earned(calls)
    OBVIOUS
  <2> HIDE DEF gross, earned
  <2>3. GrossAdds(calls, gross, n, dates, w)
    BY <1>6, <2>1, <2>2, GrossTotal
  <2> QED
    BY <2>2, <2>3, Zenon DEF GrossAdds
<1>8. 2 * Total(oneWay) = SumOver(w, N) /\ Total(oneWay) \in Int
  <2> HIDE DEF oneWay
  <2>1. IsFiniteSet(N) /\ \A i \in N : oneWay[i] \in Int
    BY <1>1, <1>5, UpToFinite
  <2> DEFINE h == [i \in N |-> 2 * oneWay[i]]
  <2>2. \A i \in N : h[i] = w[i]
    BY <1>5
  <2> HIDE DEF N
  <2>3. SumOver(h, N) = 2 * SumOver(oneWay, N)
    BY <2>1, SumOverTimes
  <2>4. SumOver(oneWay, N) \in Int
    BY <2>1, SumOverWhole
  <2> HIDE DEF h
  <2>5. SumOver(h, N) = SumOver(w, N)
    BY <2>2, SumOverEqual
  <2>6. Total(oneWay) = SumOver(oneWay, N)
    BY <1>5 DEF Total
  <2> QED
    BY <2>3, <2>4, <2>5, <2>6
<1>9. even.num = 3 * even.den
  <2>1. even.num = Total(earned) /\ even.den = 2 * Total(oneWay)
    BY DEF Breakeven
  <2> HIDE DEF even, earned, oneWay
  <2> QED
    BY <1>7, <1>8, <2>1
<1>10. ~ NetRefused(run, gross)
  <2>1. DOMAIN run.periods = TradeDates(costs) \cup MarkDates(accruals)
    BY <1>3 DEF AggregatePeriods
  <2>2. MarkDates(accruals) = {}
    <3> HIDE DEF accruals
    <3> QED
      BY <1>2 DEF MarkDates
  <2>3. ASSUME NEW d \in TradeDates(costs) PROVE d \in DatesOf(dates, n)
    <3> HIDE DEF costs
    <3>1. PICK k \in DOMAIN costs : d = costs[k].trade.date
      BY DEF TradeDates
    <3>2. k \in DOMAIN list /\ costs[k].trade = list[k]
      <4>1. costs = PriceTrades(Linear3, list, 1)
        BY DEF costs
      <4> QED
        BY <4>1, RowsOfRun, MarksOfRun
    <3>3. PICK i \in 1 .. n : \E j \in DOMAIN trades[i] : k = Starts(trades)[i] + j
      BY <1>1, <3>2, PlaceFound
    <3>4. PICK j \in DOMAIN trades[i] : k = Starts(trades)[i] + j
      BY <3>3
    <3>5. list[k] = trades[i][j]
      BY <1>1, <3>4, PlacesHold
    <3> QED
      BY <1>1, <3>1, <3>2, <3>5 DEF Dated, DatesOf
  <2> HIDE DEF run, gross, costs, accruals
  <2> QED
    BY <1>7, <2>1, <2>2, <2>3 DEF NetRefused
<1>11. Total(NetOf(run, gross)) = Total(gross) - TradingTotal(run.totals) - run.totals["borrow"]
  <2> DEFINE c == costs
             a == accruals
             r == run
             g == gross
  <2>1. /\ WholeCosts(c, a) /\ r.periods = AggregatePeriods(c, a) /\ r.totals = Totals(c, a)
        /\ IsFiniteSet(DOMAIN g) /\ (\A d \in DOMAIN g : g[d] \in Int) /\ ~ NetRefused(r, g)
    BY <1>3, <1>4, <1>7, <1>10
  <2> HIDE DEF c, a, r, g
  <2>2. Total(NetOf(r, g)) = Total(g) - TradingTotal(r.totals) - r.totals["borrow"]
    BY <2>1, NetAddsUp
  <2> QED
    BY <2>2 DEF r, g
<1>12. Total(NetOf(run, gross)) = 0
  <2> HIDE DEF run, gross, totals
  <2> QED
    BY <1>3, <1>4, <1>7, <1>11
<1> QED
  BY <1>9, <1>10, <1>12

\* What a book has sold short.
Sold(weights) == -SumOver(weights, ShortsOf(weights))

LEMMA SoldInt ==
  ASSUME NEW weights, NamedBook(weights)
  PROVE  /\ IsFiniteSet(ShortsOf(weights)) /\ Sold(weights) \in Int
<1> DEFINE sold == ShortsOf(weights)
<1>1. sold \in SUBSET Names /\ sold \in SUBSET DOMAIN weights
  BY DEF NamedBook, ShortsOf
<1>2. IsFiniteSet(Names)
  BY PortfolioAssumption
<1> HIDE DEF sold
<1>3. IsFiniteSet(sold) /\ \A s \in sold : weights[s] \in Int
  BY <1>1, <1>2, FS_Subset DEF NamedBook
<1>4. SumOver(weights, sold) \in Int
  BY <1>3, SumOverWhole
<1> QED
  BY <1>3, <1>4 DEF Sold, sold

\* After the first month every book is a fractile one, with somebody in its short leg.
LEMMA LaterBooksSell ==
  ASSUME NEW month, month # 0, NEW a \in Asked(month), Answer(a).error = "none"
  PROVE  Sold(Answer(a).weights) > 0
<1> DEFINE fractile == [level : {1}, k : Counts("fractile_ls"), cap : {NoCap}, mode : {"none"},
                        beta : {<<>>}, scores : TwoScores]
           w == Answer(a).weights
           f == [s \in DOMAIN w |-> -w[s]]
           shorts == ShortsOf(w)
<1>1. a \in fractile /\ a.k = 2
  BY Zenon DEF Asked
<1>2. a.level = 1 /\ a.scores \in TwoScores
  BY <1>1
<1>3. IsCrossSection(a.scores) /\ a.k \in Int /\ Half \in Nat
  <2>1. IsFiniteSet(Names) /\ Names \subseteq Int /\ Half \in Nat
    BY PortfolioAssumption
  <2>2. a.scores \in [Names -> {0, 9}]
    BY <1>2 DEF TwoScores
  <2>3. DOMAIN a.scores = Names /\ a.scores \in [Names -> Int]
    BY <2>2
  <2> QED
    BY <1>1, <2>1, <2>3 DEF IsCrossSection
<1>4. Answer(a) = BuildSimple(a.scores, a.k, Half)
  BY <1>2 DEF Answer
<1>5. FractileErrors(a.scores, a.k) = "none"
  BY <1>4 DEF BuildSimple, Refused
<1>6. shorts = Bottom(a.scores, a.k)
  <2> DEFINE marked == Answer(a)
             longs == LongsOf(marked.weights)
  <2>1. marked = BuildSimple(a.scores, a.k, Half) /\ marked.error = "none"
    BY <1>4
  <2>2. shorts = ShortsOf(marked.weights) /\ longs = LongsOf(marked.weights)
    OBVIOUS
  <2> DEFINE scores == a.scores
             k == a.k
             half == Half
  <2>3. IsCrossSection(scores) /\ k \in Int /\ half \in Nat /\ marked = BuildSimple(scores, k, half)
        /\ marked.error = "none"
    BY <1>3, <2>1
  <2> HIDE DEF marked, shorts, longs, scores, k, half
  <2>4. shorts = Bottom(scores, k)
    BY <2>2, <2>3, SimpleBookBalanced
  <2> QED
    BY <2>4 DEF scores, k
<1>7. Cardinality(shorts) \in Nat \ {0}
  BY <1>3, <1>5, <1>6, Legs
<1>8. NamedBook(w)
  BY AnswerNamed
<1>9. IsFiniteSet(shorts) /\ Sold(w) \in Int
  BY <1>8, SoldInt
<1>10. PICK r \in shorts : TRUE
  BY <1>7, <1>9, FS_EmptySet
<1>11. \A s \in shorts : f[s] \in Nat /\ f[s] > 0 /\ w[s] \in Int
  BY <1>8 DEF NamedBook, ShortsOf
<1>12. SumOver(f, shorts) = Sold(w)
  <2> DEFINE v == [s \in shorts |-> (-1) * w[s]]
  <2>1. ASSUME NEW s \in shorts PROVE v[s] = f[s]
    <3>1. v[s] = (-1) * w[s] /\ w[s] \in Int
      BY <1>11
    <3>2. s \in DOMAIN w
      BY DEF ShortsOf
    <3>3. f[s] = -w[s]
      BY <3>2
    <3> HIDE DEF v, f, w
    <3> QED
      BY <3>1, <3>3
  <2> HIDE DEF v, f
  <2>2. SumOver(v, shorts) = SumOver(f, shorts)
    BY <2>1, SumOverEqual
  <2>3. \A s \in shorts : w[s] \in Int
    BY <1>11
  <2> HIDE DEF shorts, w
  <2>4. SumOver(v, shorts) = (-1) * SumOver(w, shorts)
    BY <1>9, <2>3, SumOverTimes DEF v
  <2>5. SumOver(w, shorts) \in Int
    BY <1>9, <2>3, SumOverWhole
  <2>6. Sold(w) = -SumOver(w, shorts)
    BY DEF Sold, shorts
  <2> QED
    BY <2>2, <2>4, <2>5, <2>6
<1> HIDE DEF f, shorts, w
<1>13. f[r] <= SumOver(f, shorts)
  BY <1>9, <1>10, <1>11, SumOverTerm
<1> QED
  BY <1>9, <1>10, <1>11, <1>12, <1>13 DEF w

\* A month of a run: what the adapter was asked and what it answered.
MonthOf(cost, i, r) ==
  /\ NamedBook(r.call.trades)
  /\ r.call.date = 73 * (i - 1) /\ r.call.dcf = <<73, 365>>
  /\ r.call.short \in Int /\ (i > 1 => r.call.short # 0)
  /\ r.call.twoWay = SumAlong(Notional, Trades(r.call.trades, r.call.date, Attributes))
  /\ r.result = Run(cost, Trades(r.call.trades, r.call.date, Attributes),
                    Marks(r.call.short, <<73, 365>>, DenominatorOf(cost.borrow), r.call.date), 1)

\* The inductive invariant: every record is a month, in order, and once a month
\* was charged every book sells short.
MonthsInv ==
  /\ SliceInv
  /\ book # None /\ book.error = "none" /\ Len(records) > 0 => Sold(book.weights) > 0
  /\ \A i \in DOMAIN records : MonthOf(stack, i, records[i])

\* The adapter charges only trades whose sizes are those of the accounting engine.
LEMMA ChargedAgrees ==
  ASSUME NEW call, NEW cost, NEW denominator, ChargeErrors(cost, call, denominator, Attributes) = {}
  PROVE  call.twoWay = SumAlong(Notional, Trades(call.trades, call.date, Attributes))
<1> DEFINE zero == \E s \in DOMAIN call.trades : call.trades[s] = 0
           twoWay == SumAlong(Notional, Trades(call.trades, call.date, Attributes))
           others == IF call.short # 0 /\ call.dcf[1] # 0 /\ ~WholeDays(call.dcf, denominator)
                     THEN {"fractional days"}
                     ELSE RunErrors(cost, Trades(call.trades, call.date, Attributes),
                                    Marks(call.short, call.dcf, denominator, call.date), call.nav)
<1>1. ChargeErrors(cost, call, denominator, Attributes)
        = IF zero THEN {"zero trade"} ELSE IF twoWay # call.twoWay THEN {"trade list disagrees"} ELSE others
  BY Zenon DEF ChargeErrors
<1> HIDE DEF zero, twoWay, others
<1>2. twoWay = call.twoWay
  BY <1>1
<1> QED
  BY <1>2 DEF twoWay

LEMMA ChargeIsMonth ==
  ASSUME MonthsInv, ChargeBook, NEW i \in Nat, i = Len(records) + 1,
         NEW r, r = [call |-> Call, result |-> PeriodCharges(stack, Call, Denominator, Attributes)]
  PROVE  MonthOf(stack, i, r)
<1>1. NamedBook(book.weights) /\ NamedBook(held) /\ book # None /\ book.error = "none"
  BY DEF MonthsInv, SliceInv, ChargeBook
<1>2. /\ Call.trades = Moves /\ Call.date = 73 * Len(records) /\ Call.dcf = <<73, 365>> /\ Call.nav = 1
      /\ Call.short = -SumOver(book.weights, {s \in DOMAIN book.weights : book.weights[s] < 0})
  BY DEF Call
<1>3. NamedBook(Call.trades)
  BY <1>1, <1>2, MovesNamed
<1>4. Call.short = Sold(book.weights)
  BY <1>2, Zenon DEF Sold, ShortsOf
<1>5. Len(records) \in Nat
  BY DEF MonthsInv, SliceInv
<1>6. Call.short \in Int /\ (i > 1 => Call.short # 0)
  <2>1. Sold(book.weights) \in Int
    BY <1>1, SoldInt
  <2>2. Len(records) > 0 => Sold(book.weights) > 0
    BY <1>1 DEF MonthsInv
  <2> QED
    BY <1>4, <1>5, <2>1, <2>2
<1>7. Call.twoWay = SumAlong(Notional, Trades(Call.trades, Call.date, Attributes))
  <2> DEFINE call == Call
             denominator == Denominator
  <2>1. ChargeErrors(stack, call, denominator, Attributes) = {}
    BY DEF ChargeBook
  <2> HIDE DEF call, denominator
  <2>2. call.twoWay = SumAlong(Notional, Trades(call.trades, call.date, Attributes))
    BY <2>1, ChargedAgrees
  <2> QED
    BY <2>2, Zenon DEF call
<1>8. Denominator = DenominatorOf(stack.borrow)
  BY DEF Denominator, DenominatorOf
<1>9. PeriodCharges(stack, Call, Denominator, Attributes)
        = Run(stack, Trades(Call.trades, Call.date, Attributes),
              Marks(Call.short, <<73, 365>>, DenominatorOf(stack.borrow), Call.date), 1)
  BY <1>2, <1>8, Zenon DEF PeriodCharges
<1>10. Call.date = 73 * (i - 1)
  BY <1>2, <1>5
<1>11. r.call = Call /\ r.result = PeriodCharges(stack, Call, Denominator, Attributes)
  OBVIOUS
<1> QED
  BY <1>2, <1>3, <1>6, <1>7, <1>9, <1>10, <1>11, Zenon DEF MonthOf

LEMMA MonthsInit == PartInit => MonthsInv
<1> SUFFICES ASSUME PartInit PROVE MonthsInv
  OBVIOUS
<1>1. book = None /\ records = <<>>
  BY DEF PartInit, BooksInit
<1>2. DOMAIN records = {}
  BY <1>1
<1>3. SliceInv
  BY SliceInit
<1> QED
  BY <1>1, <1>2, <1>3 DEF MonthsInv

LEMMA MonthsStep == MonthsInv /\ [PartNext]_<<part, vars, books>> => MonthsInv'
<1> SUFFICES ASSUME MonthsInv, [PartNext]_<<part, vars, books>> PROVE MonthsInv'
  OBVIOUS
<1>1. SliceInv /\ SliceInv'
  BY SliceStep DEF MonthsInv
<1>2. CASE UNCHANGED <<stack, book, records>>
  <2>1. \A i \in DOMAIN records' : MonthOf(stack', i, records'[i])
    BY <1>2 DEF MonthsInv
  <2> QED
    BY <1>1, <1>2, <2>1 DEF MonthsInv
<1>3. CASE Construct
  <2>1. PICK a \in Asked(Len(records)) : book' = Answer(a)
    BY <1>3 DEF Construct
  <2>2. UNCHANGED <<stack, records>>
    BY <1>3 DEF Construct
  <2>3. book'.error = "none" /\ Len(records) > 0 => Sold(book'.weights) > 0
    <3> SUFFICES ASSUME book'.error = "none", Len(records) > 0 PROVE Sold(book'.weights) > 0
      OBVIOUS
    <3>1. Len(records) # 0
      BY <1>1 DEF SliceInv
    <3> QED
      BY <2>1, <3>1, LaterBooksSell
  <2>4. \A i \in DOMAIN records' : MonthOf(stack', i, records'[i])
    BY <2>2 DEF MonthsInv
  <2> QED
    BY <1>1, <2>2, <2>3, <2>4 DEF MonthsInv
<1>4. CASE ChargeBook
  <2> DEFINE r == [call |-> Call, result |-> PeriodCharges(stack, Call, Denominator, Attributes)]
             last == Len(records) + 1
  <2>1. PICK S : records \in Seq(S)
    BY <1>1 DEF SliceInv
  <2>2. last \in Nat /\ last = Len(records) + 1
    BY <2>1
  <2>3. records' = Append(records, r) /\ book' = None /\ UNCHANGED stack
    BY <1>4 DEF ChargeBook
  <2>4. MonthOf(stack, last, r)
    <3>1. r = [call |-> Call, result |-> PeriodCharges(stack, Call, Denominator, Attributes)]
      OBVIOUS
    <3> HIDE DEF r, last
    <3> QED
      BY <1>4, <2>2, <3>1, ChargeIsMonth
  <2> HIDE DEF r, last
  <2>5. ASSUME NEW i \in DOMAIN records' PROVE MonthOf(stack', i, records'[i])
    <3>1. (i \in DOMAIN records /\ records'[i] = records[i]) \/ (i = last /\ records'[i] = r)
      BY <2>1, <2>2, <2>3
    <3> QED
      BY <2>3, <2>4, <3>1 DEF MonthsInv
  <2> QED
    BY <1>1, <2>3, <2>5 DEF MonthsInv
<1>5. UNCHANGED <<stack, book, records>> \/ Construct \/ ChargeBook
  BY DEF PartNext, BooksNext, AskOptimizer, books
<1> QED
  BY <1>2, <1>3, <1>4, <1>5

\* A ledger of months, and what it holds.
Ledger(cost, list, n) ==
  /\ cost \in Stacks /\ n \in Nat /\ DOMAIN list = 1 .. n /\ Len(list) = n
  /\ \A i \in 1 .. n : MonthOf(cost, i, list[i])
TradesOf(list) == [i \in DOMAIN list |-> Trades(list[i].call.trades, list[i].call.date, Attributes)]
ShortsIn(cost, list) ==
  [i \in DOMAIN list |-> Marks(list[i].call.short, list[i].call.dcf, DenominatorOf(cost.borrow), list[i].call.date)]
DatesIn(list) == [i \in DOMAIN list |-> list[i].call.date]

\* The rows and the mark of month i.
RowsHold(cost, i, rowsOf) ==
  /\ Len(rowsOf) \in Nat /\ DOMAIN rowsOf = 1 .. Len(rowsOf)
  /\ \A j \in DOMAIN rowsOf : /\ rowsOf[j].date = 73 * (i - 1) /\ Notional(rowsOf[j]) \in Nat
                              /\ \A b \in TradeBuckets : PriceTrades(cost, rowsOf, 1)[j].by[b] \in Int
MarksHold(cost, i, marks) ==
  /\ Len(marks) \in Nat /\ DOMAIN marks = 1 .. Len(marks)
  /\ \A j \in DOMAIN marks : /\ marks[j].date = 73 * (i - 1) /\ Accrue(cost, marks[j]).amount \in Int
                             /\ marks[j].sec = ShortBook
                             /\ DenominatorOf(cost.borrow) = 365 => marks[j].days = 73
  /\ i > 1 => 1 \in DOMAIN marks

LEMMA LedgerRows ==
  ASSUME NEW cost, NEW list, NEW n, Ledger(cost, list, n), NEW i \in 1 .. n,
         NEW rowsOf, rowsOf = TradesOf(list)[i], NEW marks, marks = ShortsIn(cost, list)[i]
  PROVE  /\ RowsHold(cost, i, rowsOf) /\ MarksHold(cost, i, marks)
         /\ DatesIn(list)[i] = 73 * (i - 1)
         /\ list[i].result = Run(cost, rowsOf, marks, 1)
<1> DEFINE r == list[i]
           moved == r.call.trades
           date == r.call.date
           short == r.call.short
<1>1. MonthOf(cost, i, r) /\ cost \in Stacks /\ i \in DOMAIN list
  BY DEF Ledger
<1>2. /\ NamedBook(moved) /\ date = 73 * (i - 1) /\ r.call.dcf = <<73, 365>> /\ short \in Int
      /\ i > 1 => short # 0
      /\ r.result = Run(cost, Trades(moved, date, Attributes),
                        Marks(short, <<73, 365>>, DenominatorOf(cost.borrow), date), 1)
  BY <1>1, Zenon DEF MonthOf
<1>3. rowsOf = Trades(moved, date, Attributes) /\ DatesIn(list)[i] = date
      /\ marks = Marks(short, r.call.dcf, DenominatorOf(cost.borrow), date)
  BY <1>1 DEF TradesOf, ShortsIn, DatesIn
<1> HIDE DEF r, moved, date, short
<1>4. /\ Len(rowsOf) \in Nat /\ DOMAIN rowsOf = 1 .. Len(rowsOf)
      /\ \A j \in DOMAIN rowsOf : /\ TypedTrade(rowsOf[j]) /\ rowsOf[j].adv = 6 /\ rowsOf[j].spread = 4
                                  /\ rowsOf[j].date = date /\ Notional(rowsOf[j]) \in Nat
  BY <1>2, <1>3, MonthRows
<1>5. ASSUME NEW j \in DOMAIN rowsOf, NEW b \in TradeBuckets PROVE PriceTrades(cost, rowsOf, 1)[j].by[b] \in Int
  <2> DEFINE m == Len(rowsOf)
  <2>1. m \in Nat /\ DOMAIN rowsOf = 1 .. m /\ j \in 1 .. m
        /\ \A l \in 1 .. m : TypedTrade(rowsOf[l]) /\ rowsOf[l].adv = 6 /\ rowsOf[l].spread = 4
    BY <1>4
  <2> HIDE DEF m
  <2> QED
    BY <1>1, <2>1, RowWhole
<1>6. MarksAre(cost, short, date, marks)
  <2>1. marks = Marks(short, <<73, 365>>, DenominatorOf(cost.borrow), date)
    BY <1>2, <1>3
  <2> QED
    BY <1>1, <1>2, <2>1, MonthMarks
<1>7. list[i].result = Run(cost, rowsOf, marks, 1)
  <2>1. r.result = Run(cost, rowsOf, marks, 1)
    BY <1>2, <1>3
  <2> QED
    BY <2>1 DEF r
<1>8. RowsHold(cost, i, rowsOf)
  BY <1>2, <1>4, <1>5 DEF RowsHold
<1>9. MarksHold(cost, i, marks)
  BY <1>2, <1>6 DEF MarksHold, MarksAre
<1> QED
  BY <1>2, <1>3, <1>7, <1>8, <1>9

LEMMA LedgerMonths ==
  ASSUME NEW cost, NEW list, NEW n, Ledger(cost, list, n)
  PROVE  MonthsOf(cost, 1, TradesOf(list), ShortsIn(cost, list), n, DatesIn(list))
<1> DEFINE trades == TradesOf(list)
           shorts == ShortsIn(cost, list)
           dates == DatesIn(list)
<1>1. n \in Nat /\ DOMAIN trades = 1 .. n /\ DOMAIN shorts = 1 .. n
  BY DEF Ledger, TradesOf, ShortsIn
<1>2. trades = TradesOf(list) /\ shorts = ShortsIn(cost, list) /\ dates = DatesIn(list)
  OBVIOUS
<1> HIDE DEF trades, shorts, dates
<1>3. ASSUME NEW i \in 1 .. n
      PROVE  RowsHold(cost, i, trades[i]) /\ MarksHold(cost, i, shorts[i]) /\ dates[i] = 73 * (i - 1)
  <2> DEFINE a == trades[i]
             c == shorts[i]
  <2>1. a = TradesOf(list)[i] /\ c = ShortsIn(cost, list)[i]
    BY <1>2
  <2> HIDE DEF a, c
  <2>2. RowsHold(cost, i, a) /\ MarksHold(cost, i, c) /\ DatesIn(list)[i] = 73 * (i - 1)
    BY <2>1, LedgerRows
  <2> QED
    BY <1>2, <2>2 DEF a, c
<1>4. Parts(trades, n) /\ Parts(shorts, n)
  BY <1>1, <1>3 DEF Parts, RowsHold, MarksHold
<1>5. ASSUME NEW i \in 1 .. n, NEW h \in 1 .. n, dates[i] = dates[h] PROVE i = h
  <2>1. dates[i] = 73 * (i - 1) /\ dates[h] = 73 * (h - 1)
    BY <1>3
  <2>2. i \in Int /\ h \in Int
    BY <1>1
  <2>3. 73 * (i - 1) = 73 * (h - 1)
    BY <1>5, <2>1
  <2> QED
    BY <2>2, <2>3
<1>6. Dated(trades, n, dates)
  <2>1. ASSUME NEW i \in 1 .. n, NEW j \in DOMAIN trades[i] PROVE trades[i][j].date = dates[i]
    BY <1>3 DEF RowsHold
  <2> QED
    BY <1>4, <1>5, <2>1, Zenon DEF Dated
<1>7. Dated(shorts, n, dates)
  <2>1. ASSUME NEW i \in 1 .. n, NEW j \in DOMAIN shorts[i] PROVE shorts[i][j].date = dates[i]
    BY <1>3 DEF MarksHold
  <2> QED
    BY <1>4, <1>5, <2>1, Zenon DEF Dated
<1>8. ASSUME NEW i \in 1 .. n, NEW j \in DOMAIN trades[i]
      PROVE  /\ Notional(trades[i][j]) \in Int
             /\ \A b \in TradeBuckets : PriceTrades(cost, trades[i], 1)[j].by[b] \in Int
  <2>1. RowsHold(cost, i, trades[i])
    BY <1>3
  <2>2. Notional(trades[i][j]) \in Nat
        /\ \A b \in TradeBuckets : PriceTrades(cost, trades[i], 1)[j].by[b] \in Int
    BY <2>1, Zenon DEF RowsHold
  <2> QED
    BY <2>2
<1>9. ASSUME NEW i \in 1 .. n, NEW j \in DOMAIN shorts[i] PROVE Accrue(cost, shorts[i][j]).amount \in Int
  BY <1>3 DEF MarksHold
<1>10. MonthsOf(cost, 1, trades, shorts, n, dates)
  BY <1>6, <1>7, <1>8, <1>9, Zenon DEF MonthsOf
<1> QED
  BY <1>2, <1>10

\* In total and by date, the run over all months charges what the months were charged.
LEMMA LedgerAddsUp ==
  ASSUME NEW cost, NEW list, NEW n, Ledger(cost, list, n),
         NEW trades, trades = TradesOf(list), NEW shorts, shorts = ShortsIn(cost, list),
         NEW dates, dates = DatesIn(list),
         NEW whole, whole = Run(cost, Concatenated(trades), Concatenated(shorts), 1)
  PROVE  AddUp(whole, [i \in 1 .. n |-> list[i].result], trades, shorts, n, dates)
<1> DEFINE aum == 1
           month == RunsOf(cost, aum, trades, shorts, n)
<1>1. MonthsOf(cost, 1, trades, shorts, n, dates)
  BY LedgerMonths
<1>2. ASSUME NEW i \in 1 .. n PROVE month[i] = list[i].result
  <2> DEFINE a == trades[i]
             c == shorts[i]
  <2>1. a = TradesOf(list)[i] /\ c = ShortsIn(cost, list)[i]
    OBVIOUS
  <2>2. month[i] = Run(cost, a, c, aum)
    BY Zenon DEF RunsOf
  <2> HIDE DEF a, c, month
  <2>3. list[i].result = Run(cost, a, c, 1)
    BY <2>1, LedgerRows
  <2> QED
    BY <2>2, <2>3
<1>3. month = [i \in 1 .. n |-> list[i].result]
  <2>1. month = [i \in 1 .. n |-> month[i]]
    BY DEF RunsOf
  <2> HIDE DEF month
  <2> QED
    BY <1>2, <2>1
<1>4. MonthsOf(cost, aum, trades, shorts, n, dates) /\ month = RunsOf(cost, aum, trades, shorts, n)
      /\ whole = Run(cost, Concatenated(trades), Concatenated(shorts), aum)
  BY <1>1
<1> HIDE DEF month, aum
<1>5. AddUp(whole, month, trades, shorts, n, dates)
  BY <1>4, MonthsAddUp
<1> QED
  BY <1>3, <1>5

\* A month without trades and marks is charged nothing.
LEMMA QuietMonth ==
  ASSUME NEW cost, NEW a, NEW c, NEW aum, DOMAIN a = {}, DOMAIN c = {}, NEW b \in Buckets
  PROVE  Run(cost, a, c, aum).totals[b] = 0
<1> DEFINE costs == PriceTrades(cost, a, aum)
           accruals == AccrualsOf(cost, c)
<1>1. DOMAIN costs = {} /\ DOMAIN accruals = {}
  BY RowsOfRun, MarksOfRun
<1>2. Run(cost, a, c, aum).totals = Totals(costs, accruals)
  BY RunAddsUp
<1>3. Totals(costs, accruals)[b] = SumOver(Column(costs, accruals, b), Places(costs, accruals, b))
  <2> HIDE DEF costs, accruals
  <2> QED
    BY TotalsAre
<1>4. Places(costs, accruals, b) = {}
  <2> HIDE DEF costs, accruals
  <2> QED
    BY <1>1 DEF Places
<1> DEFINE f == Column(costs, accruals, b)
<1>5. SumOver(f, {}) = 0
  <2> HIDE DEF f
  <2>1. IsFiniteSet({}) /\ Cardinality({}) = 0 /\ \A s \in {} : f[s] = 0
    BY FS_EmptySet
  <2>2. SumOver(f, {}) = 0 * Cardinality({})
    BY <2>1, SumOverConstant
  <2> QED
    BY <2>1, <2>2
<1> HIDE DEF costs, accruals, f
<1> QED
  BY <1>2, <1>3, <1>4, <1>5 DEF costs, accruals, f

\* Every mark covers the days since the one before it.
LEMMA NothingUncovered ==
  ASSUME NEW cost, NEW list, NEW n, Ledger(cost, list, n), DenominatorOf(cost.borrow) = 365,
         NEW marks, marks = Concatenated(ShortsIn(cost, list))
  PROVE  CoverageGaps(marks) = {}
<1> DEFINE shorts == ShortsIn(cost, list)
<1>1. Parts(shorts, n) /\ n \in Nat /\ shorts = ShortsIn(cost, list) /\ marks = Concatenated(shorts)
  BY LedgerMonths DEF MonthsOf, Dated, Parts
<1> HIDE DEF shorts
<1>2. ASSUME NEW i \in 1 .. n PROVE MarksHold(cost, i, shorts[i])
  <2> DEFINE c == shorts[i]
             a == TradesOf(list)[i]
  <2>1. c = ShortsIn(cost, list)[i] /\ a = TradesOf(list)[i]
    BY <1>1
  <2> HIDE DEF a, c
  <2>2. MarksHold(cost, i, c)
    BY <2>1, LedgerRows
  <2> QED
    BY <2>2 DEF c
<1>3. ASSUME NEW i \in 1 .. n, NEW j \in DOMAIN shorts[i]
      PROVE  /\ Starts(shorts)[i] + j \in DOMAIN marks
             /\ marks[Starts(shorts)[i] + j].date = 73 * (i - 1)
             /\ marks[Starts(shorts)[i] + j].sec = ShortBook /\ marks[Starts(shorts)[i] + j].days = 73
  <2>1. Starts(shorts)[i] + j \in DOMAIN marks /\ marks[Starts(shorts)[i] + j] = shorts[i][j]
    BY <1>1, PlacesHold
  <2> QED
    BY <1>2, <2>1 DEF MarksHold
<1>4. ASSUME NEW k \in DOMAIN marks
      PROVE  \E i \in 1 .. n : marks[k].date = 73 * (i - 1) /\ marks[k].sec = ShortBook /\ marks[k].days = 73
  <2>1. PICK i \in 1 .. n : \E j \in DOMAIN shorts[i] : k = Starts(shorts)[i] + j
    BY <1>1, PlaceFound
  <2>2. PICK j \in DOMAIN shorts[i] : k = Starts(shorts)[i] + j
    BY <2>1
  <2> QED
    BY <1>3, <2>2
<1>5. ASSUME NEW k \in DOMAIN marks, NEW l \in DOMAIN marks, Neighbours(marks, k, l)
      PROVE  marks[l].days = marks[l].date - marks[k].date
  <2>1. PICK i \in 1 .. n : marks[k].date = 73 * (i - 1) /\ marks[k].sec = ShortBook /\ marks[k].days = 73
    BY <1>4
  <2>2. PICK h \in 1 .. n : marks[l].date = 73 * (h - 1) /\ marks[l].sec = ShortBook /\ marks[l].days = 73
    BY <1>4
  <2>3. marks[k].date < marks[l].date
        /\ ~ \E m \in DOMAIN marks : /\ marks[m].sec = marks[k].sec /\ marks[k].date < marks[m].date
                                     /\ marks[m].date < marks[l].date
    BY <1>5 DEF Neighbours
  <2>4. i \in Int /\ h \in Int /\ i >= 1 /\ h <= n
    BY <1>1
  <2>5. i < h
    BY <2>1, <2>2, <2>3, <2>4
  <2>6. h = i + 1
    <3> SUFFICES ASSUME h > i + 1 PROVE FALSE
      BY <2>4, <2>5
    <3> DEFINE q == i + 1
    <3>1. q \in 1 .. n /\ q > 1 /\ q \in Int /\ q < h /\ i < q /\ q - 1 = i
      BY <1>1, <2>4
    <3> HIDE DEF q
    <3>2. 1 \in DOMAIN shorts[q]
      BY <1>2, <3>1 DEF MarksHold
    <3> DEFINE m == Starts(shorts)[q] + 1
    <3>3. m \in DOMAIN marks /\ marks[m].date = 73 * (q - 1) /\ marks[m].sec = ShortBook
      BY <1>3, <3>1, <3>2
    <3> HIDE DEF m
    <3>4. 73 * (i - 1) < 73 * (q - 1) /\ 73 * (q - 1) < 73 * (h - 1)
      BY <2>4, <3>1
    <3> QED
      BY <2>1, <2>2, <2>3, <3>3, <3>4
  <2>7. 73 * (h - 1) - 73 * (i - 1) = 73
    BY <2>4, <2>6
  <2> QED
    BY <2>1, <2>2, <2>7
<1> QED
  BY <1>5 DEF CoverageGaps

\* What is left of nothing on the date of a month is what the month was charged.
LEMMA MonthNet ==
  ASSUME NEW whole, NEW gross, NEW d \in DOMAIN gross, gross[d] = 0, NEW result, WholeRow(result.totals),
         d \in DOMAIN whole.periods => whole.periods[d] = result.totals,
         d \notin DOMAIN whole.periods => \A b \in Buckets : result.totals[b] = 0
  PROVE  NetOf(whole, gross)[d] = -(ChargesOf(result).cost + ChargesOf(result).borrow)
<1> DEFINE row == result.totals
           cost == TradingTotal(row)
           borrow == row["borrow"]
<1>1. ChargesOf(result).cost = cost /\ ChargesOf(result).borrow = borrow
  BY DEF ChargesOf
<1>2. cost = row["commission"] + row["spread"] + row["linear"] + row["impact"] + row["penalty"]
  BY RowTotal
<1>3. row["commission"] \in Int /\ row["spread"] \in Int /\ row["linear"] \in Int
      /\ row["impact"] \in Int /\ row["penalty"] \in Int /\ borrow \in Int
  BY DEF WholeRow, Buckets, TradeBuckets
<1>4. cost \in Int
  <2> HIDE DEF cost
  <2> QED
    BY <1>2, <1>3
<1>5. CASE d \in DOMAIN whole.periods
  <2>1. NetOf(whole, gross)[d] = gross[d] - TradingTotal(whole.periods[d]) - whole.periods[d]["borrow"]
    BY <1>5, Zenon DEF NetOf
  <2>2. NetOf(whole, gross)[d] = 0 - cost - borrow
    BY <1>5, <2>1
  <2> HIDE DEF cost, borrow
  <2> QED
    BY <1>1, <1>3, <1>4, <2>2
<1>6. CASE d \notin DOMAIN whole.periods
  <2>1. NetOf(whole, gross)[d] = gross[d]
    BY <1>6, Zenon DEF NetOf
  <2>2. \A b \in Buckets : row[b] = 0
    BY <1>6
  <2>3. row["commission"] = 0 /\ row["spread"] = 0 /\ row["linear"] = 0
        /\ row["impact"] = 0 /\ row["penalty"] = 0 /\ borrow = 0
    BY <2>2 DEF Buckets, TradeBuckets
  <2> HIDE DEF cost, borrow
  <2>4. cost = 0
    BY <1>2, <2>3
  <2>5. NetOf(whole, gross)[d] = 0 - cost - borrow
    BY <1>3, <2>1, <2>3, <2>4
  <2> QED
    BY <1>1, <1>3, <1>4, <2>5
<1> QED
  BY <1>5, <1>6

LEMMA SumOfSizes ==
  ASSUME NEW seq
  PROVE  SumAlong(Notional, seq) = SumOver([j \in DOMAIN seq |-> Notional(seq[j])], DOMAIN seq)
<1> DEFINE f == [j \in DOMAIN seq |-> Notional(seq[j])]
<1>1. SumAlong(Notional, seq) = Total(f)
  BY Zenon DEF SumAlong
<1>2. DOMAIN f = DOMAIN seq
  OBVIOUS
<1> HIDE DEF f
<1>3. SumAlong(Notional, seq) = SumOver(f, DOMAIN seq)
  BY <1>1, <1>2 DEF Total
<1> QED
  BY <1>3 DEF f

\* The months of a ledger break even.
LEMMA LedgerBreaksEven ==
  ASSUME NEW cost, NEW list, NEW n, Ledger(cost, list, n),
         NEW calls, calls = [i \in DOMAIN list |-> list[i].call],
         NEW trades, trades = TradesOf(list)
  PROVE  BreaksEven(calls, Concatenated(trades))
<1> DEFINE dates == DatesIn(list)
           w == [i \in 1 .. n |-> list[i].call.twoWay]
           all == Concatenated(trades)
<1>1. n \in Nat /\ DOMAIN list = 1 .. n /\ DOMAIN calls = 1 .. n /\ \A i \in 1 .. n : calls[i] = list[i].call
  BY DEF Ledger
<1>2. Len(calls) = n
  <2> DEFINE S == {list[i].call : i \in 1 .. n}
  <2>1. calls \in [1 .. n -> S]
    BY <1>1
  <2> HIDE DEF S
  <2>2. calls \in Seq(S)
    BY <1>1, <2>1
  <2> QED
    BY <1>1, <2>2
<1>3. Dated(trades, n, dates)
  <2>1. dates = DatesIn(list)
    OBVIOUS
  <2> HIDE DEF dates
  <2>2. MonthsOf(cost, 1, trades, ShortsIn(cost, list), n, dates)
    BY <2>1, LedgerMonths
  <2> QED
    BY <2>2, Zenon DEF MonthsOf
<1>4. ASSUME NEW i \in 1 .. n
      PROVE  /\ \A j \in DOMAIN trades[i] : Notional(trades[i][j]) \in Nat
             /\ w[i] = SumOver([j \in DOMAIN trades[i] |-> Notional(trades[i][j])], DOMAIN trades[i])
  <2> DEFINE a == trades[i]
             c == ShortsIn(cost, list)[i]
             r == list[i]
  <2>1. a = TradesOf(list)[i] /\ c = ShortsIn(cost, list)[i]
    OBVIOUS
  <2>2. a = Trades(r.call.trades, r.call.date, Attributes)
    BY <1>1 DEF TradesOf
  <2>3. MonthOf(cost, i, r) /\ w[i] = r.call.twoWay
    BY DEF Ledger
  <2> HIDE DEF a, c, r, w
  <2>4. RowsHold(cost, i, a)
    BY <2>1, LedgerRows
  <2>5. \A j \in DOMAIN a : Notional(a[j]) \in Nat
    BY <2>4 DEF RowsHold
  <2>6. r.call.twoWay = SumAlong(Notional, Trades(r.call.trades, r.call.date, Attributes))
    BY <2>3, Zenon DEF MonthOf
  <2>7. SumAlong(Notional, Trades(r.call.trades, r.call.date, Attributes)) = SumAlong(Notional, a)
    BY <2>2, Zenon
  <2>8. SumAlong(Notional, a) = SumOver([j \in DOMAIN a |-> Notional(a[j])], DOMAIN a)
    BY SumOfSizes
  <2>9. w[i] = SumOver([j \in DOMAIN a |-> Notional(a[j])], DOMAIN a)
    BY <2>3, <2>6, <2>7, <2>8, Zenon
  <2> QED
    BY <2>5, <2>9, Zenon DEF a
<1>5. Traded(trades, n, w)
  <2> HIDE DEF w
  <2> QED
    BY <1>4, Zenon DEF Traded
<1>6. ASSUME NEW i \in 1 .. n PROVE calls[i].date = dates[i] /\ calls[i].twoWay = w[i]
  BY <1>1 DEF DatesIn
<1>7. all = Concatenated(trades)
  OBVIOUS
<1> HIDE DEF dates, w, all
<1>8. Called(calls, trades, n, dates, w)
  BY <1>1, <1>2, <1>3, <1>5, <1>6, Zenon DEF Called
<1>9. BreaksEven(calls, all)
  BY <1>7, <1>8, BreakEvenHolds
<1> QED
  BY <1>7, <1>9

\* Month for month, the adapter's charges are those of one run of the cost model
\* over all trades and all marks, the marks leave no day of a 365-day year
\* uncovered, and the rate that eats up the gross profit is the break-even one.
THEOREM MonthsAreOneRun == PartSpec => []PeriodsAddUp
<1>1. ASSUME MonthsInv PROVE PeriodsAddUp
  <2> DEFINE n == Len(records)
             calls == [i \in DOMAIN records |-> records[i].call]
             trades == [i \in DOMAIN calls |-> Trades(calls[i].trades, calls[i].date, Attributes)]
             shorts == [i \in DOMAIN calls |-> Marks(calls[i].short, calls[i].dcf, Denominator, calls[i].date)]
             list == Concatenated(trades)
             marks == Concatenated(shorts)
             whole == Run(stack, list, marks, 1)
             nothing == [d \in {calls[j].date : j \in DOMAIN calls} |-> 0]
             dates == DatesIn(records)
             month == [i \in 1 .. n |-> records[i].result]
  <2>1. DOMAIN records = 1 .. n /\ n \in Nat /\ stack \in Stacks
    BY <1>1 DEF MonthsInv, SliceInv
  <2>2. Ledger(stack, records, n)
    BY <1>1, <2>1 DEF Ledger, MonthsInv
  <2>3. Denominator = DenominatorOf(stack.borrow)
    BY DEF Denominator, DenominatorOf
  <2>4. DOMAIN calls = DOMAIN records /\ \A i \in DOMAIN records : calls[i] = records[i].call
    OBVIOUS
  <2>5. trades = TradesOf(records)
    BY <2>4, Zenon DEF TradesOf
  <2>6. shorts = ShortsIn(stack, records)
    BY <2>3, <2>4, Zenon DEF ShortsIn
  <2>7. list = Concatenated(trades) /\ marks = Concatenated(shorts) /\ whole = Run(stack, list, marks, 1)
        /\ dates = DatesIn(records) /\ calls = [i \in DOMAIN records |-> records[i].call]
    OBVIOUS
  <2>8. DOMAIN nothing = {calls[j].date : j \in DOMAIN calls} /\ \A d \in DOMAIN nothing : nothing[d] = 0
    OBVIOUS
  <2>9. \A i \in 1 .. n : month[i] = records[i].result /\ dates[i] = calls[i].date /\ calls[i].date \in DOMAIN nothing
    BY <2>1 DEF DatesIn
  <2>10. DOMAIN whole.totals = Buckets
    <3> HIDE DEF list, marks
    <3> QED
      BY Zenon DEF Run, Totals, TotalsOf, Buckets
  <2>11. month = [i \in 1 .. n |-> records[i].result]
    OBVIOUS
  <2> HIDE DEF n, trades, shorts, calls, list, marks, whole, nothing, dates, month
  <2>12. AddUp(whole, month, trades, shorts, n, dates)
    <3>1. whole = Run(stack, Concatenated(trades), Concatenated(shorts), 1)
      BY <2>7
    <3>2. AddUp(whole, [i \in 1 .. n |-> records[i].result], trades, shorts, n, dates)
      BY <2>2, <2>5, <2>6, <2>7, <3>1, LedgerAddsUp
    <3> QED
      BY <2>11, <3>2
  <2>13. ASSUME NEW b \in DOMAIN whole.totals
         PROVE  whole.totals[b] = SumAlong(LAMBDA r : r.result.totals[b], records)
    <3> DEFINE f == [i \in DOMAIN records |-> records[i].result.totals[b]]
               g == [i \in 1 .. n |-> month[i].totals[b]]
    <3>1. SumAlong(LAMBDA r : r.result.totals[b], records) = Total(f)
      BY Zenon DEF SumAlong
    <3>2. whole.totals[b] = SumOver(g, 1 .. n)
      BY <2>10, <2>12, Zenon DEF AddUp
    <3>3. f = g /\ DOMAIN f = 1 .. n
      BY <2>1, <2>9
    <3> HIDE DEF f, g
    <3> QED
      BY <3>1, <3>2, <3>3 DEF Total
  <2>14. ASSUME NEW i \in DOMAIN records
         PROVE  /\ calls[i].date \in DOMAIN whole.periods <=> DOMAIN trades[i] \cup DOMAIN shorts[i] # {}
                /\ calls[i].date \in DOMAIN whole.periods
                     => whole.periods[calls[i].date] = records[i].result.totals
                /\ NetOf(whole, nothing)[calls[i].date]
                     = -(ChargesOf(records[i].result).cost + ChargesOf(records[i].result).borrow)
    <3> DEFINE d == calls[i].date
               result == records[i].result
    <3>1. i \in 1 .. n /\ month[i] = result /\ dates[i] = d /\ d \in DOMAIN nothing /\ nothing[d] = 0
      BY <2>1, <2>8, <2>9
    <3>2. /\ d \in DOMAIN whole.periods <=> DOMAIN trades[i] \cup DOMAIN shorts[i] # {}
          /\ d \in DOMAIN whole.periods => whole.periods[d] = result.totals
          /\ WholeRow(result.totals)
      BY <2>12, <3>1, Zenon DEF AddUp
    <3>3. ASSUME d \notin DOMAIN whole.periods, NEW b \in Buckets PROVE result.totals[b] = 0
      <4> DEFINE a == trades[i]
                 c == shorts[i]
                 aum == 1
      <4>1. DOMAIN a = {} /\ DOMAIN c = {}
        BY <3>2, <3>3
      <4>2. a = TradesOf(records)[i] /\ c = ShortsIn(stack, records)[i]
        BY <2>5, <2>6
      <4>3. result = Run(stack, a, c, aum)
        <5> HIDE DEF a, c, result
        <5>1. records[i].result = Run(stack, a, c, 1)
          BY <2>2, <3>1, <4>2, LedgerRows
        <5> QED
          BY <5>1 DEF result
      <4> HIDE DEF a, c, aum
      <4>4. Run(stack, a, c, aum).totals[b] = 0
        BY <4>1, QuietMonth
      <4> QED
        BY <4>3, <4>4
    <3> HIDE DEF d, result
    <3>4. NetOf(whole, nothing)[d] = -(ChargesOf(result).cost + ChargesOf(result).borrow)
      BY <3>1, <3>2, <3>3, MonthNet
    <3> QED
      BY <3>2, <3>4 DEF d, result
  <2>15. ASSUME Denominator = 365 PROVE CoverageGaps(marks) = {}
    BY <2>2, <2>3, <2>6, <2>7, <2>15, NothingUncovered
  <2>16. BreaksEven(calls, list)
    BY <2>2, <2>5, <2>7, LedgerBreaksEven
  <2> QED
    BY <2>13, <2>14, <2>15, <2>16, Zenon
       DEF PeriodsAddUp, calls, trades, shorts, list, marks, whole, nothing
<1> QED
  BY <1>1, MonthsInit, MonthsStep, PTL DEF PartSpec
=============================================================================

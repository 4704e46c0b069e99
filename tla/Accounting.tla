------------------------------ MODULE Accounting ------------------------------
(***************************************************************************)
(* The position ledger (portfolio/accounting.py, run_accounting): at every *)
(* rebalance the book is traded to a target and charged, then marked step  *)
(* by step, then closed with a row that two computations must agree on.    *)
(*                                                                         *)
(* Weights and returns are whole (a return of -1 loses everything, of 1    *)
(* doubles), so that values stay integers.  Target, returns, terminations  *)
(* and charges are the caller's and the cost model's: any of them.         *)
(***************************************************************************)
EXTENDS Figures

CONSTANTS Securities, \* what can be held
          Weights,    \* target weights per unit of NAV
          Returns,    \* returns over one step
          Charges,    \* what the cost model answers, cost or borrow
          InitialNav,
          MaxPeriods, \* bound: periods of a run
          MaxSteps    \* bound: marks of a period

ASSUME AccountingAssumption ==
  /\ IsFiniteSet(Securities)
  /\ Weights \subseteq Int \ {0}
  /\ Returns \subseteq {-1} \cup Nat
  /\ Charges \subseteq Int
  /\ InitialNav \in Nat \ {0}
  /\ MaxPeriods \in Nat \ {0}
  /\ MaxSteps \in Nat \ {0}

VARIABLES at,           \* "rebalance", "mark", "done", or why the run stopped
          cash,
          positions,    \* signed value of each security; 0 is no position
          ended,        \* securities that were ever terminated
          terminations, \* realized terminal events
          period,       \* the open period: see Period
          rows          \* closed periods

vars == <<at, cash, positions, ended, terminations, period, rows>>

\* The locals of one period: target weights, NAV before trading, charges,
\* compound factors, profit and number of the steps so far.
Period == [target : [Securities -> Weights \cup {0}], start : Int, cost : Int, borrow : Int,
           factor : [Securities -> Int], pnl : Int, steps : 0 .. MaxSteps]

Row == [start : Int, end : Int, pnl : Int, cost : Int, borrow : Int]

Refusals == {"nav", "terminated", "charges", "missing", "residual"}

Flat == [s \in Securities |-> 0]

Nav(c, book) == c + Total(book)

Held == {s \in Securities : positions[s] # 0}

-----------------------------------------------------------------------------
Init == /\ at = "rebalance"
        /\ cash = InitialNav
        /\ positions = Flat
        /\ ended = {}
        /\ terminations = {}
        /\ period = [target |-> Flat, start |-> InitialNav, cost |-> 0, borrow |-> 0,
                     factor |-> Flat, pnl |-> 0, steps |-> 0]
        /\ rows = <<>>

Refuse(why) ==
  at' = why /\ UNCHANGED <<cash, positions, ended, terminations, period, rows>>

\* Mutant of Reintroduces: the ban lasts for the period of the event.
ReintroducesNow(target) ==
  \E e \in terminations : e.period = Len(rows) /\ target[e.security] # 0

\* A target names a security that was terminated.
Reintroduces(target) == \E s \in ended : target[s] # 0

\* The target in currency; what it does not name is sold.
Book(target, start) ==
  [s \in Securities |-> IF target[s] = 0 THEN 0 ELSE target[s] * start]

\* Trade to the target; the cash absorbs the imbalance and the cost.  The
\* borrow is known now and charged when the period closes.
Trade(target, cost, borrow) ==
  LET start == Nav(cash, positions)
      book  == Book(target, start)
  IN  /\ at = "rebalance"
      /\ start > 0
      /\ ~ Reintroduces(target)
      /\ cost >= 0 /\ borrow >= 0
      /\ at' = "mark"
      /\ cash' = cash - Total([s \in Securities |-> book[s] - positions[s]]) - cost
      /\ positions' = book
      /\ period' = [target |-> target, start |-> start, cost |-> cost, borrow |-> borrow,
                    factor |-> [s \in Securities |-> 1], pnl |-> 0, steps |-> 0]
      /\ UNCHANGED <<ended, terminations, rows>>

\* Checked in this order: the NAV, the target, the charges.
TradeRefused(target, cost, borrow) ==
  LET start == Nav(cash, positions)
  IN  /\ at = "rebalance"
      /\ \/ start <= 0 /\ Refuse("nav")
         \/ start > 0 /\ Reintroduces(target) /\ Refuse("terminated")
         \/ /\ start > 0 /\ ~ Reintroduces(target)
            /\ cost < 0 \/ borrow < 0
            /\ Refuse("charges")

Rebalance == \E target \in [Securities -> Weights \cup {0}], cost, borrow \in Charges :
               Trade(target, cost, borrow) \/ TradeRefused(target, cost, borrow)

\* The book after a return, terminated positions still in it.
Marked(returns) ==
  [s \in Securities |-> IF s \in Held THEN positions[s] * (1 + returns[s]) ELSE 0]

Profit(returns) ==
  Total([s \in Securities |-> IF s \in Held THEN positions[s] * returns[s] ELSE 0])

\* Only what is held compounds: the factor of a closed position is frozen.
Factors(returns) ==
  [s \in Securities |-> IF s \in Held THEN period.factor[s] * (1 + returns[s])
                        ELSE period.factor[s]]

\* Mutant of Proceeds: a position is closed at its value before the return.
ProceedsBefore(closed, book) ==
  Total([s \in Securities |-> IF s \in closed THEN positions[s] ELSE 0])

\* What the closed positions bring, or cost, in cash.
Proceeds(closed, book) ==
  Total([s \in Securities |-> IF s \in closed THEN book[s] ELSE 0])

Event(s, book) ==
  [security |-> s, period |-> Len(rows), step |-> period.steps, value |-> book[s]]

\* One step: returns are applied, then the terminated are closed to cash and
\* banned, held or not.
Mark(returns, terminated) ==
  LET book   == Marked(returns)
      closed == terminated \cap Held
      after  == [s \in Securities |-> IF s \in closed THEN 0 ELSE book[s]]
      money  == cash + Proceeds(closed, book)
  IN  /\ at = "mark" /\ period.steps < MaxSteps
      /\ \/ Nav(money, after) <= 0 /\ Refuse("nav")
         \/ /\ Nav(money, after) > 0
            /\ cash' = money
            /\ positions' = after
            /\ ended' = ended \cup terminated
            /\ terminations' = terminations \cup {Event(s, book) : s \in closed}
            /\ period' = [period EXCEPT !.factor = Factors(returns),
                                        !.pnl = @ + Profit(returns), !.steps = @ + 1]
            /\ UNCHANGED <<at, rows>>

MarkStep == \E returns \in [Securities -> Returns], terminated \in SUBSET Securities :
              Mark(returns, terminated)

\* A held position has no return for the step.
MarkMissing == at = "mark" /\ period.steps < MaxSteps /\ Held # {} /\ Refuse("missing")

\* The profit of the steps is what the weights and the factors say.
Reconciled ==
  period.pnl = period.start
               * Total([s \in Securities |-> period.target[s] * (period.factor[s] - 1)])

\* After the last step of a period: the borrow is charged and the row written.
Close ==
  LET money == cash - period.borrow
  IN  /\ at = "mark" /\ period.steps > 0
      /\ \/ ~ Reconciled /\ Refuse("residual")
         \/ /\ Reconciled
            /\ cash' = money
            /\ rows' = Append(rows, [start |-> period.start, end |-> Nav(money, positions),
                                     pnl |-> period.pnl, cost |-> period.cost,
                                     borrow |-> period.borrow])
            /\ at' \in {"done"} \cup (IF Len(rows) + 1 < MaxPeriods THEN {"rebalance"} ELSE {})
            /\ UNCHANGED <<positions, ended, terminations, period>>

Next == Rebalance \/ MarkStep \/ MarkMissing \/ Close

Spec == Init /\ [][Next]_vars

-----------------------------------------------------------------------------
(* Properties.                                                             *)

\* The state has its types, only targets are held, and a run has a period.
TypeOK ==
  /\ at \in {"rebalance", "mark", "done"} \cup Refusals
  /\ cash \in Int
  /\ positions \in [Securities -> Int]
  /\ ended \subseteq Securities
  /\ \A e \in terminations : /\ e.security \in ended /\ e.period \in 0 .. MaxPeriods
                             /\ e.step \in 0 .. MaxSteps /\ e.value \in Int
  /\ period \in Period
  /\ \A s \in Held : period.target[s] # 0
  /\ rows \in Seq(Row)
  /\ at = "done" => rows # <<>>

\* A terminal return is realized at most once for each security, whatever
\* the caller's targets and terminations say, and what was terminated is
\* never held again (CI-049).
RealizedOnce ==
  /\ \A e, f \in terminations : e.security = f.security => e = f
  /\ \A s \in ended : positions[s] = 0

\* The two computations of a period's return agree, whatever is closed, lost or
\* terminated unheld on the way, so that no run stops on a residual (CI-045);
\* and the cash ledger explains the NAV: while a period runs, what the NAV has
\* moved by since its start is the profit less the cost; in each closed row
\* it is profit less both charges; and a row begins where the last one ended.
\* The engine checks none of these three.
CashExplainsNav ==
  /\ at # "residual"
  /\ at = "mark" => Nav(cash, positions) = period.start + period.pnl - period.cost
  /\ \A i \in DOMAIN rows :
       /\ rows[i].end - rows[i].start = rows[i].pnl - rows[i].cost - rows[i].borrow
       /\ i > 1 => rows[i].start = rows[i - 1].end

===============================================================================

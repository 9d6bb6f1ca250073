-------------------------------- MODULE Stats --------------------------------
(***************************************************************************)
(* The report of the research package on a run: its months, its summary    *)
(* and the verdict of the acceptance table.  A trade has an exit time, a   *)
(* result in money and one in percent of the equity it was sized on, both  *)
(* whole; other percentages are in hundredths, rounded down.               *)
(***************************************************************************)
EXTENDS Integers, Sequences, SequencesExt, FiniteSets, FiniteSetsExt

CONSTANTS MonthLength     \* times in a month

LOCAL Result(trades) == FoldLeft(LAMBDA sum, t : sum + t.pnl, 0, trades)
LOCAL Won(trades) == SelectSeq(trades, LAMBDA t : t.pnl > 0)
LOCAL Lost(trades) == SelectSeq(trades, LAMBDA t : t.pnl < 0)

MonthOf(trade) == trade.exit \div MonthLength

\* _equity_points, the initial equity in front.
EquityPoints(initial, trades) ==
    [n \in 1..(Len(trades) + 1) |-> initial + Result(SubSeq(trades, 1, n - 1))]

\* _max_drawdown of the points from..to, against the highest point since the start.
Drawdown(points, from, to) ==
    LET peak(n) == Max({points[k] : k \in 1..n})
    IN  Max({0} \cup {(10000 * (peak(n) - points[n])) \div peak(n) :
                         n \in {k \in from..to : peak(k) > 0}})

\* monthly_table: a new row whenever the month differs from the one before.
MonthlyTable(initial, trades) ==
    LET points == EquityPoints(initial, trades)
        firsts == {n \in DOMAIN trades : n = 1 \/ MonthOf(trades[n]) # MonthOf(trades[n - 1])}
        row(n) ==
            LET last == Max({k \in n..Len(trades) :
                                \A j \in n..k : MonthOf(trades[j]) = MonthOf(trades[n])})
            IN  [month |-> MonthOf(trades[n]), trades |-> last - n + 1,
                 equity |-> points[last + 1],
                 return |-> (10000 * (points[last + 1] - points[n])) \div points[n],
                 drawdown |-> Drawdown(points, n + 1, last + 1)]
    IN  [m \in 1..Cardinality(firsts) |->
            row(CHOOSE n \in firsts : Cardinality({k \in firsts : k <= n}) = m)]

Median(values) ==
    LET sorted == SortSeq(values, LAMBDA a, b : a < b)
        n == Len(values)
    IN  (sorted[(n + 1) \div 2] + sorted[n \div 2 + 1]) \div 2

\* The mean of the results in percent over their pstdev: the mean is sum / n, the pstdev
\* sqrt(spread) / n.
SharpeLike(trades) ==
    LET sum == FoldLeft(LAMBDA s, t : s + t.pct, 0, trades)
    IN  [sum |-> sum,
         spread |-> Len(trades) * FoldLeft(LAMBDA s, t : s + t.pct * t.pct, 0, trades) - sum * sum]

\* Whether the quotient is at least a positive limit, in hundredths; it is 0 without spread.
SharpeAtLeast(sharpe, limit) ==
    /\ sharpe.spread > 0 /\ sharpe.sum > 0
    /\ 10000 * sharpe.sum * sharpe.sum >= limit * limit * sharpe.spread

Summarise(initial, trades) ==
    LET months == MonthlyTable(initial, trades)
        returns == [m \in DOMAIN months |-> months[m].return]
        points == EquityPoints(initial, trades)
        lost == 0 - Result(Lost(trades))
        won == Result(Won(trades))
    IN  [trades |-> Len(trades),
         winrate |-> (10000 * Len(Won(trades))) \div Len(trades),
         profitFactor |-> IF lost > 0 THEN (100 * won) \div lost
                          ELSE IF won > 0 THEN 9900 ELSE 0,
         medianMonth |-> Median(returns),
         worstMonth |-> Min({returns[m] : m \in DOMAIN returns}),
         profitableMonths |-> (10000 * Len(SelectSeq(returns, LAMBDA r : r > 0))) \div Len(returns),
         tradesPerMonth |-> (100 * Len(trades)) \div Len(months),
         drawdown |-> Drawdown(points, 1, Len(points)),
         sharpe |-> SharpeLike(trades)]

\* verdict against a row of the acceptance table.
Passed(summary, limits) ==
    /\ summary.medianMonth >= limits.medianMonth
    /\ summary.profitableMonths >= limits.profitableMonths
    /\ summary.worstMonth >= limits.worstMonth
    /\ summary.profitFactor >= limits.profitFactor
    /\ summary.winrate >= IF summary.profitFactor >= limits.highProfitFactor
                          THEN limits.lowWinrate ELSE limits.winrate
    /\ summary.drawdown <= limits.drawdown
    /\ summary.trades >= limits.trades
    /\ summary.tradesPerMonth >= limits.tradesPerMonth
    /\ SharpeAtLeast(summary.sharpe, limits.sharpeLike)
===============================================================================

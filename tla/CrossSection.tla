----------------------------- MODULE CrossSection -----------------------------
(***************************************************************************)
(* run_cross_section of the research package: at every rebalance the       *)
(* symbols are ranked by their return over a lookback, the strongest are   *)
(* bought and the weakest sold, from the open of the next bar to the close *)
(* of the rebalance after, unless a stop is hit first.  The history grows  *)
(* by one moment a step, in which a symbol may have no bar.                *)
(* Prices of bars are whole, everything derived from them in hundredths.   *)
(***************************************************************************)
EXTENDS Stats, Indicators

CONSTANTS
    Symbols,          \* a sequence
    Regime,           \* the symbol of regime_series
    Rows,             \* the moments that may come: functions from symbols to bars or None
    Warmup,           \* the first moments
    Lookback, Rebalance, Longs, Shorts, StopMult, AtrPeriod, SkipBars, RegimeEma,
    MinSymbols, Reversed,
    Acceptance,       \* STAGE_1, the acceptance table
    Equity, RiskPercent, Leverage, Slip, Fee,
    MaxMoments        \* bound of the model

VARIABLE market       \* the moments so far

\* A symbol's own series: its bars and their times.
Times(m, s) == SelectSeq([t \in DOMAIN m |-> t], LAMBDA t : m[t][s] # None)
SeriesOf(m, s) == LET times == Times(m, s) IN Column([i \in DOMAIN times |-> m[times[i]][s]])
IndexOf(m, s, t) == Len(SelectSeq(Times(m, s), LAMBDA u : u <= t))

CommonTimeline(m) == SelectSeq([t \in DOMAIN m |-> t],
                               LAMBDA t : \A k \in DOMAIN Symbols : m[t][Symbols[k]] # None)

\* _ranked: returns new / old, the larger first; equal ones keep their order.
RankedBy(m, t, skipped) ==
    LET recent(s) == IndexOf(m, s, t) - skipped
        close(s, i) == SeriesOf(m, s)[i].close
        known == SelectSeq(Symbols, LAMBDA s : recent(s) - Lookback >= 1)
        rows == Column([k \in DOMAIN known |->
                    [symbol |-> known[k], place |-> k, new |-> close(known[k], recent(known[k])),
                     old |-> close(known[k], recent(known[k]) - Lookback)]])
        stronger(a, b) == a.new * b.old > b.new * a.old
        before(a, b) == IF stronger(a, b) \/ stronger(b, a)
                        THEN (IF Reversed THEN stronger(b, a) ELSE stronger(a, b))
                        ELSE a.place < b.place
        sorted == SortSeq(rows, before)
    IN  [k \in DOMAIN sorted |-> sorted[k].symbol]
\* Not the code: the bars to leave out are taken from the other side.
RankedAhead(m, t) ==
    RankedBy(m, t, IF \A k \in DOMAIN Symbols : IndexOf(m, Symbols[k], t) < Len(SeriesOf(m, Symbols[k]))
                   THEN 0 - SkipBars ELSE SkipBars)
Ranked(m, t) == RankedBy(m, t, SkipBars)

\* _regime_filter.
Allowed(m, t) ==
    LET bars == SeriesOf(m, Regime)
        i == IndexOf(m, Regime, t)
        trend == Ema(Closes(bars), RegimeEma)
    IN  RegimeEma > 0 /\ m[t][Regime] # None /\ trend[i] # None => 100 * bars[i].close > trend[i]

Picks(m, t) ==
    LET ranked == Ranked(m, t)
        side(symbols, direction) ==
            [k \in DOMAIN symbols |-> [symbol |-> symbols[k], direction |-> direction]]
    IN  (IF Allowed(m, t) THEN side(SubSeq(ranked, 1, Longs), "LONG") ELSE <<>>)
        \o side(SubSeq(ranked, Len(ranked) - Shorts + 1, Len(ranked)), "SHORT")

\* What a notional earns from entry to a price, slippage and both fees included.
Earned(notional, entry, price, long) ==
    LET filled == (price * (IF long THEN 100 - Slip ELSE 100 + Slip)) \div 100
        gross(out) == (notional * (IF long THEN out - entry ELSE entry - out)) \div entry
        fees(out) == (Fee * (notional + (notional * out) \div entry)) \div 10000
    IN  gross(filled) - fees(filled)

\* The first bar of fill..exit that touches the stop, and its price; the close of exit otherwise.
Left(bars, fill, exit, stop, long) ==
    LET touches(i) == IF long THEN 100 * bars[i].low <= stop ELSE 100 * bars[i].high >= stop
        worse(open) == IF long THEN Min({open, stop}) ELSE Max({open, stop})
        stopped(i) == [at |-> i, price |-> worse(100 * bars[i].open), status |-> "SL"]
    IN  IF \A i \in fill..exit : ~touches(i)
        THEN [at |-> exit, price |-> 100 * bars[exit].close, status |-> "REBALANCE"]
        ELSE stopped(Min({i \in fill..exit : touches(i)}))

TradeOf(pick, times, entered, entry, notional, equity, left) ==
    LET pnl == Earned(notional, entry, left.price, pick.direction = "LONG")
    IN  [symbol |-> pick.symbol, direction |-> pick.direction, entered |-> times[entered],
         exit |-> times[left.at], status |-> left.status, notional |-> notional,
         pnl |-> pnl, pct |-> (100 * pnl) \div equity]

\* Filled at entry, with the stop at a distance, from bar fill to bar exit.
Filled(pick, times, bars, fill, exit, entry, distance, equity) ==
    LET long == pick.direction = "LONG"
        stop == IF long THEN entry - distance ELSE entry + distance
        notional == Min({(equity * RiskPercent * entry) \div (100 * distance), equity * Leverage})
    IN  TradeOf(pick, times, fill, entry, notional, equity, Left(bars, fill, exit, stop, long))

\* _hold: the trade of a pick, a sequence of one or none.
Hold(m, pick, from, to, equity) ==
    LET bars == SeriesOf(m, pick.symbol)
        fill == IndexOf(m, pick.symbol, from) + 1
        exit == IndexOf(m, pick.symbol, to)
        atr == Atr(bars, AtrPeriod)[fill - 1]
        entry == bars[fill].open * (IF pick.direction = "LONG" THEN 100 + Slip ELSE 100 - Slip)
    IN  IF fill > Len(bars) \/ exit <= fill THEN <<>>
        ELSE IF atr \in {None, 0} \/ entry <= 0 THEN <<>>
        ELSE << Filled(pick, Times(m, pick.symbol), bars, fill, exit, entry,
                       atr * StopMult, equity) >>

HoldAll(m, picks, from, to, equity) ==
    FoldLeft(LAMBDA trades, pick : trades \o Hold(m, pick, from, to, equity), <<>>, picks)

\* The run with one more book.
WithBook(run, out, from, to, whole, trades) ==
    LET equity == run.equity + FoldLeft(LAMBDA sum, t : sum + t.pnl, 0, trades)
    IN  [at |-> out, equity |-> equity,
         books |-> Append(run.books, [from |-> from, to |-> to, whole |-> whole,
                                      equity |-> equity, trades |-> trades])]

\* One rebalance of the loop over the common timeline.
RebalanceAt(m, grid, run) ==
    LET last == Len(grid)
        out == Min({run.at + Rebalance, last})
        from == grid[run.at]
    IN  IF run.at >= last \/ run.equity <= 0 THEN run
        ELSE IF Len(Ranked(m, from)) < MinSymbols THEN [run EXCEPT !.at = @ + Rebalance]
        ELSE WithBook(run, out, from, grid[out], run.at + Rebalance <= last,
                      HoldAll(m, Picks(m, from), from, grid[out], run.equity))

\* run_cross_section: the books, one after the other.
Books(m) ==
    LET first == Lookback + SkipBars + AtrPeriod + 2
    IN  FoldLeft(LAMBDA run, step : RebalanceAt(m, CommonTimeline(m), run),
                 [at |-> first, equity |-> Equity, books |-> <<>>],
                 [i \in DOMAIN m |-> i]).books
Trades(books) ==
    SortSeq(FoldLeft(LAMBDA trades, b : trades \o b.trades, <<>>, books),
            LAMBDA a, b : a.exit < b.exit)

Init == market = Warmup
Next == /\ Len(market) < MaxMoments
        /\ \E row \in Rows : market' = Append(market, row)
Spec == Init /\ [][Next]_market

\* Books of a history and of a longer one; each book holds what was picked at its moment.
Agree(older, newer) ==
    LET table(books) == MonthlyTable(Equity, Trades(books))
        kept(known, months) ==
            /\ \A k \in 1..(Len(known) - 1) : months[k] = known[k]
            /\ \A k \in DOMAIN known, l \in DOMAIN known : k < l => known[k].month < known[l].month
    IN  IsPrefix(older, newer) /\ kept(table(older), table(newer))

NeverSoDeep(before, after) ==
    before # <<>> /\ Passed(Summarise(Equity, after), Acceptance) =>
        Summarise(Equity, before).drawdown <= Acceptance.drawdown

HoldsItsPicks(book) ==
    LET held == {[symbol |-> t.symbol, direction |-> t.direction] : t \in ToSet(book.trades)}
    IN  /\ held \subseteq ToSet(Picks(SubSeq(market, 1, book.from), book.from))
        /\ \A t, u \in held : t.symbol = u.symbol => t = u

Whole(m) == SelectSeq(Books(m), LAMBDA b : b.whole)

(***************************************************************************)
(* The backtest of a longer history keeps what that of a shorter one has   *)
(* said: every book that was held to its rebalance is the same, sized,     *)
(* stopped out and settled, and so are the months before the last one in   *)
(* the report on these books.  A book holds what the history up to its     *)
(* own moment picks, and never a symbol on both sides.  A run that passes  *)
(* the acceptance table has never been too deep in the red before.         *)
(***************************************************************************)
BooksAreFinal ==
    Len(market) > Len(Warmup) =>
        \A older \in {Whole(Front(market))}, newer \in {Whole(market)} :
            /\ Agree(older, newer)
            /\ NeverSoDeep(Trades(older), Trades(newer))
            /\ \A k \in DOMAIN newer : HoldsItsPicks(newer[k])

TypeOK == Len(market) \in Len(Warmup)..MaxMoments
===============================================================================

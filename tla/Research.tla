------------------------------- MODULE Research -------------------------------
(***************************************************************************)
(* The research package: strategies that decide at the close of a bar from *)
(* indicator columns prepared over the whole series, and the harness that  *)
(* fills their entry at the open of the next bar and walks to the exit.    *)
(* The series grows by a bar at a time and is run again: its trades must   *)
(* be those of a live trader (LiveTrader).  Prices are whole numbers,      *)
(* stops, targets and fills are in hundredths of them.  Sizes, fees and    *)
(* the equity are left out here: see Portfolio.                            *)
(***************************************************************************)
EXTENDS Indicators

CONSTANTS
    ResearchBars,     \* shapes of a bar
    FirstBars,        \* the series the first run is made on
    Plans,            \* strategy, its periods and limits, risk rules
    SlippagePoints,   \* CostModel.slippage_pct, in basis points
    MaxSeries         \* bound: bars of the series

VARIABLES series, plan

researchVars == <<series, plan>>

PriceBars == [open : Int, high : Int, low : Int, close : Int]
\* A trade from the signal that asks for it to its exit.
ResearchTrades ==
    [direction : {"LONG", "SHORT"}, stop : Int, take : Int \cup {None}, at : Nat,
     entry : Int, risk : Int, best : Int, partial : BOOLEAN, even : BOOLEAN, bars : Nat,
     status : {"OPEN", "VOID", "SL", "SL_AFTER_PARTIAL", "TP", "TIMEOUT"},
     exit : Int, exitAt : Nat]

\* Whole prices, periods of at least one bar, and a warm-up as the strategies compute it.
ResearchAssumption ==
    /\ None \notin ResearchTrades
    /\ ResearchBars \subseteq PriceBars /\ FirstBars \in Seq(PriceBars) /\ FirstBars # <<>>
    /\ SlippagePoints \in Nat /\ MaxSeries \in Nat /\ Len(FirstBars) <= MaxSeries
    /\ \A p \in Plans :
          /\ p.strategy \in {"donchian_breakout", "trend_pullback", "range_reversion",
                            "volatility_breakout", "mean_reversion_z"}
          /\ {p.lookback, p.atr, p.fast, p.slow, p.rsi, p.mean, p.warmup} \subseteq Nat \ {0}
          /\ {p.squeeze, p.minAdx, p.minVol, p.maxVol} \subseteq Nat
          /\ {p.atrMult, p.rr, p.trailDistance} \subseteq Int

-----------------------------------------------------------------------------
\* prepare: the columns a strategy uses, and one of them.
Uses(p) ==
    CASE p.strategy = "donchian_breakout" ->
            {"highs", "lows", "atr"} \cup (IF p.trend THEN {"slow"} ELSE {})
                \cup (IF p.minAdx > 0 THEN {"adx"} ELSE {})
                \cup (IF p.minVol + p.maxVol > 0 THEN {"vol"} ELSE {})
      [] p.strategy = "trend_pullback" -> {"fast", "slow", "rsi", "atr"}
      [] p.strategy = "range_reversion" -> {"rsi", "adx", "atr"}
      [] p.strategy = "volatility_breakout" -> {"highs", "lows", "vol", "atr"}
      [] p.strategy = "mean_reversion_z" -> {"mean", "sd", "atr"}

ColumnOf(name, p, bars) ==
    CASE name = "highs" -> RollingMax(Highs(bars), p.lookback)
      [] name = "lows" -> RollingMin(Lows(bars), p.lookback)
      [] name = "atr" -> Atr(bars, p.atr)
      [] name = "fast" -> Ema(Closes(bars), p.fast)
      [] name = "slow" -> Ema(Closes(bars), p.slow)
      [] name = "rsi" -> Rsi(Closes(bars), p.rsi)
      [] name = "adx" -> Adx(bars, p.rsi)
      [] name = "vol" -> RealisedVolatility(Closes(bars), p.rsi)
      [] name = "mean" -> Sma(Closes(bars), p.mean)
      [] name = "sd" -> RollingSd(Closes(bars), p.mean)

Prepare(p, bars) == [name \in Uses(p) |-> Column(ColumnOf(name, p, bars))]

EntryAt(p, close, atr, long) ==
    LET distance == (atr * p.atrMult) \div 100
        sign == IF long THEN 1 ELSE -1
    IN  [direction |-> IF long THEN "LONG" ELSE "SHORT",
         stop |-> 100 * close - sign * distance,
         take |-> IF p.rr <= 0 THEN None ELSE 100 * close + sign * ((distance * p.rr) \div 100)]

\* LONG, SHORT or no entry, with an ATR that is there and not zero.
Either(p, close, atr, up, down) ==
    IF atr \in {None, 0} THEN None
    ELSE IF up THEN EntryAt(p, close, atr, TRUE)
    ELSE IF p.allowShort /\ down THEN EntryAt(p, close, atr, FALSE)
    ELSE None

DonchianBreakout(p, close, c, i) ==
    LET strong == p.minAdx > 0 => c.adx[i] # None /\ c.adx[i] >= p.minAdx
        lively == p.minVol + p.maxVol > 0 =>
                     /\ c.vol[i] # None /\ c.vol[i] >= p.minVol
                     /\ p.maxVol > 0 => c.vol[i] <= p.maxVol
    IN  IF c.highs[i - 1] = None \/ ~strong \/ ~lively \/ (p.trend /\ c.slow[i] = None) THEN None
        ELSE Either(p, close, c.atr[i],
                    close > c.highs[i - 1] /\ (p.trend => close * 100 > c.slow[i]),
                    close < c.lows[i - 1] /\ (p.trend => close * 100 < c.slow[i]))

TrendPullback(p, close, c, i) ==
    IF None \in {c.fast[i], c.slow[i], c.rsi[i]} THEN None
    ELSE Either(p, close, c.atr[i],
                /\ c.fast[i] > c.slow[i] /\ close * 100 > c.slow[i]
                /\ c.rsi[i] <= p.rsiEntry,
                /\ c.fast[i] < c.slow[i] /\ close * 100 < c.slow[i]
                /\ c.rsi[i] >= 100 - p.rsiEntry)

RangeReversion(p, close, c, i) ==
    IF None \in {c.rsi[i], c.adx[i]} THEN None
    ELSE IF c.adx[i] > p.maxAdx THEN None
    ELSE Either(p, close, c.atr[i], c.rsi[i] <= p.rsiEntry, c.rsi[i] >= 100 - p.rsiEntry)

\* The volatilities of the squeeze, and how many of them are below that of the bar.
Squeezed(p, c, i) == {j \in Larger(1, i - p.squeeze)..i : c.vol[j] # None}
Below(p, c, i) == Cardinality({k \in Squeezed(p, c, i) : c.vol[k] < c.vol[i]})

\* Quiet: among the lowest quarter of the volatilities of the squeeze.
VolatilityBreakout(p, close, c, i) ==
    LET seen == Cardinality(Squeezed(p, c, i))
    IN  IF c.vol[i] = None \/ c.highs[i - 1] = None \/ seen < p.squeeze \div 2 THEN None
        ELSE IF Below(p, c, i) > Larger(0, seen \div 4 - 1) THEN None
        ELSE Either(p, close, c.atr[i], close > c.highs[i - 1], close < c.lows[i - 1])

\* z = (close - mean) / sd, beyond zEntry; the target is the mean.
MeanReversionZ(p, close, c, i) ==
    LET away == close * 100 - c.mean[i]
        far == away * away * p.mean * p.mean * p.mean >= p.zEntry * p.zEntry * c.sd[i] * 10000
        entry == Either(p, close, c.atr[i], far /\ away < 0, far /\ away > 0)
    IN  IF None \in {c.mean[i], c.sd[i]} THEN None
        ELSE IF c.sd[i] = 0 \/ entry = None THEN None
        ELSE [entry EXCEPT !.take = c.mean[i]]

\* build and signal; nothing before the warm-up of the strategy.
PlanSignal(p, bars, c, i) ==
    LET close == bars[i].close
    IN  IF i <= p.warmup THEN None
        ELSE CASE p.strategy = "donchian_breakout" -> DonchianBreakout(p, close, c, i)
               [] p.strategy = "trend_pullback" -> TrendPullback(p, close, c, i)
               [] p.strategy = "range_reversion" -> RangeReversion(p, close, c, i)
               [] p.strategy = "volatility_breakout" -> VolatilityBreakout(p, close, c, i)
               [] p.strategy = "mean_reversion_z" -> MeanReversionZ(p, close, c, i)

-----------------------------------------------------------------------------
Sign(t) == IF t.direction = "LONG" THEN 1 ELSE -1
BetterOf(t, a, b) == IF Sign(t) * a >= Sign(t) * b THEN a ELSE b
InFavour(t, bar, level) ==
    level # None /\ (IF t.direction = "LONG" THEN bar.high * 100 >= level ELSE bar.low * 100 <= level)
Against(t, bar, level) ==
    IF t.direction = "LONG" THEN bar.low * 100 <= level ELSE bar.high * 100 >= level
Reach(t, bar) == 100 * (IF t.direction = "LONG" THEN bar.high ELSE bar.low)

\* _gapped: a bar that opens past the level fills at its open.
Gapped(t, bar, level, stopping) ==
    IF stopping = (Sign(t) * bar.open * 100 < Sign(t) * level) THEN bar.open * 100 ELSE level

\* _price_at_r
PriceAtR(t, r) == IF r = None THEN None ELSE t.entry + Sign(t) * ((t.risk * r) \div 100)

\* The entry a signal at bar i asks for, not yet filled.
Asked(entry, i) ==
    [direction |-> entry.direction, stop |-> entry.stop, take |-> entry.take, at |-> i,
     entry |-> 0, risk |-> 0, best |-> 0, partial |-> FALSE, even |-> FALSE,
     bars |-> 0, status |-> "OPEN", exit |-> 0, exitAt |-> 0]

\* The open of the next bar, with slippage against the trade.
FilledAt(t, bar) ==
    LET price == bar.open * 100 + Sign(t) * ((bar.open * SlippagePoints) \div 100)
    IN  [t EXCEPT !.entry = price, !.best = price,
                  !.risk = IF price > t.stop THEN price - t.stop ELSE t.stop - price]

\* What the bar does to the trade before its exits are looked at: partial close,
\* breakeven, trailing stop.
Managed(p, t, bar) ==
    LET best == BetterOf(t, t.best, Reach(t, bar))
        even == ~t.even /\ InFavour(t, bar, PriceAtR(t, p.breakevenAt))
        stop == IF even THEN BetterOf(t, t.stop, t.entry) ELSE t.stop
        trailed == best - Sign(t) * ((p.trailDistance * t.risk) \div 100)
    IN  [t EXCEPT !.best = best, !.bars = @ + 1, !.even = @ \/ even,
                  !.partial = @ \/ InFavour(t, bar, PriceAtR(t, p.partialAt)),
                  !.stop = IF InFavour(t, bar, PriceAtR(t, p.trailFrom))
                           THEN BetterOf(t, stop, trailed) ELSE stop]

LeftWith(t, status, price) == [t EXCEPT !.status = status, !.exit = price, !.exitAt = t.at + t.bars]

\* The exits, in the code's order.
LeftBy(p, t, bar) ==
    IF Against(t, bar, t.stop)
    THEN LeftWith(t, IF t.partial THEN "SL_AFTER_PARTIAL" ELSE "SL", Gapped(t, bar, t.stop, TRUE))
    ELSE IF InFavour(t, bar, t.take)
    THEN LeftWith(t, "TP", Gapped(t, bar, t.take, FALSE))
    ELSE IF t.bars = p.maxBars
    THEN LeftWith(t, "TIMEOUT", bar.close * 100)
    ELSE t

\* One bar of _open_and_close; a trade without risk is none.
WalkFilled(p, t, bar) ==
    IF t.risk = 0 THEN [t EXCEPT !.status = "VOID"] ELSE LeftBy(p, Managed(p, t, bar), bar)
Walk(p, trade, bar) ==
    WalkFilled(p, IF trade.bars = 0 THEN FilledAt(trade, bar) ELSE trade, bar)

\* _open_and_close; a trade the series does not finish stays OPEN here.
OpenAndClose(p, entry, bars, i) ==
    LET walk[k \in i..Len(bars)] ==
            IF k = i THEN Asked(entry, i)
            ELSE LET before == walk[k - 1]
                 IN  IF before.status = "OPEN" THEN Walk(p, before, bars[k]) ELSE before
    IN  walk[Len(bars)]

\* The first bar the scan looks at again after the trades made.
NextIndex(made, n) ==
    IF made = <<>> THEN 1
    ELSE IF made[Len(made)].status = "OPEN" THEN n + 1 ELSE made[Len(made)].exitAt

\* The trades with the one that an entry at bar i leads to.
WithResult(made, trade) == IF trade.status = "VOID" THEN made ELSE Append(made, trade)
WithEntry(p, bars, made, entry, i) ==
    IF entry = None THEN made ELSE WithResult(made, OpenAndClose(p, entry, bars, i))

\* One bar of the while loop.
Scan(p, bars, columns, made, i) ==
    IF i < NextIndex(made, Len(bars)) THEN made
    ELSE WithEntry(p, bars, made, PlanSignal(p, bars, columns, i), i)

\* run: the while loop over the bars, all columns prepared beforehand.
RunOver(p, bars, columns) ==
    LET loop[i \in 0..Len(bars)] ==
            IF i = 0 THEN <<>> ELSE Scan(p, bars, columns, loop[i - 1], i)
    IN  loop[Len(bars) - 1]
Run(p, bars) == RunOver(p, bars, Prepare(p, bars))

-----------------------------------------------------------------------------
ResearchInit == plan \in Plans /\ series = FirstBars

\* Another bar is downloaded, and the research is run again.
NextBar(bar) ==
    /\ Len(series) < MaxSeries
    /\ series' = Append(series, bar)
    /\ UNCHANGED plan

ResearchNext == \E bar \in ResearchBars : NextBar(bar)

ResearchSpec == ResearchInit /\ [][ResearchNext]_researchVars

-----------------------------------------------------------------------------
Intend(p, seen) ==
    LET entry == PlanSignal(p, seen, Prepare(p, seen), Len(seen))
    IN  IF entry = None THEN None ELSE Asked(entry, Len(seen))

LiveResearch == INSTANCE LiveTrader WITH Decide <- Intend, Manage <- Walk, AgainAtExit <- TRUE

\* The trades with an exit; the series may leave the last one open.
Exited(made) ==
    IF made = <<>> THEN made
    ELSE IF made[Len(made)].status = "OPEN" THEN SubSeq(made, 1, Len(made) - 1) ELSE made

(***************************************************************************)
(* strategies.py: "They decide on bar `index` from bars 0..index and the   *)
(* harness fills on bar index+1, so nothing here can read a price the      *)
(* market had not printed yet" - although every column is computed over    *)
(* the whole series first.  The closed trades are those of a live trader.  *)
(***************************************************************************)
ResearchIsLive == Exited(Run(plan, series)) = LiveResearch!LiveTrades(plan, series)

ResearchTypeOK == plan \in Plans /\ Len(series) \in Len(FirstBars)..MaxSeries
===============================================================================

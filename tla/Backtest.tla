------------------------------- MODULE Backtest -------------------------------
(***************************************************************************)
(* BacktestEngine.run_on_candles and simulate_exit: a strategy is asked at *)
(* every candle of a stored history, each signal becomes a trade whose     *)
(* exit is looked for in the candles that follow, and the search goes on   *)
(* after that exit.  The history grows by one candle at a time and the     *)
(* whole backtest is run again: its trades must be those a live trader     *)
(* would have made (LiveTrader).  Prices are whole numbers, stops and      *)
(* takes are multiplied by 10000; the money of a trade is left out.        *)
(***************************************************************************)
EXTENDS Strategies, Sequences, SequencesExt, FiniteSets, FiniteSetsExt

CONSTANTS
    CandleShapes,    \* low, high, close, volume, point, event
    StoredCandles,   \* what is stored when the first backtest is run
    BacktestSetups,  \* strategy, minScore, holding and exit rules
    MaxWarmup,       \* max(60, minutes of one hour, the window)
    SnapshotWindow,  \* SNAPSHOT_WINDOW_CANDLES, here also the candles of volume_60m
    RecentBars,      \* candles of five minutes
    OlderBars,       \* candles[-35:-5]
    MaxAge,          \* SNAPSHOT_MAX_AGE_SEC in candles
    MaxBars          \* bound: length of the history

\* A trade from its entry to its exit.
Positions ==
    [direction : {"LONG", "SHORT"}, entry : Int, at : Nat, bars : Nat, best : Int,
     first : Int, stop : Int, take : Int, partial : BOOLEAN,
     status : {"OPEN", "SL", "BE", "TP", "TIMEOUT"}, exit : Int, exitAt : Nat]

\* The sizes are those for which the windows below exist.
BacktestAssumption ==
    /\ MaxWarmup \in Nat \ {0}
    /\ StoredCandles \in Seq(CandleShapes)
    /\ SnapshotWindow \in Nat \ {0}
    /\ RecentBars \in 1..SnapshotWindow /\ SnapshotWindow % RecentBars = 0
    /\ OlderBars \in Nat /\ MaxAge \in Nat
    /\ MaxBars \in Nat /\ Len(StoredCandles) <= MaxBars
    /\ \A c \in CandleShapes : {c.low, c.high, c.close} \subseteq Int /\ c.volume \in Nat
    /\ \A p \in BacktestSetups :
          /\ p.strategy \in StrategyNames /\ p.minScore \in Int /\ p.holding \in Nat
          /\ p.rules.distance \in Int
    /\ {DensityRules.stop, DensityRules.takeRR} \subseteq Int
    /\ None \notin Positions

VARIABLES
    setup,      \* the strategy and the parameters of the run
    candles     \* historical_candles

backtestVars == <<setup, candles>>

Lowest(window) == Min({window[i].low : i \in DOMAIN window})
Highest(window) == Max({window[i].high : i \in DOMAIN window})
Volume(window) == FoldLeft(LAMBDA sum, c : sum + c.volume, 0, window)
LastBars(window, n) == SubSeq(window, Max({1, Len(window) - n + 1}), Len(window))

\* MarketSnapshotSeries.at: the latest stored snapshot that is not too old.
PointAt(bars, i) ==
    LET held == {j \in 1..i : bars[j].point # None /\ i - j <= MaxAge}
    IN  IF held = {} THEN [oi5 |-> None, oi15 |-> None, spread |-> None]
        ELSE bars[Max(held)].point

\* A level broken by the recent candles and regained by the close.
LowSweep(older, recent, close) ==
    IF older = <<>> THEN None
    ELSE IF Lowest(recent) < Lowest(older) /\ close > Lowest(older) THEN Lowest(older) ELSE None

HighSweep(older, recent, close) ==
    IF older = <<>> THEN None
    ELSE IF Highest(recent) > Highest(older) /\ close < Highest(older)
         THEN Highest(older) ELSE None

\* _snapshot_from_candles over the window that ends with the candle.
SnapshotOf(window, point) ==
    LET n == Len(window)
        now == window[n]
        before == window[Max({1, n - RecentBars})].close
        recent == LastBars(window, RecentBars)
        older == LastBars(SubSeq(window, 1, n - RecentBars), OlderBars)
        hour == Volume(window)
    IN  [price |-> now.close,
         change |-> ((now.close - before) * 10000) \div before,
         ratio |-> IF hour = 0 THEN 0
                   ELSE (Volume(recent) * 100 * (SnapshotWindow \div RecentBars)) \div hour,
         low |-> LowSweep(older, recent, now.close),
         high |-> HighSweep(older, recent, now.close),
         oi5 |-> point.oi5, oi15 |-> point.oi15, spread |-> point.spread,
         event |-> now.event, trend |-> 0]

\* A fault: the stored snapshot is looked up at the next candle.
SignalAhead(parameters, bars, i) ==
    LET window == SubSeq(bars, Max({1, i + 1 - SnapshotWindow}), i)
        signal == Decision(parameters.strategy,
                           SnapshotOf(window, PointAt(bars, Min({i + 1, Len(bars)}))))
    IN  IF signal = None THEN None
        ELSE IF signal.score < parameters.minScore THEN None ELSE signal

\* The signal at candle i, if its score is high enough.
SignalAt(parameters, bars, i) ==
    LET window == SubSeq(bars, Max({1, i + 1 - SnapshotWindow}), i)
        signal == Decision(parameters.strategy, SnapshotOf(window, PointAt(bars, i)))
    IN  IF signal = None THEN None
        ELSE IF signal.score < parameters.minScore THEN None ELSE signal

-----------------------------------------------------------------------------
Way(p) == IF p.direction = "LONG" THEN 1 ELSE -1
Tighter(p, a, b) == IF Way(p) * a >= Way(p) * b THEN a ELSE b
Favourable(p, bar) == IF p.direction = "LONG" THEN bar.high ELSE bar.low
Adverse(p, bar) == IF p.direction = "LONG" THEN bar.low ELSE bar.high

\* stop_take_prices at the close of the signal's candle.
Enter(signal, bars, i) ==
    LET entry == bars[i].close
        sign == IF signal.direction = "LONG" THEN 1 ELSE -1
    IN  [direction |-> signal.direction, entry |-> entry, at |-> i, bars |-> 0, best |-> entry,
         first |-> entry * (10000 - sign * signal.stop),
         stop |-> entry * (10000 - sign * signal.stop),
         take |-> entry * (10000 + sign * signal.take),
         partial |-> FALSE, status |-> "OPEN", exit |-> 0, exitAt |-> 0]

\* price_at_rr: the price is rr (in hundredths) times the initial risk in profit.
Reached(p, bar, rr) ==
    /\ rr # None
    /\ LET risk == p.entry * 10000 - p.first
       IN  Way(p) * Favourable(p, bar) * 10000 >= Way(p) * (p.entry * 10000 + (risk * rr) \div 100)

\* The stop after the candle has closed: breakeven, then trailing.
Moved(rules, p, bar) ==
    LET even == IF Reached(p, bar, rules.breakeven)
                THEN Tighter(p, p.stop, p.entry * 10000) ELSE p.stop
        trail == Tighter(p, p.entry * 10000, p.best * (10000 - Way(p) * rules.distance))
    IN  IF Reached(p, bar, rules.trailing) THEN Tighter(p, even, trail) ELSE even

LeftAt(p, status, price) == [p EXCEPT !.status = status, !.exit = price, !.exitAt = p.at + p.bars]

\* One candle of simulate_exit.  The partial target pays first; a candle that reaches both
\* stop and take is a stop; the stop moves after the candle only.
OneBar(parameters, position, bar) ==
    LET rules == parameters.rules
        p == [position EXCEPT
                !.bars = @ + 1,
                !.best = Tighter(position, @, Favourable(position, bar)),
                !.partial = @ \/ Reached(position, bar, rules.partial)]
    IN  IF Way(p) * Adverse(p, bar) * 10000 <= Way(p) * p.stop
        THEN LeftAt(p, IF p.stop = p.entry * 10000 THEN "BE" ELSE "SL", p.stop)
        ELSE IF Way(p) * Favourable(p, bar) * 10000 >= Way(p) * p.take
        THEN LeftAt(p, "TP", p.take)
        ELSE IF p.bars >= parameters.holding
        THEN LeftAt(p, "TIMEOUT", bar.close * 10000)
        ELSE [p EXCEPT !.stop = Moved(rules, p, bar)]

\* simulate_exit over the candles after the entry.  A trade the history does not finish
\* is reported as a TIMEOUT at the last close; here it stays OPEN.
Simulate(parameters, signal, bars, i) ==
    LET run[k \in i..Len(bars)] ==
            IF k = i THEN Enter(signal, bars, i)
            ELSE LET before == run[k - 1]
                 IN  IF before.status = "OPEN" THEN OneBar(parameters, before, bars[k]) ELSE before
    IN  run[Len(bars)]

\* The first index of the loop, which depends on how long the whole history is.
WarmupOf(n) == Min({MaxWarmup, Max({1, n \div 3})})

\* trade_gap_until: the last candle of the latest trade.
BusyUntil(made, n) ==
    IF made = <<>> THEN 0
    ELSE IF Last(made).status = "OPEN" THEN n ELSE Last(made).exitAt

\* One index of the loop of run_on_candles.
Visit(parameters, bars, made, i) ==
    IF i <= BusyUntil(made, Len(bars)) THEN made
    ELSE LET signal == SignalAt(parameters, bars, i)
         IN  IF signal = None THEN made
             ELSE Append(made, Simulate(parameters, signal, bars, i))

\* run_on_candles: range(warmup, len(candles) - 1), counted from 1 here.
RunOnCandles(parameters, bars) ==
    LET loop[i \in WarmupOf(Len(bars))..Len(bars)] ==
            IF i = WarmupOf(Len(bars)) THEN <<>>
            ELSE LET before == loop[i - 1] IN Visit(parameters, bars, before, i)
    IN  IF Len(bars) <= WarmupOf(Len(bars)) THEN <<>> ELSE loop[Len(bars) - 1]

-----------------------------------------------------------------------------
BacktestInit == setup \in BacktestSetups /\ candles = StoredCandles

\* Another candle is stored, and the backtest is run again.
StoreCandle(candle) ==
    /\ Len(candles) < MaxBars
    /\ candles' = Append(candles, candle)
    /\ UNCHANGED setup

BacktestNext == \E candle \in CandleShapes : StoreCandle(candle)

BacktestSpec == BacktestInit /\ [][BacktestNext]_backtestVars

-----------------------------------------------------------------------------
\* What a run of the backtest is given: its parameters, and where its loop starts.
TaskOn(parameters, bars) == [parameters |-> parameters, warmup |-> WarmupOf(Len(bars))]

\* What the live trader does with the task and the bars seen so far.
Decide(task, seen) ==
    IF Len(seen) <= task.warmup THEN None
    ELSE LET signal == SignalAt(task.parameters, seen, Len(seen))
         IN  IF signal = None THEN None ELSE Enter(signal, seen, Len(seen))

ManageBar(task, position, bar) == OneBar(task.parameters, position, bar)

LiveBacktest == INSTANCE LiveTrader WITH Manage <- ManageBar, AgainAtExit <- FALSE

\* The trades with an end; the history may leave the last one open.
Ended(trades) ==
    IF trades = <<>> THEN trades
    ELSE IF Last(trades).status = "OPEN" THEN Front(trades) ELSE trades

(***************************************************************************)
(* The closed trades of a backtest are those of a trader who is told where *)
(* to start and then sees the candles one at a time: no decision reads a   *)
(* later candle, trades do not overlap, only the last one is open, and     *)
(* every exit is found by the first candle that brings it.  The start is   *)
(* the one thing taken from the length of the whole history (a third of    *)
(* it, while that is less than MaxWarmup): candles that move the start may *)
(* change earlier trades, candles that leave it never do.                  *)
(***************************************************************************)
BacktestIsLive ==
    Ended(RunOnCandles(setup, candles))
        = LiveBacktest!LiveTrades(TaskOn(setup, candles), candles)

BacktestTypeOK == setup \in BacktestSetups /\ Len(candles) \in Len(StoredCandles)..MaxBars
===============================================================================

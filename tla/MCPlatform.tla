------------------------------ MODULE MCPlatform ------------------------------
(***************************************************************************)
(* Small instances of the modules that share no state, checked side by     *)
(* side: part says which of them runs, and whatever is not in use stays as *)
(* it is.                                                                  *)
(***************************************************************************)
EXTENDS MCPaperTrade, BybitFeed, Density, FeatureStore, ChannelTouch, Backtest, Views,
        WalkForward, Sweep, Research, TLC

VARIABLES part, market

modules == <<vars, feedVars, densityVars, storeVars, bars, backtestVars, viewVars, walkVars,
             sweepVars, researchVars>>

-----------------------------------------------------------------------------
(* Backtests *)

Quotes(low, high, close, volume, point, event) ==
    [low |-> low, high |-> high, close |-> close, volume |-> volume,
     point |-> point, event |-> event]
Quiet == Quotes(1000, 1000, 1000, 10, None, None)
Pumped == Quotes(1000, 1008, 1006, 40, [oi5 |-> 120, oi15 |-> 400, spread |-> 2], None)
Absorbed == [type |-> "absorbed", side |-> "bid", size |-> 10, distance |-> 10,
             lifetime |-> 30, absorption |-> 600, eaten |-> 80, pulled |-> 0]

\* Nothing; a rise on volume; one with open interest; an eaten density; a sweep and reclaim.
MCCandleShapes == {Quiet, Quotes(996, 1004, 1001, 40, None, None),
                   Pumped,
                   Quotes(990, 1000, 994, 10, None, Absorbed),
                   Quotes(985, 1016, 1002, 30, None, None)}

Plain == [breakeven |-> None, trailing |-> None, distance |-> 0, partial |-> None]
Moving == [breakeven |-> 100, trailing |-> 200, distance |-> 40, partial |-> 100]
MCSetup == [strategy |-> "stop_hunt_sweep", minScore |-> 6, holding |-> 2, rules |-> Plain]
MCBacktestSetups ==
    {[MCSetup EXCEPT !.strategy = s] :
        s \in {"oi_pump_price_move", "stop_hunt_sweep", "density_strategy"}} \cup
    {[MCSetup EXCEPT !.strategy = s, !.holding = 3, !.rules = Moving] :
        s \in {"oi_momentum_scalper", "micro_stop_hunt_reclaim", "failed_breakout_fade",
               "trend_pullback_scalper"}}
MCDensityRules == [minTrend |-> 0, minSize |-> 5, maxDistance |-> 25, minLifetime |-> 20,
                   needSpike |-> FALSE, spike |-> 150, needTrend |-> TRUE,
                   needAbsorption |-> TRUE, stop |-> 30, takeRR |-> 200]
\* The second candle is a signal until the sixth is stored and the start moves past it.
MCStoredCandles == <<Quiet, Pumped, Quiet>>

Wick(high, low, close) == [high |-> high, low |-> low, close |-> close]
MCChannel4 == [lookback |-> 1, gap |-> 1, maxWait |-> 5, minWait |-> 2, tolerance |-> 10,
               buffer |-> 20, stop |-> 10, maxStop |-> 150, stopBuffer |-> 5, take |-> 60,
               minRR |-> 50]
MCShapes == {Wick(101, 99, 100), Wick(110, 99, 101), Wick(108, 98, 103), Wick(102, 90, 100),
             Wick(102, 86, 92)}
MCBeginning == <<Wick(101, 99, 100), Wick(110, 99, 101), Wick(101, 99, 100)>>

-----------------------------------------------------------------------------
(* Offline research *)

Bar(open, high, low, close) == [open |-> open, high |-> high, low |-> low, close |-> close]
MCPlan == [strategy |-> "donchian_breakout", lookback |-> 2, atr |-> 2, fast |-> 2,
         slow |-> 3, rsi |-> 2, mean |-> 3, warmup |-> 4, atrMult |-> 100, rr |-> 200,
         allowShort |-> TRUE, minAdx |-> 0, minVol |-> 0, maxVol |-> 0, trend |-> FALSE,
         rsiEntry |-> 80, maxAdx |-> 9000, squeeze |-> 3, zEntry |-> 1,
         breakevenAt |-> None, trailFrom |-> None, trailDistance |-> 0,
         partialAt |-> None, maxBars |-> 2]
RuledPlan == [MCPlan EXCEPT !.breakevenAt = 100, !.trailFrom = 150, !.trailDistance = 100,
                      !.partialAt = 50, !.maxBars = 3]
MCPlans ==
    {[RuledPlan EXCEPT !.strategy = s] :
        s \in {"trend_pullback", "range_reversion", "mean_reversion_z"}} \cup
    {[MCPlan EXCEPT !.strategy = s] : s \in {"volatility_breakout", "mean_reversion_z"}} \cup
    {[MCPlan EXCEPT !.minAdx = 500, !.trend = TRUE, !.rr = 0],
     [RuledPlan EXCEPT !.minVol = 1, !.maxVol = 100000]}

MCBars == {Bar(1000, 1002, 998, 1000), Bar(1000, 1010, 999, 1008),
           Bar(1001, 1002, 990, 993), Bar(1004, 1020, 985, 1003)}
MCFirstBars == <<Bar(1000, 1001, 999, 1000), Bar(1000, 1003, 999, 1002),
                 Bar(1002, 1002, 998, 999), Bar(999, 1004, 999, 1003)>>

Proposed(entry, exit, stopAt, pnl) ==
    [entry |-> entry, exit |-> exit, stop |-> stopAt, pnl |-> pnl]

MCOffers ==
    {Proposed(1, 1, 5, 20), Proposed(1, 3, 20, -60), Proposed(2, 2, 5, -40),
     Proposed(1, 2, 20, 30), Proposed(2, 3, 5, 10), Proposed(2, 3, 0, 10)}

-----------------------------------------------------------------------------
(* The optimizer *)

\* What the candles hold in the end, which of a space are tried, and what they earn: the first
\* parameter chooses the candles to trade, the second what is earned on a rise.
MCClosed(timeframe, at) == 2 * ((at + timeframe) % 2)
MCSampled(total, limit) == (total - limit)..(total - 1)
MCBacktested(parameters, contents, seen, set) ==
    LET taken == SelectSeq(contents, LAMBDA c : c >= parameters[1])
    IN  [i \in DOMAIN taken |-> IF taken[i] = 2 THEN parameters[2] - set.cost ELSE -1]
MCTuning == [minTrades |-> 1, cost |-> 0]
MCTunings == {MCTuning, [minTrades |-> 2, cost |-> 1]}
MCSpace == << <<0, 1>>, <<3>> >>

-----------------------------------------------------------------------------
(* Cross-section *)

Up == Bar(4, 6, 4, 6)
Down == Bar(6, 6, 3, 4)
Gap == Bar(5, 9, 5, 8)
Moment(btc, eth) == [s \in {"btc", "eth"} |-> IF s = "btc" THEN btc ELSE eth]
Stage1 == [medianMonth |-> 0, profitableMonths |-> 5000, worstMonth |-> -2000,
           profitFactor |-> 110, winrate |-> 4500, lowWinrate |-> 3500,
           highProfitFactor |-> 220, drawdown |-> 1000, trades |-> 2,
           tradesPerMonth |-> 100, sharpeLike |-> 15]

Cross == INSTANCE CrossSection
    WITH MonthLength <- 3, Symbols <- <<"btc", "eth">>, Regime <- "btc",
         Rows <- {Moment(btc, eth) : btc \in {Up, Down}, eth \in {Up, Down, None}},
         Warmup <- <<Moment(Up, Down), Moment(Down, Up), Moment(Up, Gap), Moment(Down, Up)>>,
         Lookback <- 1, Rebalance <- 2, Longs <- 1, Shorts <- 1, StopMult <- 1,
         AtrPeriod <- 1, SkipBars <- 1, RegimeEma <- 2, MinSymbols <- 2,
         Reversed <- FALSE, Acceptance <- Stage1, Equity <- 1000, RiskPercent <- 10,
         Leverage <- 3, Slip <- 1, Fee <- 10, MaxMoments <- 8

-----------------------------------------------------------------------------
(* Pages *)

MCProfiles == <<"a">>
\* Three pages of the menu: one overtakes another, and a third shows what was stored last.
MCMaxAsked == [bot |-> 3, web |-> 2]
MCProfileOf == [t \in ViewedTrades |-> "a"]
MCProfit == [t \in ViewedTrades |-> IF t = 1 THEN 3 ELSE -2]

Symmetry == Permutations(Readers)

-----------------------------------------------------------------------------
ASSUME BookFeedAssumption /\ DensityAssumption /\ StoreAssumption /\ ChannelAssumption
ASSUME BacktestAssumption /\ ViewsAssumption
ASSUME WalkForwardAssumption
ASSUME SweepAssumption /\ ResearchAssumption

MCInit ==
    /\ part \in {"trade", "feed", "tracker", "features", "strategy", "channel", "offline",
               "forward", "optimizer", "cross", "pages"}
    /\ Init /\ FeedInit /\ DensityInit /\ StoreInit /\ ChannelInit /\ ViewsInit
    /\ WalkInit /\ SweepInit
    /\ IF part = "strategy" THEN BacktestInit ELSE setup = MCSetup /\ candles = <<Quiet, Quiet>>
    /\ IF part = "offline" THEN ResearchInit ELSE plan = MCPlan /\ series = <<MCFirstBars[1]>>
    /\ part # "forward" => shortest = 20 /\ fraction = 0
    /\ part # "pages" => process = "bot"
    /\ part # "feed" => book = NoBook /\ depthLimit = 1
    /\ part # "features" => LatestPrice(heard) = 1 /\ Len(heard.prices) = 2
    /\ part # "trade" => dir = "LONG" /\ cfg = Setting(FALSE, 100, FALSE, 150, 1)
    /\ IF part = "cross" THEN Cross!Init ELSE market = 0

MCNext ==
    /\ UNCHANGED part
    /\ \/ /\ UNCHANGED market
          /\ \/ /\ part = "trade" /\ Next
                /\ UNCHANGED <<feedVars, densityVars, storeVars, bars, backtestVars,
                               viewVars, walkVars, sweepVars, researchVars>>
             \/ /\ part = "feed" /\ FeedNext
                /\ UNCHANGED <<vars, densityVars, storeVars, bars, backtestVars,
                               viewVars, walkVars, sweepVars, researchVars>>
             \/ /\ part = "tracker" /\ DensityNext
                /\ UNCHANGED <<vars, feedVars, storeVars, bars, backtestVars,
                               viewVars, walkVars, sweepVars, researchVars>>
             \/ /\ part = "features" /\ StoreNext
                /\ UNCHANGED <<vars, feedVars, densityVars, bars, backtestVars,
                               viewVars, walkVars, sweepVars, researchVars>>
             \/ /\ part = "channel" /\ ChannelNext
                /\ UNCHANGED <<vars, feedVars, densityVars, storeVars, backtestVars,
                               viewVars, walkVars, sweepVars, researchVars>>
             \/ /\ part = "strategy" /\ BacktestNext
                /\ UNCHANGED <<vars, feedVars, densityVars, storeVars, bars,
                               viewVars, walkVars, sweepVars, researchVars>>
             \/ /\ part = "pages" /\ ViewsNext
                /\ UNCHANGED <<vars, feedVars, densityVars, storeVars, bars,
                               backtestVars, walkVars, sweepVars, researchVars>>
             \/ /\ part = "forward" /\ WalkNext
                /\ UNCHANGED <<vars, feedVars, densityVars, storeVars, bars,
                               backtestVars, viewVars, sweepVars, researchVars>>
             \/ /\ part = "optimizer" /\ SweepNext
                /\ UNCHANGED <<vars, feedVars, densityVars, storeVars, bars,
                               backtestVars, viewVars, walkVars, researchVars>>
             \/ /\ part = "offline" /\ ResearchNext
                /\ UNCHANGED <<vars, feedVars, densityVars, storeVars, bars,
                               backtestVars, viewVars, walkVars, sweepVars>>
       \/ part = "cross" /\ Cross!Next /\ UNCHANGED modules

MCSpec == MCInit /\ [][MCNext]_<<part, market, modules>>

-----------------------------------------------------------------------------
\* The types of all parts.
Types ==
    /\ part = "trade" => TypeOK
    /\ part = "feed" => FeedTypeOK
    /\ part = "tracker" => DensityTypeOK
    /\ part = "channel" => ChannelTypeOK
    /\ part = "strategy" => BacktestTypeOK
    /\ part = "pages" => ViewsTypeOK
    /\ part = "features" => StoreTypeOK
    /\ part = "offline" => ResearchTypeOK
    /\ part = "forward" => WalkTypeOK
    /\ part = "optimizer" => SweepTypeOK
    /\ part = "cross" => Cross!TypeOK

\* CrossSection: later moments do not change a finished book.
BooksAreFinal == part = "cross" => Cross!BooksAreFinal
===============================================================================

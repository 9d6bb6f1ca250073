------------------------------- MODULE Sweep -------------------------------
(***************************************************************************)
(* The parameter sweep of app/optimization with its cache of evaluations   *)
(* and the candle download that feeds it: a grid of parameters is          *)
(* backtested on the first 70% of the stored candles (and, for the report, *)
(* on the rest), every evaluation is kept under a key, and a later sweep   *)
(* takes what it finds there.  A sweep may be cancelled between two        *)
(* combinations or die with its process; a download may run beside it, the *)
(* bot records snapshots and density events and throws old ones away, and  *)
(* a worker that starts again has read other settings.                     *)
(* Prices are the `Contents' of candles, times are multiples of the        *)
(* smallest timeframe, scores are in thousandths.                          *)
(***************************************************************************)
EXTENDS Integers, Sequences, FiniteSets, FiniteSetsExt

CONSTANTS Timeframes,         \* lengths of candles
          Contents,           \* what a candle may hold
          Unfinished,         \* those among them that one may show before it has closed
          ClosedAs(_, _),     \* what the candle of a timeframe and a time holds once closed
          Space,              \* the search space: a sequence of sequences of values
          Sampled(_, _),      \* random.Random(seed).sample(range(total), limit)
          Records,            \* what market_snapshots and density_events may hold,
          FirstRecords,       \*   hold at first,
          Barren,             \*   and hold when the strategy's own history is missing
          Tunings,            \* signals.min_score, the costs and backtest.min_trades
          FirstTuning,
          Backtested(_, _, _, _), \* profits of the trades of some parameters on some candles,
                              \*   with the records and the settings that are read
          Balance,
          Days, Limits,       \* what a job may ask for
          SweepEnd, MaxSweeps, MaxDownloads, MaxTurns   \* bounds of the model

VARIABLES moment,     \* the exchange's clock
          historical, \* historical_candles: timeframe -> open time -> content
          records,    \* the other tables a backtest reads
          tuning,     \* the settings of the worker
          cache,      \* hyperopt_evaluations: key -> row
          sweep,      \* the sweep under way
          done,       \* the result of the last sweep, once it has finished
          sweeps, downloads, turns
sweepVars == <<moment, historical, records, tuning, cache, sweep, done,
               sweeps, downloads, turns>>

\* Element p of S, the first one being 0: as many are before it.
Nth(S, before, p) == CHOOSE n \in S : Cardinality({k \in S : <<k, n>> \in before}) = p

Sorted(numbers) ==
    LET less == {pair \in numbers \X numbers : pair[1] < pair[2]}
    IN  [i \in 1..Cardinality(numbers) |-> Nth(numbers, less, i - 1)]

(* ------------------------------ the grid ------------------------------- *)
\* How many combinations the first n parameters have.
Products ==
    LET product[n \in 0..Len(Space)] ==
            IF n = 0 THEN 1 ELSE product[n - 1] * Len(Space[n])
    IN  product
Total == Products[Len(Space)]

\* What divmod has left of an index when it comes to parameter n, the last one first.
Quotients(index) ==
    LET quotient[n \in 0..Len(Space)] ==
            IF n = 0 THEN index
            ELSE quotient[n - 1] \div Len(Space[Len(Space) - n + 1])
    IN  [k \in 0..Len(Space) |-> quotient[Len(Space) - k]]
Combination(index) ==
    [k \in DOMAIN Space |-> Space[k][(Quotients(index)[k] % Len(Space[k])) + 1]]
Grid(limit) ==
    LET indexes == IF Total <= limit THEN 0..(Total - 1) ELSE Sampled(Total, limit)
    IN  [i \in 1..Cardinality(indexes) |-> Combination(Sorted(indexes)[i])]

(* ---------------------------- the objective ---------------------------- *)
Sum(pnls) ==
    LET total[i \in 0..Len(pnls)] == IF i = 0 THEN 0 ELSE total[i - 1] + pnls[i]
    IN  total[Len(pnls)]
Drawdown(pnls) ==
    LET equity(n) == Balance + Sum(SubSeq(pnls, 1, n))
        peak(n)   == Max({equity(k) : k \in 0..n})
    IN  Max({(100000 * (peak(n) - equity(n))) \div peak(n) : n \in 0..Len(pnls)})

Metrics(pnls) ==
    LET won  == Sum([i \in DOMAIN pnls |-> IF pnls[i] > 0 THEN pnls[i] ELSE 0])
        lost == Sum([i \in DOMAIN pnls |-> IF pnls[i] < 0 THEN 0 - pnls[i] ELSE 0])
    IN  [total_trades  |-> Len(pnls),
         profit_factor |-> IF lost > 0 THEN (1000 * won) \div lost ELSE 1000 * won,
         expectancy    |-> IF pnls = <<>> THEN 0 ELSE (1000 * Sum(pnls)) \div Len(pnls),
         return_pct    |-> (100000 * Sum(pnls)) \div Balance,
         max_drawdown  |-> Drawdown(pnls)]

OverfitPenalty(n) == IF n >= 100 THEN 0 ELSE 10 * (100 - n)
LowTradeCountPenalty(n, minTrades) ==
    IF n >= 2 * minTrades THEN 0 ELSE (1000 * (2 * minTrades - n)) \div Max({minTrades, 1})
ObjectiveScore(m, minTrades) ==
    IF m.total_trades < minTrades
    THEN (-9999000) + (1000 * m.total_trades)
    ELSE (35 * m.profit_factor + 30 * m.expectancy + 15 * m.return_pct
            - 30 * m.max_drawdown) \div 100
         - OverfitPenalty(m.total_trades) - LowTradeCountPenalty(m.total_trades, minTrades)

Histories == UNION {[1..n -> Contents] : n \in 0..(SweepEnd + 1)}

\* What the constants must satisfy.
BoundsAssumption ==
    /\ IsFiniteSet(Timeframes) /\ Timeframes \subseteq Nat \ {0}
    /\ Unfinished \subseteq Contents
    /\ \A f \in Timeframes, t \in 0..SweepEnd : ClosedAs(f, t) \in Contents
    /\ Days \subseteq Nat /\ Limits \subseteq Nat
    /\ FirstRecords \in Records /\ FirstTuning \in Tunings
    /\ Balance \in Nat \ {0} /\ \A t \in Tunings : t.minTrades \in Nat
    /\ SweepEnd \in Nat \ {0} /\ MaxSweeps \in Nat /\ MaxDownloads \in Nat
    /\ MaxTurns \in Nat
SpaceAssumption ==
    /\ Space \in Seq({Space[k] : k \in DOMAIN Space})
    /\ \A k \in DOMAIN Space :
          /\ Space[k] \in Seq({Space[k][i] : i \in DOMAIN Space[k]}) /\ Space[k] # <<>>
          /\ \A i, j \in DOMAIN Space[k] : Space[k][i] = Space[k][j] => i = j
    /\ \A limit \in Limits : Total > limit => Sampled(Total, limit) \subseteq 0..(Total - 1)
\* No result with enough trades is as bad as the score that stands for too few of them.
ScoresAssumption ==
    \A index \in 0..(Total - 1), candles \in Histories, seen \in Records, set \in Tunings :
        LET pnls == Backtested(Combination(index), candles, seen, set)
        IN  /\ pnls \in Seq(Int)
            /\ Len(pnls) >= set.minTrades =>
                  ObjectiveScore(Metrics(pnls), set.minTrades) > (-9999000) + 1000 * set.minTrades
SweepAssumption == BoundsAssumption /\ SpaceAssumption /\ ScoresAssumption

(* --------------------------- one evaluation ---------------------------- *)
\* The candles of the last `days' days, ending at the last one stored.
Window(candles, days) ==
    LET since == Max(DOMAIN candles) - days
    IN  Sorted({t \in DOMAIN candles : t >= since})
SplitAt(window) == Max({1, (7 * Len(window)) \div 10})

\* A world is what a backtest reads beside the candles and its parameters; of it, as of the
\* candles between the ends of the window, the key knows nothing.
Evaluated(train, test, minTrades) ==
    [objective |-> ObjectiveScore(train, minTrades), train |-> train, test |-> test]
EvaluationOn(params, all, split, world) ==
    LET result(candles) == Metrics(Backtested(params, candles, world.records, world.tuning))
    IN  Evaluated(result(SubSeq(all, 1, split)), result(SubSeq(all, split + 1, Len(all))),
                  world.tuning.minTrades)
EvaluationOf(params, candles, window, world) ==
    EvaluationOn(params, [i \in DOMAIN window |-> candles[window[i]]], SplitAt(window), world)
Evaluation(params, candles, days, world) ==
    EvaluationOf(params, candles, Window(candles, days), world)

\* Not the code: a key that leaves out where the window starts.
CacheKeyWithoutStart(timeframe, params, window) ==
    [timeframe |-> timeframe, params |-> params,
     end |-> window[Len(window)], split_at |-> SplitAt(window)]
CacheKey(timeframe, params, window) ==
    [timeframe |-> timeframe, params |-> params,
     start |-> window[1], end |-> window[Len(window)], split_at |-> SplitAt(window)]

\* Best first; equal ones stay in the order they were found in.
Ranked(rows) ==
    LET better == {pair \in (DOMAIN rows) \X (DOMAIN rows) :
                      \/ rows[pair[1]].objective > rows[pair[2]].objective
                      \/ rows[pair[1]].objective = rows[pair[2]].objective /\ pair[1] < pair[2]}
    IN  [i \in DOMAIN rows |-> rows[Nth(DOMAIN rows, better, i - 1)]]

(* ------------------------------ the steps ------------------------------ *)
NoSweep == [phase |-> "none"]
NotDone == [finished |-> FALSE]
Nothing == [t \in {} |-> 0]

SweepInit ==
    /\ moment = 1
    /\ historical = [f \in Timeframes |-> Nothing]
    /\ records = FirstRecords /\ tuning = FirstTuning
    /\ cache = [k \in {} |-> 0]
    /\ sweep = NoSweep /\ done = NotDone
    /\ sweeps = 0 /\ downloads = 0 /\ turns = 0

\* The market moves on, and with it the candle that is being formed.
Advance ==
    /\ moment < SweepEnd /\ moment' = moment + 1
    /\ UNCHANGED <<historical, records, tuning, cache, sweep, done, sweeps, downloads, turns>>

\* The bot stores snapshots and density events and deletes those past their retention.
Record ==
    /\ turns < MaxTurns /\ turns' = turns + 1
    /\ records' \in Records \ {records}
    /\ UNCHANGED <<moment, historical, tuning, cache, sweep, done, sweeps, downloads>>

\* runner.py: the worker reads the settings once, when it starts.
StartWorker ==
    /\ sweep = NoSweep
    /\ turns < MaxTurns /\ turns' = turns + 1
    /\ tuning' \in Tunings \ {tuning}
    /\ UNCHANGED <<moment, historical, records, cache, sweep, done, sweeps, downloads>>

\* download_bybit_history: the candle that is not finished yet comes with the others, as it
\* stands, and is stored under the open time it will keep; what was stored is replaced.
Download ==
    /\ downloads < MaxDownloads /\ downloads' = downloads + 1
    /\ \E f \in Timeframes, days \in Days, forming \in Unfinished :
         LET asked == {t \in Max({0, moment - days})..moment : t % f = 0}
             rows  == [t \in asked |-> IF t + f <= moment THEN ClosedAs(f, t) ELSE forming]
         IN  historical' = [historical EXCEPT ![f] =
                           [t \in DOMAIN @ \cup asked |->
                               IF t \in asked THEN rows[t] ELSE @[t]]]
    /\ UNCHANGED <<moment, records, tuning, cache, sweep, done, sweeps, turns>>

\* One timeframe begins: its candles, the records and the evaluations already there are read.
Load(timeframes, days, limit, pooled) ==
    sweep' = [phase |-> "loaded", timeframes |-> timeframes, days |-> days, limit |-> limit,
              pooled |-> pooled, candles |-> historical[Head(timeframes)], records |-> records, known |-> cache]

\* Timeframes asked for, without repeats.
Orders == {s \in UNION {[1..n -> Timeframes] : n \in 1..Cardinality(Timeframes)} :
              \A i, j \in DOMAIN s : s[i] = s[j] => i = j}

Begin ==
    /\ sweep = NoSweep /\ sweeps < MaxSweeps /\ sweeps' = sweeps + 1
    /\ \E timeframes \in Orders, days \in Days, limit \in Limits :
          Load(timeframes, days, limit, <<>>)
    /\ done' = NotDone
    /\ UNCHANGED <<moment, historical, records, tuning, cache, downloads, turns>>

Here == Head(sweep.timeframes)
KeysOf(grid, window) == [i \in DOMAIN grid |-> CacheKey(Here, grid[i], window)]
SweepKeys == KeysOf(Grid(sweep.limit), Window(sweep.candles, sweep.days))
Cached(i) == SweepKeys[i] \in DOMAIN sweep.known
Today == [records |-> sweep.records, tuning |-> tuning]
\* A row remembers the candles and the world it was computed in, and those of the sweep.
RowOf(params, found, of, world) ==
    [objective |-> found.objective, train |-> found.train, test |-> found.test,
     of |-> of, world |-> world,
     params |-> params, timeframe |-> Here, on |-> sweep.candles, today |-> Today]
FoundRow(params, found) == RowOf(params, found, found.of, found.world)
Row(i, params) ==
    IF Cached(i) THEN FoundRow(params, sweep.known[SweepKeys[i]])
    ELSE RowOf(params, Evaluation(params, sweep.candles, sweep.days, Today), sweep.candles, Today)
Rows == LET grid == Grid(sweep.limit) IN [i \in DOMAIN grid |-> Row(i, grid[i])]
Kept(row) ==
    [objective |-> row.objective, train |-> row.train, test |-> row.test,
     of |-> row.of, world |-> row.world]
KeptRows(fresh, keys, rows) ==
    LET stores(k) == {i \in fresh : keys[i] = k}
    IN  [k \in {keys[i] : i \in fresh} \cup DOMAIN cache |->
            IF stores(k) = {} THEN cache[k] ELSE Kept(rows[CHOOSE i \in stores(k) : TRUE])]
\* The rows computed for the first n combinations, stored whether the sweep ends or not.
Stored(n) == KeptRows({i \in 1..n : ~Cached(i)}, SweepKeys, Rows)

\* The timeframe is through: the next one is loaded, or the pooled results are ranked.
GoOn(pooled) ==
    IF Len(sweep.timeframes) > 1
    THEN /\ Load(Tail(sweep.timeframes), sweep.days, sweep.limit, pooled)
         /\ UNCHANGED done
    ELSE /\ sweep' = NoSweep
         /\ done' = [finished |-> TRUE, days |-> sweep.days, limit |-> sweep.limit,
                     ranking |-> Ranked(pooled)]

\* no_historical_candles, no_oi_history, insufficient_density_history
SkipTimeframe ==
    /\ sweep # NoSweep /\ (sweep.candles = Nothing \/ sweep.records \in Barren)
    /\ GoOn(sweep.pooled)
    /\ UNCHANGED <<moment, historical, records, tuning, cache, sweeps, downloads, turns>>

EvaluateAll ==
    /\ sweep # NoSweep /\ sweep.candles # Nothing /\ sweep.records \notin Barren
    /\ cache' = Stored(Len(Grid(sweep.limit)))
    /\ GoOn(sweep.pooled \o Ranked(Rows))
    /\ UNCHANGED <<moment, historical, records, tuning, sweeps, downloads, turns>>

\* raise_if_cancelled, before a combination that is not in the cache.
Cancelled ==
    /\ sweep # NoSweep /\ sweep.candles # Nothing /\ sweep.records \notin Barren
    /\ \E i \in DOMAIN Grid(sweep.limit) : ~Cached(i) /\ cache' = Stored(i - 1)
    /\ sweep' = NoSweep
    /\ UNCHANGED <<moment, historical, records, tuning, done, sweeps, downloads, turns>>

\* The process ends: what was computed since the timeframe began is lost.
Killed ==
    /\ sweep # NoSweep /\ sweep' = NoSweep
    /\ UNCHANGED <<moment, historical, records, tuning, cache, done, sweeps, downloads, turns>>

SweepNext ==
    \/ Advance \/ Download \/ Record \/ StartWorker
    \/ Begin \/ SkipTimeframe \/ EvaluateAll \/ Cancelled \/ Killed
SweepSpec == SweepInit /\ [][SweepNext]_sweepVars

(* ------------------------------ properties ----------------------------- *)
Same(row, now) == <<row.objective, row.train, row.test>> = <<now.objective, now.train, now.test>>
Computed(row) == Same(row, Evaluation(row.params, row.on, done.days, row.today))
Enough(row) == row.train.total_trades >= row.world.tuning.minTrades
RangeOf(rows) == {rows[i] : i \in DOMAIN rows}

\* Whatever was cancelled, killed, asked with other days or limits or taken from the cache
\* before, a finished sweep has one row for every combination of every timeframe that had
\* candles, best first and, among rows judged by the same min_trades, those with enough trades
\* before the others; and each row computed on the candles and in the world of this sweep is
\* what the backtest gives today: it was found under the key of this very window.
SweepFromScratch ==
    done.finished =>
        LET rows == done.ranking
            grid == RangeOf(Grid(done.limit)) IN
        /\ \A r \in RangeOf(rows) :
              {q.params : q \in {x \in RangeOf(rows) : x.timeframe = r.timeframe}} = grid
        /\ Len(rows) = Cardinality({r.timeframe : r \in RangeOf(rows)}) * Cardinality(grid)
        /\ \A i, j \in DOMAIN rows : i < j => rows[i].objective >= rows[j].objective
        /\ \A i, j \in DOMAIN rows :
              /\ rows[i].world.tuning.minTrades = rows[j].world.tuning.minTrades
              /\ Enough(rows[i]) /\ ~Enough(rows[j])
              => i < j
        /\ \A r \in RangeOf(rows) : r.of = r.on /\ r.world = r.today => Computed(r)

\* The key is said to hold `everything that changes the outcome': every row of a finished
\* sweep is what the backtest gives on the candles and the records that sweep has loaded, with
\* the settings of its worker.
CachedIsComputed == done.finished => \A r \in RangeOf(done.ranking) : Computed(r)

SweepTypeOK ==
    /\ moment \in 1..SweepEnd /\ sweeps \in 0..MaxSweeps /\ downloads \in 0..MaxDownloads
    /\ turns \in 0..MaxTurns /\ records \in Records /\ tuning \in Tunings
    /\ \A f \in Timeframes : /\ DOMAIN historical[f] \subseteq {t \in 0..SweepEnd : t % f = 0}
                             /\ RangeOf(historical[f]) \subseteq Contents
    /\ \A k \in DOMAIN cache : k.timeframe \in Timeframes /\ k.split_at >= 1
    /\ sweep.phase \in {"none", "loaded"}
=============================================================================

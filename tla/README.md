# A verification of the trading bot's core

TLA+ models of this repository, the TLC runs that check them on small instances, and
TLAPS proofs of the properties that matter most. Paths are relative to `src/`.

## The system

Three processes share one SQLite database (WAL mode, `busy_timeout` 5 s):

* the **bot** (`app/main.py`), one asyncio loop: market data, signals, paper trades, Telegram;
* the **web** dashboard (`app/web`), FastAPI: pages, toggles, jobs;
* the **worker** (`app/jobs/runner.py`): downloads, backtests, parameter sweeps, training.

A database session (`Database.session`, `app/data/database.py:254`) behaves as follows, and
the models rely on it. A SELECT reads what is committed at that moment and takes no lock.
The first flush takes SQLite's single write lock, which is held until the commit; a flush
that waits longer than the busy timeout raises and the session is rolled back. The ORM keeps
the rows it has loaded and writes the *absolute values* of the attributes that changed, so a
session can overwrite what another one has committed since its read.

### Inventory

| component | state | operations | interacts with | hard behaviour | correct when | module |
|---|---|---|---|---|---|---|
| paper position (`paper/manager.py`, `paper/risk.py`) | a row of `paper_trades` | `_update_trade`: partial close, breakeven, trailing, timeout, take, stop | profile settings, read anew at every tick | order of the helpers, settings changed while open | the stop never loosens and stays short of the take, the size is booked once, an exit's result fits its name | `PaperTrade` |
| paper sessions (`manager`, `executor`, `account`, reset in `telegram/commands.py`) | `_open_symbols`, the price lock, committed trades and balances | `open_for_signal`, `on_price`, `reset_paper_profile`, start | signal engine, websocket tasks, Telegram | interleaving at each await, stale reads, two locks, restarts | limits hold, a signal trades once per profile, balances add up, an open trade gets its ticks | `PaperManager`, `PaperBook` |
| jobs (`app/jobs`, `JobRepository`, `HyperoptCacheRepository`) | `jobs`, `hyperopt_evaluations`, the token's last answer | enqueue, claim, run, cancel, finish, clear cache | web writes, worker reads and writes | cancel racing claim and finish, worker death, failing `finally` | a job runs once, nothing is cancelled unasked, a stopped sweep keeps its work, the queue drains | `JobQueue` |
| signal engine (`signal_engine.py`) | cooldown (from `signals`), last snapshot time | `evaluate_once` | market data in; Telegram and paper manager out | notification inside the transaction, a nested session, cuts at each await | one stored signal per cooldown of symbol and strategy, every stored signal is offered, a round ends | `SignalEngine` |
| market data (`bybit_client.py`) | order book mirror, connection counter | snapshot, delta, break, reconnect | event sink | delta before snapshot, one-sided books, failed attempts, a lost connection that is still counted | the mirror is the exchange's book | `BybitFeed` |
| feature store (`features.py`) | time windows of prices, trades, open interest | add, trim, `snapshot` | sink, engine | trimming by age and number, late messages | trimming does not change a snapshot | `FeatureStore` |
| density tracker (`density_tracker.py`) | levels, bounded event queue, last actionable event | `update`, `drain_events`, storing in the engine's session | density strategy, engine | limits, drained and then dropped events | every life of a level is told from its start to its end, events are stored in order | `Density`, `DensityLife` |
| outcomes (`outcome_tracker.py`) | `signal_outcomes` | `evaluate_due_outcomes` | feature store, stored snapshots | restart, lost memory, partial window | one outcome per horizon, never more than the market did | `Outcomes` |
| runtime settings (`runtime_settings.py`, profile switches of `web/actions.py` and `telegram/commands.py`) | `runtime_settings`, `settings_json` of the profiles and a settings object per process | toggle, write, refresh loop, start | bot, dashboard, worker | writes that fail or commit late, refresh against a change, two stores for one switch | the processes converge | `RuntimeSettings` |
| database start and migration (`database.py`) | the schema | `create_all`, ALTER, indexes | three processes on one file | simultaneous start, crash half way | all end ready on a complete schema | `Startup` |
| strategies (`app/strategies`) | none | functions of a snapshot or of candles | engine, backtests | thresholds, points that move with the window | same decision for the same past; one entry per channel | `Strategies`, `ChannelTouch` |
| backtest (`app/backtesting`) | a simulated position | `run_on_candles`, `simulate_exit` | stored candles | looking ahead, overlap, the last bar | trades of a trader who sees one candle after the other | `Backtest`, `LiveTrader` |
| optimizer and downloads (`app/optimization`, `bybit_history.py`) | candles, cached evaluations | sweep, evaluate through the cache, rank, download | worker | cancelled and killed sweeps, candles that change | a finished sweep is one made from scratch | `Sweep` |
| offline research (`app/research`) | none | indicators, harness, portfolio, walk-forward, report, cross-section | files of candles | columns computed over the whole series, shared equity | see the claims of its docstrings, below | `Indicators`, `Research`, `Portfolio`, `WalkForward`, `Stats`, `CrossSection` |
| pages (`app/services`, menu of `app/telegram`, `app/web`) | two levels of TTL caches | ask, load, keep, invalidate | database | a fill racing an invalidation, queries of different age | every number was true a bounded time ago | `Views` |
| machine learning, trend, open interest, symbol selection, daily analysis, housekeeping | little or none | | | | | not modelled |

`PROJECT.json` lists all of them under `components`, with what is left out of each, and every
hazard of the code at its line under `hazards`.

## Modules

| module | models | extends / instances |
|---|---|---|
| `PaperTrade` | one position from the inserted row to its exit | |
| `PaperManager` | the sessions of the bot that write trades and balances | instances `PaperBook` |
| `PaperBook` | abstract: what the committed trades of a book may do | |
| `JobQueue` | the jobs table between the web and the worker process | |
| `RuntimeSettings` | settings in three memories and one table | |
| `Startup` | three processes creating one schema | |
| `SignalEngine` | one evaluation, await by await | |
| `Outcomes` | prices in memory and in the table, and what became of a signal | |
| `BybitFeed` | connections and the mirror of one order book | |
| `Density` | levels, event queue, storing | instances `DensityLife` |
| `DensityLife` | abstract: the lives of levels as the events tell them | |
| `FeatureStore` | time windows and the snapshot taken of them | |
| `Strategies` | the decisions of the snapshot strategies | |
| `Backtest` | the backtest of the bot's own strategies | extends `Strategies`, instances `LiveTrader` |
| `ChannelTouch` | the channel strategy over growing candles | |
| `Indicators` | the indicator columns of the research package | |
| `Research` | its strategies and its harness | extends `Indicators`, instances `LiveTrader` |
| `LiveTrader` | abstract: a trader who is shown one bar at a time | |
| `Portfolio`, `WalkForward` | one equity for all symbols; windows over a history | `WalkForward` extends `Portfolio` |
| `Stats`, `CrossSection` | the report with its acceptance table; ranking at each rebalance | `CrossSection` uses `Stats` |
| `Sweep` | the parameter sweep, its cache and the download that feeds it | |
| `Views` | pages, caches and readers | |
| `Absent` | the constant `None`, which several of them share | |
| `*_proofs` | theorems: `PaperTrade`, `PaperManager`, `JobQueue`, `Views` one by one; `Strategy_proofs` is about `ChannelTouch` and `Research`, `Signals_proofs` is about `SignalEngine` and `Outcomes`, `MarketData_proofs` about `BybitFeed`, `Density` and `FeatureStore`, `History_proofs` about `Backtest`, `Portfolio`, `WalkForward` and `Sweep` | extend these and `TLAPS` |
| `MC*` | constants of the small instances | see below |

Definitions commented `Faulty:` are variants of the definition that follows, as a plausible
bug would leave it. No specification uses them; each one stands beside the definition whose
replacement by it breaks a property, which shows that the property says something.

**Instances side by side.** The modules describe parts that meet in the database or in a
function call, not in shared variables. `MCPlatform`, `MCSignals` and `MCJobQueue` check
several of them in one run: a variable `part` picks one in the initial state, the others rest.
What a property says of one part is not weakened by it: in the behaviours that have picked
the part it moves as its own specification says. The modules that are proved about are
extended, so that the runs check the very definitions the theorems speak of. They name their
variables, specifications and assumptions apart for it (`FeedInit`, `DensityNext`, `OutcomesSpec`,
`StoreAssumption`, `WalkForwardAssumption`, `ResearchSpec`, ...). Only `CrossSection` is an
instance, in `MCPlatform`.

### PaperTrade

One action per way `_update_trade` can end: `Expire`, `TakeProfit`, `StopOut`, `Hold`. Each
includes everything the tick does before it looks for an exit, in the code's order
(`Manage`: watermark, partial close, breakeven, trailing); the exits compare with the stop
the same tick has moved. `Close` has the code's early return. `Reconfigure` is a settings
button: it replaces the profile's settings object, so breakeven, trailing and the holding
time may change under an open trade. `RRReached` keeps the asymmetry of `_trade_rr`: a
short's move is measured against the current price.

Prices, percentages and R-multiples are integers and comparisons are cross-multiplied, so
nothing is rounded on the chosen prices (multiples of 100). Fees and slippage are left out:
they change a result, never the life of a position. The size is 100 per cent of the position.

### PaperManager and PaperBook

The program counters are the awaits of the code. The opener (`open_for_signal`, called by
the signal loop only) goes profile by profile: `check` (the queries of `_skip_reason`),
`read` (profile loaded, waiting for the write lock), `inserted`, `watched`
(`_open_symbols.add`, still uncommitted), commit. A tick (`on_price`) is `waiting` for the
price lock, has `selected` its trades, has `loaded` a profile, and settles: what happens to
each trade is module `PaperTrade`, here reduced to "closes", "takes its partial profit" or
"stays", for some gain. The reset loads the profile after its check for open trades.
`Midnight` starts a new day for the daily loss; `Restart` loses everything that is not
committed and rebuilds `_open_symbols`.

Simplifications, each one either exact or more permissive than the code:

* The queries of `_skip_reason` are one step. Between them only ticks commit, and those only
  free room, so a later query never refuses what an earlier one allowed.
* Only the first changed trade's profile can be stale within a tick: its change is flushed
  by the next query, and from then on the session holds the write lock.
* Profiles are visited in any order; the code follows the order of the settings.
* A connection has one call under way, because it awaits the callback. A symbol has three
  topics (ticker, trades, book) and topics are cut into chunks of 20, so two connections can
  carry the same symbol: `Carries`.
* Ticks keep the price lock while they send messages about closed trades; the model gives it
  back at the commit, since the rest is only delay.
* `OpenFails` ends the call where an exception can: while the opener waits for the write lock,
  and between two profiles, when the message about a trade it has committed cannot be sent
  (`send_paper_opened` runs in a session of its own). A commit that fails for other reasons,
  such as a full disk, is left out.
* `open_for_signal` is called once per signal: the engine calls it for the signals it has just
  stored, under new ids.
* Which profiles a signal passes to (enabled, minimum score, filters) is the constant `Wants`.

`ledger` is a history variable: the balance with every fee and gain applied to it.

`PaperBook`: trades open one at a time and within the limits, at most once per signal and profile;
any set of open trades of one market closes together; closed trades stay closed.
`PaperManager` implements it with `status` mapped to itself: every internal step (reads,
locks, resets, restarts) is a stutter.

### JobQueue

Claim, cancel and finish are a load step and a commit step each, with
`OrmWrite(current, loaded, assigned)` for what the commit leaves. A cancel request answers
the user by the status it has *loaded*. The token reads the status at the first checkpoint
and later once per interval: after the first unit it may or may not look. A sweep skips the
cached combinations and stores its fresh ones in `finally`, which may fail. The worker dies
up to `MaxCrashes` times, also because a lock timeout in claim or finish is not caught.

One worker is assumed: `docker-compose.yml:46` gives the container a fixed name, and
`run_once` is awaited before it is called again. A sweep is one timeframe and its
combinations come in any order; the jobs table keeps its rows.

### SignalEngine

`evaluate_once`, with the program counter at its awaits: take a symbol, store its snapshot in
a session of its own, ask the strategies, query the cooldown, flush the row (which takes the
write lock and keeps it), send the message, commit, hand the new signals to the paper
manager. `lock` is SQLite's write lock; `OthersLock` is anybody else who takes it.
`SkipSnapshot` is the busy timeout, which also ends the wait for the evaluation's own outer
session. `AddTimesOut`, `Fail` and `Crash` cut an evaluation where an exception or a kill
can; `Switch` is `/pause` and the switch of paper trading, at any moment. `sent` keeps a
message although its row may be rolled back: that is the code's behaviour, and
`OneAlertPerCooldown` says what is left of the promise: the cooldown is one of the symbol *and*
the strategy, and a row that was rolled back counts for nothing. `OneAlertPerSymbol` is the
promise as the repository's README words it, for the symbol alone; two strategies break it.
`Offers` gives each symbol the strategies that may propose a candidate; whether they do is open
(`PassOver`), and what they compute is in `Strategies`.

`missed` is a history variable: the signals that were committed and not yet offered when an
exception or a crash cut the evaluation (`Cut`). Nothing ever offers them again, because they
are in cooldown. `OfferedUnlessCut` says that these are the only ones.

### Outcomes

`path` is the exchange's price at every moment, `memory` the moments the feature store still
holds, `snapshots` the stored ones. `Trim` runs with every price and `TrimAll` hourly, by
different clocks. `TakeUp`, `Evaluate` and `CommitOutcomes` are `evaluate_due_outcomes`, with the
memory of the moment of each `Evaluate`; `PricesIn` is the fallback order of `compute_outcome`.
`Restart` loses memory and rows under way and seeds memory with candles. Excursions are
differences of prices where the code divides by the entry.

### BybitFeed

The exchange is what `_handle_orderbook` relies on: a snapshot after each subscription, then
every change in order; a connection that goes down loses what is under way. `Applied` is the
dictionary update (size 0 takes a level out), `HandleOrderbook` has its early return for a
book with an empty side and its cut to `orderbook_depth_limit`. A connection ends in one of three
ways. `HangsUp`: the exchange ends the messages, and the `finally` clause counts down at once.
`Breaks`: it raises, the `except` clause sleeps five seconds, and only then (`Resumes`) is it
counted down; until then it is in `lost` and still counted. `ConnectFails`: it never came up and
was never counted, but the same sleep and the same count-down follow (`refused`). The mirror
deliberately survives a reconnect, as in the code.

`depthLimit` is any positive number, as the validator has it, below, at or above the depth
of the exchange's messages (`Depth`, 50). A limit below it cuts levels away that no later delta brings
back. `BookMirrors` therefore has two halves: when all messages are handled, every level of the
mirror is one of the exchange's book with its size, whatever the limit; and none is missing when
the limit is at least the depth.

### Density and DensityLife

One action of `Density` per order book (`Update`: the dense levels in order, then the vanished
ones up to the limit), one per part of `_persist_density_state`: `Drain`, then `Store` or
`Skip` (database locked: the events are gone). Reports are numbered in `reports`, so that the
queue, the batch and the table hold numbers. `DensityLife` is the abstract life of a level:
absent, alive, reported as holding; `phase` is mapped from `levels` and `held`, `report` to the
last event of a key. One side of one symbol; scores and distances are left out.

### FeatureStore

Three sequences (`retained`), trimmed by age and by number as they grow, and everything that was
ever `heard` as a history variable: the snapshot of what is kept is compared with the snapshot of
what was heard. A trade may come in late (`MaxLate`), as the exchange's timestamps do. A unit
of time stands for five minutes. Funding and the trend over the last 120 points are left out.

### RuntimeSettings

A change is made in memory first and written by a session of its own (`pending`), which
commits later, out of order, or never. The refresh loop reads the table (`Read`) and applies
what differs from its *previous* reading (`Apply`), not from the settings in memory. The
worker reads once at start and has no loop: `Refreshing` is the bot and the dashboard. `changes` and
`written` are ghosts that count the changes of a setting and the one its row holds.

The switch of a paper profile has a second writer. The dashboard changes
`paper.profiles.<key>.enabled` as any other setting (`web/actions.py:137-138`); the bot's menu changes
it in the bot's memory and writes the profile's `settings_json` (`telegram/commands.py:628-638`),
never a row (`ChangeAside`, `side`). At its start the bot applies the rows and then lays
`settings_json` over them (`Restart`). `own` is a ghost: the profiles whose value the bot has from
its menu or from `settings_json`, and not from a row it applied later. So the two processes
need not agree on such a profile: what the menu says never reaches the dashboard, and a row
the dashboard wrote before is undone at the bot's next start. `SettingsConverge` claims no more: all
processes that refresh end with what table and `config.yaml` give, except the bot for a profile in
`own`, and a process whose last write was lost for that setting.

### Startup

`create_all` looks up the tables once and creates what it found missing; whoever meets a table
that exists by then goes on to the migration, which fails if a later table is not there yet
(`NoSuchTable`): the process ends and is started again (`restart: unless-stopped` in
`docker-compose.yml`). The ALTER statements commit one by one; from the first UPDATE on they
are one transaction (`Finish`).

### Strategies, Backtest and LiveTrader

`Strategies` is the conditions, direction and bracket of each strategy over a snapshot record.
`Backtest` follows `run_on_candles`: the snapshot as of a candle (`SnapshotAt`), the events as
of it, the entry, `simulate_exit` candle by candle, and where the loop goes on afterwards. Its
only step is another stored candle: the whole backtest is then run again on the longer
history. A history may be of any length. The loop starts at `WarmupOf`: `MaxWarmup` (an hour or
more), or a third of the history while that is less, so that in a short history another candle
moves the start, and may change trades that were made before it. `BacktestIsLive` compares a backtest
with a trader who starts at the same candle (`TaskOn`) and knows nothing of the later ones: the start
is the only thing the length decides. `LiveTrader` is the specification: a trader who is handed one bar at a time and
decides from the bars seen so far. It is a function of the history, shared by `Backtest` and
`Research` with their own `Decide` and `Manage` operators substituted. A position that turns out
to be void (the harness refuses an entry that fills at its stop) has never been one.

### ChannelTouch

The strategy keeps no state and finds its channel again at every candle, over a window that
moves. `bars` grows by a candle; `GenerateSignal(i)` is what the strategy said at candle `i`.
Lines are multiplied by the span of the channel so that they stay whole.

### Indicators, Research, Portfolio, WalkForward, Stats, CrossSection

`Indicators` computes whole columns as the code does, as recursive functions over the index;
`None` is a value without enough history. Averages are kept in hundredths and rounded down,
so a comparison that hangs on less than that may differ from the code's floats; volatility is
kept as a variance, which orders bars as the deviation does. `Smoothed` is the loop that Wilder's
average, the exponential one and the sums of `adx` share; `Carried` is what differs. `Research` prepares the
columns once, asks the strategy at each close, fills at the next open and walks to the exit.
`Portfolio` is `combine`: settle, size, append, in the order of the entries (`Settle`, `Sized`,
`WithTrade` for one candidate, `Filled` and `PayAll` for all of them). `WalkForward` cuts the
windows by index (`rolled` counts them), reports the slices it has traded (`reported`), and keeps
the trades of all slices (`forward`) and the equity between them (`capital`); it leaves open which
parameters win and which trades a slice offers. `CrossSection` ranks at each rebalance and holds the book until the next; a moment may
lack the bar of a symbol. `Stats` is the monthly table, the summary and the acceptance table; the
Sharpe-like ratio is compared without its square root (`SharpeAtLeast`).

### Sweep

`historical` holds the candles of each timeframe, `Download` replaces the window it was asked for,
the unfinished last candle included, which may show anything in `Unfinished`; `ClosedAs` is what a
candle holds in the end, `Advance` the exchange's clock. A combination is the mixed-radix digits of
its index, as `divmod` takes them off from the last parameter on (`Quotients`); values of one
parameter are distinct. A sweep takes its timeframes one after the other (`Begin`,
`EvaluateAll` or `SkipTimeframe`), looks every combination up under `CacheKey` (`SweepKeys`, `Cached`) and computes the
others; `Cancelled` stores what it has computed, `Killed` does not. What a backtest earns is an
arbitrary operator (`Backtested`) of the parameters, the candles, the other tables it reads
(`records`: snapshots and density events) and the settings of the worker (`tuning`: the score
threshold, the costs, `backtest.min_trades`). `Record` changes the tables while sweeps run, as the bot does when it
records and when it deletes by retention; `StartWorker` changes the settings, which the worker reads
at its start; a timeframe whose own history is missing is skipped (`Barren`). The key knows
neither, so each row remembers the candles and the world it was computed in (`of`, `world`)
beside those of the sweep that reports it (`on`, `today`). `SweepFromScratch` claims that the rows
whose two are the same are what the backtest gives, that there is one row for each
combination, and that they are ranked; `CachedIsComputed` drops the condition, as the docstring of
`_cache_key` does, and `cached_sweep` refutes it.

### Views

A page is a list of sections, a section a list of queries, and each query sees the latest
commit: `Ask`, `Hit` or `Miss`, `Read`, `Fill` and `Finish` are steps between which trades open and close and other
readers fill or invalidate the caches. The readers run side by side: the dashboard's requests, and
the bot's menu, which handles up to four callbacks at once (`commands.py:77`), so that a page that was
loaded slowly may be kept after one that was asked for later. `LabTtl` stands for the TTL of the services (30 s in the
lab, 10 s in analytics), `PageTtl` for the menu's 8 s. The properties compare what is shown with
what was true when (`opened`, `closed`).

## Runs

| run | instance | result |
|---|---|---|
| `manager` | 2 signals, 2 profiles, 2 symbols, 2 connections that share a symbol, limits 1, losses | limits and duplicates hold; implements `PaperBook` |
| `manager_money` | 2 signals, 1 profile, limit 2, one connection per symbol, wins and losses, reset | daily loss, drift only from stale reads, no mutual blocking |
| `jobs` | a sweep of 2 combinations and a job without checkpoints, 1 crash; a setting changed once and the switch of a profile changed twice in the dashboard and once in the menu, a failing write, a restart; 3 processes on a file that may be old, a crash | jobs run once, sweeps keep their work, the queue drains; settings converge; the schema ends complete |
| `signals` | 2 symbols, 3 candidates of two strategies for the first, cooldown 1, 1 cut; 2 horizons, one longer than memory, 1 restart | one committed signal per cooldown of symbol and strategy, offers arrive unless they were cut, rounds end; outcomes are those of the window and are stored |
| `platform` | one instance each of the modules without shared state, see below | every property of those modules |
| `trade_full_partial` | `first_tp_pct` = 100 | violation: a tick past the holding time leaves the emptied trade open |
| `manager_watch` | as `manager`, no reset | violation: a tick between insert and commit leaves an open trade whose symbol is not watched |
| `manager_lost_update` | as `manager_money`, connections that share a symbol | violation: an entry fee is lost |
| `jobs_cancel` | as `jobs` | violation: a job reported as cancelled runs |
| `signals_per_symbol` | as `signals` | violation: two strategies' signals of one symbol in one evaluation |
| `outcomes_window` | two moments of horizon, one of memory | violation: stored snapshots of the window are not read |
| `cached_sweep` | two sweeps and a second download of the same window | violation: the cache answers for another candle |

The seven violations are disagreements between the code and its documentation; `findings` in
`PROJECT.json` quotes the line and describes the counterexample.

The parts of `platform`, and what their properties say:

| part | instance | properties |
|---|---|---|
| `trade` | long and short, 13 prices in steps of 1 % around a 2 % stop and a 6 % take, 4 settings | `BracketOrdered`, `SizeBooked`, `StopOnlyTightens` |
| `feed` | 2 connections, 2 levels a side, depth 2, limits 1 and 2, 1 message under way, 1 break, 1 failed attempt | `BookMirrors`, `CountedConnections` |
| `tracker` | 2 keys, sizes 0, 2, 6, queue of 2, drained one at a time, 4 events | `DensityHistory`, `LivesAreTold` (implements `DensityLife`) |
| `features` | retention of an hour, seeds of 2 and 5 points, 2 messages, one late | `TrimmingUnseen` |
| `strategy` | 7 setups, 3 candles and 4 out of 5 shapes, warm-up 1 or 2, a window of 4, 2 recent and 2 older candles | `BacktestIsLive` |
| `channel` | 3 candles and 6 out of 5 shapes, lookback 1 | `OneEntryPerChannel` |
| `offline` | 7 setups, 4 bars and 4 out of 4 shapes | `ResearchIsLive` |
| `forward` | 2 windows over 17 or 20 bars, at least 8 a window, train on none or 60 %, 6 offers, up to 3 a slice, 2 open trades, leverage 3 each and 4 together | `OutOfSample`, `SizedOnSettledEquity` |
| `optimizer` | 2 timeframes, 2 combinations, 2 sweeps, 2 downloads, limits and days, 1 change of the other tables or of the settings | `SweepFromScratch` |
| `cross` | 2 symbols, one of which may lack a bar, 4 bars and 5 more | `BooksAreFinal` |
| `pages` | 2 trades of one profile, 2 readers, TTLs of 1, 3 pages of the bot or 2 of the dashboard | `ShownIsHonest` |

**Bounds and why they are enough.** *Prices* of `trade`: every comparison of the code has
prices on both sides of each of its thresholds (stop, entry, 0.5/1/1.5 R, take), and one
beyond each end. *Ages*: before and at the timeout. *Settings*: all off, the shipped defaults,
a breakeven that comes early, a trailing stop with distance 0 from the start. *Signals and
profiles*: with a limit of 1, two signals on two symbols compete for one profile, and one
signal opens on two profiles one after the other, which is what the duplicate check, the
shared watch set and a tick with several trades need. *Feeds*: two ticks of one symbol
compete for the lock. *Gains*: one loss reaches the daily limit together with the entry fee;
one win stays above it. *Jobs*: two, so that one waits while the other's worker dies; two
combinations, so that the first checkpoint differs from a later one; one crash, since a
second one repeats the first on the other job. Every trade closes at most once, and every
signal is offered once, which bounds the state space without further constraints.

*Evaluations*: two candidates of one strategy, with one of another strategy between them, meet in
one session, in two sessions, and within and past the cooldown (times 0 to 2, cooldown 1); the second
symbol has a snapshot due while the first one's row holds the lock, and offers nothing; one cut, anywhere,
and another evaluation after it. To keep the run short, the clock reaches its last moment only in the
behaviours without a cut: after a cut there are still times within the cooldown, and the
theorems about the engine (below) need no such bound. *Outcomes*: one horizon within memory and one beyond it; three moments let the
longer one end while half of it is in memory, none of it, or only snapshots. *Writes of
settings*: two of one key, so that they can overtake each other, one change of that key in the menu
before, between or after them, one failure, one restart.
*Tables*: four are enough for a process to have found two missing and lose the race for
either, with an altered column and an index on tables from both halves. *Book*: two levels
and messages of depth two, with a limit of one, so that a level is cut away that no later message
brings back, and with a limit of two, where none may be missing; both sides can be empty. *Densities*: sizes below, above and far above the threshold reach
every kind of event; two keys vanish at once with a limit of one; the queue overflows at
three. *Histories*: the shortest at which a trade can open, be managed and be followed by
another; the backtest's grow from 3 to 7 candles, in which the start moves from the first to the second; the candle shapes are chosen so that every strategy of the setups fires and every kind
of exit happens. *Channel*: a window of eight that moves past the first pivots. *Windows*: the
second one trains on bars that the first has traded. *Sweeps*: the second one
meets what the first, cancelled or killed or under another limit, other snapshots or other settings,
has left. *Readers*: two, for a
slow one and a fast one around an invalidation, and a third page in the menu, which shows what the
slow one has left behind; two trades, one of them of an earlier day.

**Fairness.** A coroutine whose await is over is run by the event loop: weak fairness of the
opener's steps and of a tick's steps after its select, of the engine's `Proceed` (each of its
waits has a timeout) and of the outcome tracker's steps. `asyncio.Lock` serves its waiters in
order, so a waiting tick is not overtaken for ever: strong fairness of the select. Signals,
ticks, resets, failures, midnight and restarts are never forced. In `JobQueue` the worker's
loop (`Proceed`, without its error exits) and a cancel handler that has begun are weakly
fair. In `RuntimeSettings` a write that has begun ends, and the two refresh loops go round;
in `Startup` a process goes on, and one that has stopped is started again, which
`restart: unless-stopped` does. Users, errors and crashes are not forced, and they are bounded:
liveness is claimed for what happens after the last of them.

**Deadlock** is not checked: a closed trade, a book whose signals are all traded, an empty
queue and a history at its full length are proper ends. What must not block is stated as
liveness: `ManagerMoves` (a tick and an opener come to their end), `QueueMoves` (the queue
drains, the worker comes back to its loop), `EvaluationEnds`, `DueIsStored`,
`SettingsConverge`, `SchemaComplete`.

**Refinements**, checked as properties: `PaperManager` implements `PaperBook` (also proved),
`Density` implements `DensityLife`. `Backtest` and `Research` are compared with `LiveTrader`, which is
a function and not a state machine, by the invariants `BacktestIsLive` and `ResearchIsLive`:
later bars never change a closed trade, and no decision reads a bar that comes later.

## What is proved

For all values of the constants that the modules' assumptions admit:

* **PaperTrade** — `TypeCorrect`; `StopRatchet` (the stop only tightens, with no further
  assumption); `TradeSafety` (`BracketOrdered`, `SizeBooked`, `ExitsMatchTheirName`) for
  `FirstTpPct < 100`, an assumption the run `trade_full_partial` shows to be needed. The
  inductive invariant is the conjunction of the three (`ExitsMatchTheirName` alone says
  nothing of open trades) with one more fact: an open trade has booked no loss yet and its
  stop is no worse than planned. The bracket holds because a stop is the planned one, the
  entry, or a fraction of a watermark that is short of the take.
* **PaperManager** — the places first, then the money.
  * `Limits` (`WithinLimits`, with `InFlightAdmissible`), `TicksOwnTheirTrades` and
    `BookRefinement` (`ImplementsBook`). `WithinLimits` is not inductive: the row is inserted
    long after the limit was queried. The invariant adds `InFlightAdmissible` (a trade under
    way is still admissible: only the opener opens, everyone else makes room) and
    `TickOwnsItsTrades` (whoever has selected trades owns them until its commit, by the price
    lock), and the shapes of the three sessions' records. The refinement follows step by step:
    `CommitOpen` is `Open`, `SettleTick` is `Settle`, all others stutter.
  * `TypeCorrect`, where the balances are whole numbers because sums over finite sets of trades
    are (`SumIs`, `SumIsInt`, below).
  * `DailyLoss` (`OpensWithinDailyLoss`) for daily limits greater than zero. Its invariant is
    `LossAsChecked`: from the insertion on, the opener holds the write lock, so that what the
    day has brought changes by midnight only, which takes it to zero. A limit of zero, which
    the settings admit (`config.py:369`), is the one case where zero is not within
    the limit: a profile in profit passes the check, and after a midnight the same trade is
    committed at a loss of 0 of 0. Nothing is lost by it; the hypothesis says so.
  * `Drift` (`DriftOnlyFromStaleRead`), action by action: each commit adds the same to a balance
    and to its ledger unless the balance it loaded was stale, and the reset makes them equal.
* **JobQueue** — `TypeCorrect`; `JobSafety` (`RunsOnce`, `SweepKept`, `CancelledWasAsked`),
  with `OneRun` and `SweepResumes` as its parts; `EndIsFinal` (`EndedIsFinal`); `FirstLook`
  (`FirstCheckpointStops`). The invariant adds: a job in the queue, or about to be claimed, has
  never run (`QueuedNeverRan`); the job in the worker's hands has run once (`StartedRan`); a
  job has evaluated nothing before it starts (`NothingBeforeStart`); what a running sweep has
  evaluated is in the cache or still in its hands (`NothingDropped`). `FirstLook` needs that
  the token has asked the table exactly when a unit has been evaluated (`PolledIsBegun`): with
  no unit evaluated its next checkpoint is never one that skips the query.
* **SignalEngine** — `TypeCorrect`; `OneAlert` (`OneAlertPerCooldown`),
  `TradesAreOfStoredSignals` (`OpenedOnlyStored`) and `StoredIsOffered` (`OfferedUnlessCut`), for
  any symbols, offers, cooldown and cuts. The cooldown is queried two awaits before the row is
  committed. The invariant adds: nothing stored, in session or sent is ahead of the clock
  (`NotAhead`); the candidate that was accepted is past the cooldown of every row there is, the
  session's own included (`AcceptedIsFree`; only the engine stores signals, so that no other
  commit can change it); before the commit, what waits for the paper manager are rows of the
  session (`OpensItsOwn`); and no row, in session or stored, is missing among what is opened, declined,
  waiting, or was cut off between its commit and its offer (`NoneForgotten`, `missed`).
* **Outcomes** — `TypeCorrect`; `OutcomesAreTrue` (`OutcomeFromWindow`), for any prices, horizons
  and retention, under `OutcomesAssumption`. The outcome claims only prices of its window
  because each source of prices fits the path. A snapshot stores the latest price in memory,
  which may be older than the snapshot: it still shows the signal's entry price or a price since
  (`SnapshotFits`, which needs `EntryIsLatest` and `SnapshotIsLatest` as long as memory has nothing
  newer than the signal). Work is begun on horizons that are over only (`TodoIsDue`), so that the
  clock may go on while it is done. `AllFit` states the property of the rows not yet committed too, `OneEach` that no
  horizon has two.
* **BybitFeed** — `TypeCorrect`; `MirrorIsBook` (`BookMirrors`) and `ConnectionsCounted`
  (`CountedConnections`), for any number of connections, levels, sizes and depths and any limit,
  below the depth or above it, under `BookFeedAssumption`, which asks for types and a positive limit. The
  counter counts, besides the connections that are up, those that broke and are still in their sleep. The
  mirror is the book only when nothing is under way; the invariant (`Chained`) says what it is otherwise: each message of the channel leads from the book that
  the one before it has left to the next, the first of a fresh connection is a snapshot and needs
  no book to start from, and the last one leaves the exchange's. Cutting a book that was already
  cut changes nothing (`BestOfBest`).
* **Density** — `TypeCorrect`; `StoredOnceInOrder` (`DensityHistory`); `LivesRefine`
  (`LivesAreTold`: `Density` implements `DensityLife`), for any keys, sizes, lifetimes and limits,
  under `DensityAssumption`. The invariant (`InOrder`) is that table, batch and queue, in this
  order, are rising numbers of reports. The refinement shows for each key that the reports
  of one `Update` are what its life demands, the two loops, their order and the limit of
  vanished levels included; `Drain`, `Store` and `Skip` stutter.
* **ChannelTouch** — `OneEntry` (`OneEntryPerChannel`), for every history of candles, window and
  parameters, under `ChannelAssumption` (prices are positive, distances in candles at least 1).
  The strategy has no memory, so the only invariant is that candles are added; the
  proof is about two evaluations over the same candles. A channel that is found has three
  confirmed points in order (`Sound`), so its earlier entry would be a touch after point 3, which
  `_touch_at` refuses; and in a channel that was never broken, a wick that reaches the line is a
  touch (`ReachIsTouch`): the close on the wrong side, or a line below zero, would have broken it.

* **FeatureStore** — `FeaturesTypeCorrect` (each deque is exactly the end of everything that came in,
  and never longer than its limit); `TrimmedIsUnseen` (`TrimmingUnseen`). The invariant says of each
  deque what is gone: the first so many points of what was heard (`LeftOf`), and, as long as there is
  room, all of them older than the retention. The theorem has two hypotheses, and both are needed: no
  deque overflows (`EnoughRoom`), and no window is longer than the retention (`LooksBack`). The
  shipped `config.yaml` violates the second one for the hourly volume (see the observations).
* **Views** — `ViewsTypeCorrect`; `PagesAreHonest` (`ShownIsHonest`), for any trades, profiles, number
  of readers (callbacks of the menu as well as requests of the dashboard) and keeping times, under
  `ViewsAssumption`. The invariant says of every answer, wherever
  it is (in a service's cache, with a reader, in the menu, on the page), since when it must have been
  true, which questions it answers (`Told`, `Composed`), and that answers of one key were read in the
  order of its queries (`Ordered`): a page that lists a profile's closed trades before its open ones
  can count no trade twice, whoever fills, overtakes or invalidates. A cache keeps an answer from the
  time *before* its queries on, which is what bounds the age (`KeepLonger` is the variant that breaks
  it).
* **Backtest** — `BacktestTypeCorrect`; `NothingIsAhead` (`BacktestIsLive`), for any stored candles,
  however few, strategy, windows and exit rules, under `BacktestAssumption` (types, and windows of at
  least one candle). The trader starts at the warm-up of the history at hand; nothing else of it
  reaches a decision before its candle. The loop and the trader are coupled
  candle by candle (`Alike`): the loop's list is the trader's closed trades and, if the trader has a
  position, what will become of it in the candles that follow, over which the loop then skips.
  A decision is a function of the candles up to it (`DecidedFromPrefix`: windows, stored snapshots
  and events are those of the prefix), and a simulated exit is the one the trader's candles bring.
* **Research** — `ResearchTypeCorrect`; `DecidedOnPrinted` (`ResearchIsLive`), for any bars, strategy,
  periods, limits and exit rules, under `ResearchAssumption`. The argument has two halves. First, every
  indicator column of a part of the series is the beginning of the column of the whole series (`Begins`,
  one lemma for each indicator, `ColumnBegins` for all of them): a carried column exists and each value of
  it depends on the value before and the input so far (`SmoothedIs`, `AveragedIs`), and sums,
  maxima and variances reach back only. A strategy reads its columns at the bar and before it, so that
  it says the same at a bar whether the columns were prepared on the bars so far or on all of
  them (`SignalSame`). Second, the loop of the harness and the trader keep in step bar by bar
  (`InStep`): the trades made are those the trader has closed and, if the trader has a position, what
  becomes of it in the bars that follow. This covers the bar of an exit, at which both decide
  again, a position that turns out to be void, and a last trade that the series leaves open.
* **WalkForward, Portfolio** — `WalkTypeCorrect`; `ReportedIsUnseen` (`OutOfSample`) and
  `SizedAsOneAccount` (`SizedOnSettledEquity`), for any lengths, fractions, offers, number of windows
  and limits, under `WalkForwardAssumption`. The invariant has three parts. `SlicesInOrder`: the
  reported slices are those of rolled windows, in order, and all end where the next one begins.
  `TradesInSlices`: so the trades of the next slice come after all of them. `OneAccount`: the trades of
  all slices, in the order of their exits, are each sized on the initial equity and the results of
  a first part of them. Within a slice the account keeps a ledger: its equity is what it began with
  and the results of what it has paid, every trade (paid or running) was sized on such a first
  part, and the running ones fit the limits. Paying moves trades from one list to the other, so that
  every total over both stays (`MovedWeights`); a settlement pays exactly the ones that have ended,
  since the queue is sorted; and a new trade fits because `combine` settles before it sizes. The
  insertion sort is shown to be stable, sorted and to keep every total (`SortedIs`).
* **Sweep** — `SweepTypeCorrect`; `SweptFromScratch` (`SweepFromScratch`), for any search space, sample,
  backtest, timeframes, candles, records, settings, days and limits, under `SweepAssumption`. It says of a
  finished sweep that it has one row for each combination of each timeframe it did not skip, best first,
  and that a row is what the backtest gives today if it was computed on the candles, records and settings
  of this sweep. For the other rows the key gives no such assurance, and nothing is claimed of them. The invariant (`SweepInv`) says
  that every row of the cache is what the backtest gives on the candles, records and settings it was computed from, and that
  its key is that of their window (`CacheSound`); the same of what a sweep has read of the cache when
  it began; and that the rows pooled so far are one for each combination of each timeframe that is
  through (`Complete`). A row that is found for a window is right if it was computed from the candles
  that are loaded now, in the world of today, because the start of a window says what is in it (`WindowIs`): the same
  key means the same window, whatever number of days was asked for. Two indexes differ in a digit, so that
  a grid has no combination twice, and ranking loses and repeats no row, being a
  permutation in the order of the objective. `SweepAssumption` asks for what the settings give
  (numbers in range, values of a parameter distinct, a sample within the grid) and for one thing
  about results, `ScoresAssumption`: a result with enough trades scores more than -9999 + `MinTrades`, the
  upper end of the scores that stand for too few trades. The code relies on it without checking; an
  expectancy low enough to break it would be a loss of tens of thousands of USD a trade.

The assumptions about constants are in the modules they constrain. TLC evaluates them in the
runs (`MCPaperManager`, `MCJobQueue`, `MCSignals`, `MCPlatform`), and they ask for no more than
types, finiteness, and what the settings' validators or constructors ask for (`ResearchAssumption`:
periods and warm-up of at least one bar, a series that is not empty).

**Induction over data.** The induction theorems of the library take an operator as a parameter,
which the provers cannot instantiate. What has to be shown of all finite sets is shown by a least
counterexample instead: `Least` (a set of numbers that is not empty has a least one) follows from
the well-foundedness of `<`, which the library states without a parameter. So `AdderExists` and
`SumIs` show that the fold behind a sum of money exists and is the sum of its terms,
`GreatestExists` that finite sets have a maximum, `Latest` that the `CHOOSE` of a latest pivot is
one of the pivots. Recursive functions over a sequence (the loop of a backtest, the account of a
portfolio, a total, an insertion sort, a carried indicator column) are shown to exist in the same way (`Recursion`), and what is
true of each of their values by climbing from the first one (`Climb`).

**Only model-checked.** Liveness and its fairness (`ManagerMoves`, `QueueMoves`,
`SettingsConverge`, `SchemaComplete`, `EvaluationEnds`, `DueIsStored`), which is out of the
prover's reach. `BooksAreFinal`, which compares the cross-sectional books of two histories through
the rankings and the statistics. `CachedIsComputed`, which the
code does not keep (`cached_sweep`). The conjunctions of types of several parts in one run
(`Types`, `SharedTypes`), of which those of the modules named above are proved one by one.

Four proved invariants are in no run: `ExitsMatchTheirName` follows an exit's definition,
`InFlightAdmissible`, `CancelledWasAsked` and `LossAsChecked` are strengthenings that the theorems
`Limits`, `JobSafety` and `DailyLoss` need.

## Not modelled

* **Machine learning**: the numerics of a library. **Trend, open interest, symbol
  selection**: arithmetic on one response or one series. **Daily analysis**: one
  read-only report a day. **Housekeeping, start-up and shutdown loops**: they call one function
  at an interval; what a start and a stop leave is in `Restart` and `Crash` of the parts.
* **Interfaces**: wording, keyboards, charts, routes, templates and login. The handlers that
  change state are in the modules of that state.
* **Backup and retention**: single calls of SQLite. **Listing queries**: one session that
  reads and returns. **Throttles** of the market event sink: prices closer together than the
  interval are dropped, which `Outcomes` has as a price the bot does not hear.
* **REST paging and parsing** of downloads; **scores** of strategies beyond the threshold they
  are compared with; the equity curve, drawdown and daily statistics of a profile (derived,
  never read back into a decision).
* The profiles dictionary that may grow while `open_for_signal` iterates over it
  (`paper/manager.py:124`), and a repeated read of the density tracker's last event without a
  clock (`density_tracker.py:145`): hazards without a property, with the reason in `PROJECT.json`.

## Observations without a run

Met while modelling, too small or too clear to need a counterexample:

* The worker applies the stored settings once, when it starts (`jobs/runner.py:21`); the
  docstring of `runtime_settings.py` speaks of a value saved in one process that the others
  pick up. `SettingsConverge` therefore speaks of the bot and the dashboard.
* "Losing the race is harmless" (`database.py:44-46`) holds for the tables, not always for the
  process: it may go on to migrate tables the winner has still to create, and end
  (`Startup.NoSuchTable`). The restart heals it, which `SchemaComplete` shows.
* A trailing stop that closes in profit is reported as "SL" by the simulator, and the money of a
  partial close is counted from the entry price of the plan rather than the fill.
* The research harness moves breakeven and trailing stops with a bar before it compares the stop
  with that bar, while its comment claims the pessimistic order; it resumes at the bar of the
  exit, while the comment says after it. `Research` follows the code.
* `combine` pays the exits of a bar before it sizes the entries at that bar's open; `SizedOn`
  allows for it. `walk_forward` cuts each symbol by index, so that symbols with gaps are cut at
  different times.
* `profit_factor` without a losing trade is the profit in USD; `monthly_table` omits months
  without trades; `bars_held` of a stopped trade of the cross-section counts to the rebalance.
* The registry catches `TypeError` around a strategy and calls it again without its
  configuration, so that a `TypeError` from inside is retried too.
* `/pause` is lost in a restart; `symbol_selector` never takes a symbol off the active list; a
  trade that closes at midnight is in two daily analyses, whose interval drifts because it is
  counted from the end of a run.
* The shipped `config.yaml` keeps trades for 30 minutes (`keep_raw_ticks_minutes`), and the volume
  spike ratio divides the last five minutes by an average over the last 60 (`features.py:142-143`): with
  half of the hour gone the average is half of what it should be, and a steady volume has a ratio of
  about 2, above the shipped thresholds of 1.3 and 1.5 (`config.yaml:45`, `:128`). `TrimmingUnseen` holds when the retention covers the windows
  (`LooksBack`).
* A paper profile that was switched in the bot's menu shows its old state in the dashboard, and one that was
  switched in the dashboard is switched back when the bot restarts (`RuntimeSettings.side`).
* A view that was being loaded when its cache was invalidated is stored afterwards, and a
  Strategy Lab page joins answers of different age. `ShownIsHonest` bounds how old they are.

## Plan

What remains is to prove. In this order:

1. `CrossSection`: `BooksAreFinal`, by the argument of `DecidedOnPrinted`.
2. `RuntimeSettings`, safety part: a process holds for each setting the default, a value that
   was stored, or a change of its own. `Startup`: a ready process has its tables.

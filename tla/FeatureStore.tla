----------------------------- MODULE FeatureStore -----------------------------
(***************************************************************************)
(* MarketFeatureStore for one symbol: prices, trades and open interest as  *)
(* they come in, trimmed by age and by number, and the snapshot the signal *)
(* engine takes of them.  heard keeps everything that came in since the    *)
(* start: what a snapshot would say if nothing had been trimmed.  A unit   *)
(* of time stands for five minutes.                                        *)
(***************************************************************************)
EXTENDS Absent, Integers, Sequences, SequencesExt, FiniteSets, FiniteSetsExt

CONSTANTS
    PriceLevels,    \* prices
    Interests,      \* values of the open interest
    SeedLengths,    \* how many one-unit candles the exchange returns at the start
    Hour,           \* the units volume_60m looks back
    LongAgo,        \* the units of the longer change of the open interest
    SweepLookback,  \* sweep_lookback_minutes
    Retention,      \* keep_raw_ticks_minutes
    MaxPoints,      \* max_trade_points_per_symbol, and those of prices and interest
    MaxLate,        \* how old an event of the exchange may be when it comes in
    LastUnit,       \* bound: the clock
    MaxEvents       \* bound: events after the start

VARIABLES clock, retained, heard, incoming

storeVars == <<clock, retained, heard, incoming>>

\* What the constants must satisfy.
StoreAssumption ==
    /\ PriceLevels \subseteq Int /\ Interests \subseteq Int /\ SeedLengths \subseteq Nat
    /\ Hour \in Nat /\ LongAgo \in Nat /\ SweepLookback \in Nat /\ Retention \in Nat
    /\ MaxPoints \in Nat /\ MaxLate \in Nat /\ LastUnit \in Nat /\ MaxEvents \in Nat

Recent == 1     \* five minutes

Newest(values, n) == SubSeq(values, Max({1, Len(values) + 1 - n}), Len(values))

\* A fault: the point at the cutoff itself is dropped as well.
TrimAtCutoff(values, cutoff) ==
    LET fresh == {i \in DOMAIN values : values[i].at > cutoff}
    IN  IF fresh = {} THEN <<>> ELSE SubSeq(values, Min(fresh), Len(values))

\* _trim_key for one of the stores: popleft until the first point that is not too old.
Trim(values, cutoff) ==
    LET fresh == {i \in DOMAIN values : values[i].at >= cutoff}
    IN  IF fresh = {} THEN <<>> ELSE SubSeq(values, Min(fresh), Len(values))

\* append to the deques of the store, and _trim_key with the time given.
Added(store, new, at) ==
    [name \in DOMAIN store |-> Trim(Newest(store[name] \o new[name], MaxPoints), at - Retention)]

Heard(store, new) == [name \in DOMAIN store |-> store[name] \o new[name]]

Point(at, value) == [at |-> at, value |-> value]

\* A price, and with it a trade, or the open interest.
Quoted(at, p) == [prices |-> <<Point(at, p)>>, trades |-> <<>>, oi |-> <<>>]
Traded(at, p) == [prices |-> <<Point(at, p)>>, trades |-> <<Point(at, 1)>>, oi |-> <<>>]
Polled(at, oi) == [prices |-> <<>>, trades |-> <<>>, oi |-> <<Point(at, oi)>>]
Ticker(at, p, oi) == [prices |-> <<Point(at, p)>>, trades |-> <<>>, oi |-> <<Point(at, oi)>>]

Untouched == [prices |-> <<>>, trades |-> <<>>, oi |-> <<>>]

\* seed_candle for each of n candles: its turnover counts as one trade; the clock trims.
Seeded(n, p) ==
    LET f[i \in 0..n] == IF i = 0 THEN Untouched ELSE Added(f[i - 1], Traded(i - n, p), 0)
    IN  f[n]

StoreInit ==
    /\ clock = 0 /\ incoming = 0
    /\ \E n \in SeedLengths, p \in PriceLevels :
          /\ retained = Seeded(n, p)
          /\ heard = [prices |-> [i \in 1..n |-> Point(i - n, p)],
                      trades |-> [i \in 1..n |-> Point(i - n, 1)], oi |-> <<>>]

Later == clock < LastUnit /\ clock' = clock + 1 /\ UNCHANGED <<retained, heard, incoming>>

ComesIn(new, at) ==
    /\ incoming < MaxEvents
    /\ incoming' = incoming + 1
    /\ retained' = Added(retained, new, at)
    /\ heard' = Heard(heard, new)
    /\ UNCHANGED clock

\* Trades carry the time of the exchange.
OnTrade == \E late \in 0..MaxLate, p \in PriceLevels : ComesIn(Traded(clock - late, p), clock - late)

\* Not every ticker message has the open interest.
OnTicker ==
    \E p \in PriceLevels :
        \/ ComesIn(Quoted(clock, p), clock)
        \/ \E oi \in Interests : ComesIn(Ticker(clock, p, oi), clock)

OnOpenInterest == \E oi \in Interests : ComesIn(Polled(clock, oi), clock)

StoreNext == Later \/ OnTrade \/ OnTicker \/ OnOpenInterest

StoreSpec == StoreInit /\ [][StoreNext]_storeVars

-----------------------------------------------------------------------------
(* snapshot *)

LatestPrice(store) == Last(store.prices).value

SumVolume(trades, from) ==
    LET sum[n \in 0..Len(trades)] ==
            IF n = 0 THEN 0
            ELSE sum[n - 1] + (IF from <= trades[n].at /\ trades[n].at <= clock
                               THEN trades[n].value ELSE 0)
    IN  sum[Len(trades)]

\* _value_at_or_before: the scan stops at the first point that is later.
ValueAtOrBefore(values, target) ==
    LET later == {i \in DOMAIN values : values[i].at > target}
        n == IF later = {} THEN Len(values) ELSE Min(later) - 1
    IN  IF n = 0 THEN None ELSE values[n].value

Change(values, ago) ==
    LET before == ValueAtOrBefore(values, clock - ago)
    IN  IF before = None THEN None ELSE Last(values).value - before

\* volume_5m / (volume_60m / 12), in hundredths.
SpikeRatio(store) ==
    LET hour == SumVolume(store.trades, clock - Hour)
    IN  IF hour = 0 THEN 0
        ELSE (SumVolume(store.trades, clock - Recent) * (Hour \div Recent) * 100) \div hour

\* _sweep_state, the levels given only when the price has returned from them.
SweepState(store) ==
    LET values == {store.prices[i] : i \in DOMAIN store.prices}
        older == {v.value : v \in {w \in values : clock - SweepLookback <= w.at /\ w.at < clock - Recent}}
        recent == {v.value : v \in {w \in values : clock - Recent <= w.at /\ w.at <= clock}}
        price == LatestPrice(store)
    IN  IF older = {} \/ recent = {} THEN [low |-> None, high |-> None]
        ELSE [low |-> IF Min(recent) < Min(older) /\ price > Min(older) THEN Min(older) ELSE None,
              high |-> IF Max(recent) > Max(older) /\ price < Max(older) THEN Max(older) ELSE None]

Snapshot(store) ==
    [price |-> LatestPrice(store), change |-> Change(store.prices, Recent),
     oi5 |-> Change(store.oi, Recent), oi15 |-> Change(store.oi, LongAgo),
     ratio |-> SpikeRatio(store), sweep |-> SweepState(store)]

-----------------------------------------------------------------------------
(***************************************************************************)
(* With a retention of at least an hour the trimming is not seen: volume,  *)
(* sweeps and the price of a snapshot are those of everything heard, and a *)
(* change is either that of everything heard or unknown.                   *)
(***************************************************************************)
TrimmingUnseen ==
    retained.prices # <<>> =>
        LET seen == Snapshot(retained)
            all == Snapshot(heard)
        IN  /\ seen.price = all.price /\ seen.ratio = all.ratio /\ seen.sweep = all.sweep
            /\ seen.change \in {None, all.change}
            /\ seen.oi5 \in {None, all.oi5} /\ seen.oi15 \in {None, all.oi15}

StoreTypeOK ==
    /\ clock \in 0..LastUnit /\ incoming \in 0..MaxEvents
    /\ \A name \in {"prices", "trades", "oi"} :
          /\ Len(retained[name]) <= MaxPoints
          /\ retained[name] = Newest(heard[name], Len(retained[name]))
===============================================================================

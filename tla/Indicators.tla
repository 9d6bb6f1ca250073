------------------------------ MODULE Indicators ------------------------------
(***************************************************************************)
(* The indicator columns of the research package, computed once over a     *)
(* whole series of bars (open, high, low, close).  A value that has not    *)
(* enough history is None.  Prices are whole numbers, averages are in      *)
(* hundredths of them, rounded down; volatility is kept as a variance,     *)
(* which orders bars as the deviation does.                                *)
(***************************************************************************)
EXTENDS Absent, Integers, Sequences, FiniteSets, FiniteSetsExt

Larger(a, b) == IF a > b THEN a ELSE b
Apart(a, b) == IF a > b THEN a - b ELSE b - a

\* f[from] + ... + f[to]
SumFrom(f, from, to) ==
    LET total[n \in (from - 1)..to] == IF n = from - 1 THEN 0 ELSE total[n - 1] + f[n]
    IN  total[to]

\* The sequence f itself, every value of it computed once.
Column(f) == SubSeq(f, 1, Len(f))

Highs(bars) == [i \in DOMAIN bars |-> bars[i].high]
Lows(bars) == [i \in DOMAIN bars |-> bars[i].low]
Closes(bars) == [i \in DOMAIN bars |-> bars[i].close]

TrueRange(bars) ==
    [i \in DOMAIN bars |->
        IF i = 1 THEN bars[i].high - bars[i].low
        ELSE Max({bars[i].high - bars[i].low,
                  Apart(bars[i].high, bars[i - 1].close),
                  Apart(bars[i].low, bars[i - 1].close)})]

\* What is carried from bar to bar: Wilder's average, an exponential one, or a sum that
\* forgets one part in period of itself.  Each begins with period values.
Begun(kind, period, total) == IF kind = "sum" THEN total ELSE total \div period
Carried(kind, period, carried, v) ==
    CASE kind = "wilder" -> carried + (v - carried) \div period
      [] kind = "ema" -> carried + (2 * (v - carried)) \div (period + 1)
      [] kind = "sum" -> carried - carried \div period + v

\* The values from the one at `first' on, carried.
Smoothed(kind, values, period, first) ==
    LET begin == first + period - 1
        f[i \in DOMAIN values] ==
            IF i < begin THEN None
            ELSE IF i = begin THEN Begun(kind, period, 100 * SumFrom(values, first, begin))
            ELSE Carried(kind, period, f[i - 1], 100 * values[i])
    IN  Column(f)

Atr(bars, period) == Smoothed("wilder", Column(TrueRange(bars)), period, 1)
Ema(values, period) == Smoothed("ema", values, period, 1)

\* Faulty: an average centred on its bar instead of ending there.
SmaCentred(values, period) ==
    [i \in DOMAIN values |->
        IF i < period THEN None
        ELSE LET last == IF i = Len(values) THEN i ELSE i + 1
             IN  (100 * SumFrom(values, last - period + 1, last)) \div period]

Sma(values, period) ==
    [i \in DOMAIN values |->
        IF i < period THEN None ELSE (100 * SumFrom(values, i - period + 1, i)) \div period]

RollingMax(values, period) ==
    [i \in DOMAIN values |->
        IF i < period THEN None ELSE Max({values[j] : j \in (i - period + 1)..i})]

RollingMin(values, period) ==
    [i \in DOMAIN values |->
        IF i < period THEN None ELSE Min({values[j] : j \in (i - period + 1)..i})]

\* The squared distances from the mean of the last period values, their sum times period squared.
Variance(values, period, first) ==
    [i \in DOMAIN values |->
        IF i < first THEN None
        ELSE LET total == SumFrom(values, i - period + 1, i)
                 away  == [j \in (i - period + 1)..i |-> values[j] * period - total]
             IN  SumFrom([j \in (i - period + 1)..i |-> away[j] * away[j]], i - period + 1, i)]

RollingSd(values, period) == Variance(values, period, period)

\* The changes from bar to bar; what they are of the bar before, in hundredths of a percent.
Moves(values) == [i \in DOMAIN values |-> IF i = 1 THEN 0 ELSE values[i] - values[i - 1]]
Returns(values) ==
    [i \in DOMAIN values |->
        IF i = 1 THEN 0
        ELSE IF values[i - 1] = 0 THEN 0
        ELSE (Moves(values)[i] * 10000) \div values[i - 1]]
RealisedVolatility(values, period) == Variance(Column(Returns(values)), period, period + 1)

Rsi(values, period) ==
    LET gains  == [i \in DOMAIN values |-> Larger(Moves(values)[i], 0)]
        losses == [i \in DOMAIN values |-> Larger(0 - Moves(values)[i], 0)]
        gained == Smoothed("wilder", Column(gains), period, 2)
        lost   == Smoothed("wilder", Column(losses), period, 2)
    IN  [i \in DOMAIN values |->
            IF i <= period THEN None
            ELSE IF lost[i] = 0 THEN 100
            ELSE (100 * gained[i]) \div (gained[i] + lost[i])]

\* How far the highs have moved up, or the lows down, where that is the larger move.
Directed(bars, up) ==
    LET rise(i) == bars[i].high - bars[i - 1].high
        fall(i) == bars[i - 1].low - bars[i].low
        this(i) == IF up THEN rise(i) ELSE fall(i)
        that(i) == IF up THEN fall(i) ELSE rise(i)
    IN  [i \in DOMAIN bars |->
            IF i = 1 THEN 0 ELSE IF this(i) > that(i) /\ this(i) > 0 THEN this(i) ELSE 0]

\* The directional index of every bar.
Indexes(plus, minus) ==
    [i \in DOMAIN plus |->
        IF plus[i] = None THEN None
        ELSE IF plus[i] + minus[i] = 0 THEN 0
        ELSE (10000 * Apart(plus[i], minus[i])) \div (plus[i] + minus[i])]

\* Its average over the bars that have one; a bar without ends it for good.
AveragedIndex(ranges, indexes, period) ==
    LET counted(i) == {j \in (period + 2)..i : ranges[j] > 0}
        f[i \in DOMAIN ranges] ==
            IF i < period + 2 THEN None
            ELSE IF ranges[i] <= 0 \/ Cardinality(counted(i)) < period THEN None
            ELSE IF Cardinality(counted(i)) = period
            THEN SumFrom([j \in (period + 2)..i |-> IF ranges[j] > 0 THEN indexes[j] ELSE 0],
                       period + 2, i) \div period
            ELSE LET before == f[i - 1]
                 IN  IF before = None THEN None
                     ELSE Carried("wilder", period, before, indexes[i])
    IN  Column(f)

\* adx; its check for 2 * period bars is left out, since no average comes before the bar after.
Adx(bars, period) ==
    LET ranges == Smoothed("sum", Column(TrueRange(bars)), period, 2)
        plus   == Smoothed("sum", Column(Directed(bars, TRUE)), period, 2)
        minus  == Smoothed("sum", Column(Directed(bars, FALSE)), period, 2)
    IN  AveragedIndex(ranges, Column(Indexes(plus, minus)), period)
===============================================================================

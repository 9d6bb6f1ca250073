----------------------------- MODULE ChannelTouch -----------------------------
(***************************************************************************)
(* The strategy channel_4_touch: two pivots on one side and one between    *)
(* them on the other fix two parallel lines, and the first candle to reach *)
(* the line opposite the last pivot is the entry.  The strategy keeps no   *)
(* state: at every candle it finds its channel again in the candles it is  *)
(* handed.  Prices are whole numbers, the lines are multiplied by the span *)
(* of the channel; percentages of the parameters are in thousandths.  The  *)
(* score is left out.                                                      *)
(***************************************************************************)
EXTENDS Absent, Integers, Sequences, FiniteSets, FiniteSetsExt

CONSTANTS
    Shapes,         \* shapes of a candle: high, low, close
    Beginning,      \* the candles before the first new one
    History,        \* required_history: candles the engine hands over
    Channel4,       \* the merged parameters, a record
    MaxCandles      \* bound: length of the history

VARIABLE bars

Price == Nat \ {0}
CandleBar == [high : Price, low : Price, close : Price]

\* Candles have prices, and the parameters admit a channel that has a length.
ChannelAssumption ==
    /\ Shapes \subseteq CandleBar /\ Beginning \in Seq(Shapes) \ {<<>>}
    /\ History \in Nat /\ MaxCandles \in Nat /\ Len(Beginning) <= MaxCandles
    /\ Channel4.lookback \in Nat \ {0} /\ Channel4.gap \in Nat \ {0}
    /\ {Channel4.maxWait, Channel4.minWait} \subseteq Int
    /\ {Channel4.tolerance, Channel4.buffer} \subseteq Nat

First(i) == Max({1, i + 1 - History})

\* _pivots: highs and lows that dominate lookback candles on both sides.
Pivots(from, last) ==
    LET near(i) == (i - Channel4.lookback)..(i + Channel4.lookback)
        inner == (from + Channel4.lookback)..last
    IN  {[at |-> i, kind |-> "high", price |-> bars[i].high] :
            i \in {j \in inner : \A k \in near(j) : bars[j].high >= bars[k].high}}
        \cup
        {[at |-> i, kind |-> "low", price |-> bars[i].low] :
            i \in {j \in inner : \A k \in near(j) : bars[j].low <= bars[k].low}}

\* _previous_pivot
PreviousPivot(pivots, kind, limit) ==
    LET before == {p \in pivots : p.kind = kind /\ p.at <= limit}
    IN  IF before = {} THEN None
        ELSE CHOOSE p \in before : \A q \in before : q.at <= p.at

Span(c) == c[3].at - c[1].at
AnchorAt(c, i) == c[1].price * Span(c) + (c[3].price - c[1].price) * (i - c[1].at)
Offset(c) == c[2].price * Span(c) - AnchorAt(c, c[2].at)
Upper(c, i) == AnchorAt(c, i) + IF c[3].kind = "high" THEN 0 ELSE Offset(c)
Lower(c, i) == AnchorAt(c, i) + IF c[3].kind = "low" THEN 0 ELSE Offset(c)
Direction(c) == IF c[3].kind = "high" THEN "LONG" ELSE "SHORT"

Through(c) ==
    IF c[1] = None THEN None
    ELSE IF (IF c[3].kind = "high" THEN Offset(c) < 0 ELSE Offset(c) > 0) THEN c
    ELSE None

WithPoint1(pivots, point2, point3) ==
    IF point2 = None THEN None
    ELSE Through(<<PreviousPivot(pivots, point3.kind, point2.at - Channel4.gap), point2, point3>>)

\* _channel_from_points: the three points, if point 2 is on the far side of the line.
ChannelFrom(pivots, point3) ==
    LET other == IF point3.kind = "high" THEN "low" ELSE "high"
    IN  WithPoint1(pivots, PreviousPivot(pivots, other, point3.at - Channel4.gap), point3)

\* _is_broken: a close past a line by more than the buffer.
IsBroken(c, current) ==
    \E i \in c[1].at..current :
        LET close == bars[i].close * Span(c) * 1000
        IN  \/ close > Upper(c, i) * (1000 + Channel4.buffer)
            \/ close < Lower(c, i) * (1000 - Channel4.buffer)

OpenChannels(pivots, current) ==
    LET recent == {p \in pivots : p.at >= current - Channel4.maxWait}
    IN  {c \in {ChannelFrom(pivots, p) : p \in recent} \ {None} : ~IsBroken(c, current)}

\* The newest point 3 wins, a low before a high of the same candle.
NewestOf(channels) ==
    LET newest == {c \in channels : \A d \in channels : d[3].at <= c[3].at}
        low == {c \in newest : c[3].kind = "low"}
    IN  IF channels = {} THEN None
        ELSE CHOOSE c \in newest : low # {} => c \in low

\* _find_channel
FindChannel(current) ==
    NewestOf(OpenChannels(Pivots(First(current), current - Channel4.lookback), current))

\* _touch_of: the wick reaches the line opposite point 3 and the close stays inside.
TouchOf(i, c) ==
    LET scale == Span(c) * 1000
    IN  IF Direction(c) = "LONG"
        THEN /\ Lower(c, i) > 0
             /\ bars[i].low * scale <= Lower(c, i) * (1000 + Channel4.tolerance)
             /\ bars[i].close * scale >= Lower(c, i) * (1000 - Channel4.buffer)
        ELSE /\ Upper(c, i) > 0
             /\ bars[i].high * scale >= Upper(c, i) * (1000 - Channel4.tolerance)
             /\ bars[i].close * scale <= Upper(c, i) * (1000 + Channel4.buffer)

\* A fault: touches before point 3 was confirmed are not looked at.
TouchAfterConfirmation(current, c) ==
    /\ current - c[3].at >= Channel4.minWait
    /\ TouchOf(current, c)
    /\ \A i \in (c[3].at + Channel4.lookback + 1)..(current - 1) : ~TouchOf(i, c)

\* _touch_at: the fourth touch, and only the fourth.
TouchAt(current, c) ==
    /\ current - c[3].at >= Channel4.minWait
    /\ TouchOf(current, c)
    /\ \A i \in (c[3].at + 1)..(current - 1) : ~TouchOf(i, c)

\* _build_signal: stop and take in thousandths of the close, if the trade is worth it.
BuildSignal(current, c) ==
    LET bar == bars[current]
        long == Direction(c) = "LONG"
        entry == bar.close * Span(c)
        boundary == IF long THEN Lower(c, current) ELSE Upper(c, current)
        beyond == IF long
                  THEN Min({bar.low * Span(c), boundary}) * (1000 - Channel4.stopBuffer)
                  ELSE Max({bar.high * Span(c), boundary}) * (1000 + Channel4.stopBuffer)
        structural == IF long THEN entry * 1000 - beyond ELSE beyond - entry * 1000
        room == IF long THEN Upper(c, current) - entry ELSE entry - Lower(c, current)
        stop == Max({Channel4.stop, structural \div entry})
        take == Min({Channel4.take, (room * 1000) \div entry})
    IN  IF stop <= 0 \/ stop > Channel4.maxStop \/ room <= 0 \/ take * 100 < Channel4.minRR * stop
        THEN None
        ELSE [channel |-> c, direction |-> Direction(c), stop |-> stop, take |-> take]

SignalOf(i, c) ==
    IF c = None THEN None ELSE IF TouchAt(i, c) THEN BuildSignal(i, c) ELSE None

\* generate_signal at candle i, over the candles handed over with it.
GenerateSignal(i) ==
    IF i + 1 - First(i) < 2 * Channel4.lookback + 2 * Channel4.gap + 3 THEN None
    ELSE SignalOf(i, FindChannel(i))

-----------------------------------------------------------------------------
ChannelInit == bars = Beginning

Candle(bar) == Len(bars) < MaxCandles /\ bars' = Append(bars, bar)

ChannelNext == \E bar \in Shapes : Candle(bar)

ChannelSpec == ChannelInit /\ [][ChannelNext]_bars

-----------------------------------------------------------------------------
\* The wick is on the line opposite point 3, or past it, wherever the candle closes.
Reaches(i, c) ==
    IF Direction(c) = "LONG"
    THEN bars[i].low * Span(c) * 1000 <= Lower(c, i) * (1000 + Channel4.tolerance)
    ELSE bars[i].high * Span(c) * 1000 >= Upper(c, i) * (1000 - Channel4.tolerance)

(***************************************************************************)
(* README: "the first touch of the opposite boundary after point 3 - the   *)
(* fourth touch overall - is the entry" and "a broken channel never        *)
(* produces another signal".  However the window moves and whichever       *)
(* points are confirmed meanwhile, three points give one entry at most,    *)
(* on the first candle after them that reaches the opposite line.          *)
(***************************************************************************)
OneEntryPerChannel ==
    LET entry == [i \in DOMAIN bars |-> GenerateSignal(i)]
        now == Len(bars)
        new == entry[now]
    IN  new # None =>
            /\ \A i \in 1..(now - 1) :
                  entry[i] # None => entry[i].channel # new.channel
            /\ \A i \in (new.channel[3].at + 1)..(now - 1) : ~Reaches(i, new.channel)
            /\ Reaches(now, new.channel)

ChannelTypeOK == Len(bars) \in Len(Beginning)..MaxCandles
===============================================================================

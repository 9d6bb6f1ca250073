-------------------------- MODULE Strategy_proofs --------------------------
(***************************************************************************)
(* Proofs about what a strategy makes of the bars of a history.            *)
(* ChannelTouch, for every history of candles, every window and all        *)
(* parameters: the strategy is a function of the candles, so what is to be *)
(* shown of a state is shown of the channel it finds there: its points are *)
(* in order and confirmed (Sound), it was not broken, and its candle is    *)
(* the first to touch.  Research, for any bars, strategies, periods and    *)
(* exit rules: the harness makes the trades of a trader who is shown one   *)
(* bar after the other.                                                    *)
(***************************************************************************)
EXTENDS ChannelTouch, Research, FiniteSetTheorems, SequenceTheorems, WellFoundedInduction, TLAPS

(* Induction on numbers, for a set; parts of a sequence *)

LEMMA Least ==
    ASSUME NEW B \in SUBSET Nat, B # {}
    PROVE  \E n \in B : \A m \in B : n <= m
<1> DEFINE Less == OpToRel(<, Nat)
<1>1. IsWellFoundedOn(Less, Nat)
  BY NatLessThanWellFounded
<1>2. \A m, n \in Nat : m < n => <<m, n>> \in Less
  BY DEF OpToRel
<1> HIDE DEF Less
<1>3. PICK n \in B : \A m \in B : ~(<<m, n>> \in Less)
  BY <1>1, WFMin
<1>4. \A m \in B : ~(m < n)
  BY <1>2, <1>3
<1>5. QED
  BY <1>3, <1>4

LEMMA Climb ==
    ASSUME NEW G, NEW a \in Nat, NEW b \in Nat, a <= b => a \in G,
           \A n \in a..(b - 1) : n \in G => n + 1 \in G
    PROVE  \A n \in a..b : n \in G
<1> DEFINE Bad == {n \in a..b : n \notin G}
<1> SUFFICES ASSUME Bad # {} PROVE FALSE
  OBVIOUS
<1>1. Bad \in SUBSET Nat
  OBVIOUS
<1>2. PICK n \in Bad : \A m \in Bad : n <= m
  BY <1>1, Least
<1>3. n \in a..b /\ n \notin G
  OBVIOUS
<1>4. n # a /\ a \in Nat /\ b \in Nat /\ n \in Int
  BY <1>3
<1>5. n - 1 \in a..(b - 1) /\ n - 1 \in a..b /\ n - 1 < n /\ (n - 1) + 1 = n
  BY <1>3, <1>4
<1>6. n - 1 \in G
  BY <1>2, <1>5
<1>7. QED
  BY <1>3, <1>5, <1>6

LEMMA PartIs ==
    ASSUME NEW S, NEW s \in Seq(S), NEW m \in 1..Len(s), NEW n \in m..Len(s)
    PROVE  /\ SubSeq(s, m, n) \in Seq(S) /\ Len(SubSeq(s, m, n)) = n - m + 1
           /\ \A i \in 1..(n - m + 1) : SubSeq(s, m, n)[i] = s[m + i - 1]
<1>1. m \in Nat /\ n \in Nat /\ m >= 1 /\ n <= Len(s) /\ m <= n /\ Len(s) \in Nat
  OBVIOUS
<1>2. QED
  BY <1>1

LEMMA PrefixIs ==
    ASSUME NEW S, NEW s \in Seq(S), NEW n \in 1..Len(s)
    PROVE  /\ SubSeq(s, 1, n) \in Seq(S) /\ Len(SubSeq(s, 1, n)) = n
           /\ \A i \in 1..n : SubSeq(s, 1, n)[i] = s[i]
<1>1. n \in Nat /\ 1 \in 1..Len(s) /\ n \in 1..Len(s) /\ n - 1 + 1 = n
  OBVIOUS
<1>2. \A i \in 1..n : 1 + i - 1 = i
  OBVIOUS
<1>3. QED
  BY <1>1, <1>2, PartIs

-----------------------------------------------------------------------------
(* ---------------------------- the channel strategy --------------------------- *)

Shape == bars \in Seq(Shapes) \ {<<>>} /\ Len(bars) <= MaxCandles

\* Of moments that come before a given one, one is the last.
LEMMA Latest ==
    ASSUME NEW S, S # {}, NEW top \in Int, NEW at \in [S -> Int],
           \A x \in S : at[x] <= top
    PROVE  \E x \in S : \A y \in S : at[y] <= at[x]
<1> DEFINE B == {n \in Nat : \E x \in S : n = top - at[x]}
<1>1. \A x \in S : top - at[x] \in B
  OBVIOUS
<1>2. B # {} /\ B \in SUBSET Nat
  BY <1>1
<1>3. PICK n \in B : \A m \in B : n <= m
  <2> HIDE DEF B
  <2>1. QED
    BY <1>2, Least
<1>4. PICK x \in S : n = top - at[x]
  BY <1>3
<1>5. \A y \in S : top - at[x] <= top - at[y]
  BY <1>1, <1>3, <1>4
<1>6. QED
  BY <1>4, <1>5

-----------------------------------------------------------------------------
(* The channel that is found at a candle *)

\* Three confirmed pivots in order, at least gap candles apart.
Sound(c, current) ==
    /\ DOMAIN c = 1..3
    /\ \A k \in 1..3 : /\ c[k].at \in 1..(current - Channel4.lookback)
                        /\ c[k].kind \in {"high", "low"}
                        /\ c[k].price \in Int
    /\ c[1].at <= c[2].at - Channel4.gap
    /\ c[2].at <= c[3].at - Channel4.gap

PivotAt(p, last) ==
    /\ p.at \in Int /\ p.at >= 1 /\ p.at <= last
    /\ p.kind \in {"high", "low"} /\ p.price \in Int

LEMMA FirstIsFirst ==
    ASSUME ChannelAssumption, NEW i \in Int
    PROVE  First(i) \in Int /\ First(i) >= 1
<1> DEFINE S == {1, i + 1 - History}
<1>1. \E x \in S : \A y \in S : x >= y
  BY DEF ChannelAssumption
<1>2. Max(S) \in S /\ \A y \in S : Max(S) >= y
  BY <1>1 DEF Max
<1>3. QED
  BY <1>2 DEF First, ChannelAssumption

LEMMA BarsHavePrices ==
    ASSUME ChannelAssumption, Shape, NEW i \in 1..Len(bars)
    PROVE  bars[i].high \in Nat \ {0} /\ bars[i].low \in Nat \ {0} /\ bars[i].close \in Nat \ {0}
<1>1. bars \in Seq(Shapes) /\ Shapes \subseteq CandleBar
  BY DEF Shape, ChannelAssumption
<1>2. bars[i] \in CandleBar
  BY <1>1
<1>3. QED
  BY <1>2 DEF CandleBar, Price

LEMMA PivotsAreBars ==
    ASSUME ChannelAssumption, Shape, NEW current \in 1..Len(bars), NEW p,
           p \in Pivots(First(current), current - Channel4.lookback)
    PROVE  PivotAt(p, current - Channel4.lookback)
<1>1. \A i \in 1..Len(bars) : bars[i].high \in Int /\ bars[i].low \in Int
  BY BarsHavePrices
<1>2. Channel4.lookback \in Nat \ {0} /\ Len(bars) \in Nat
  BY DEF Shape, ChannelAssumption
<1>3. First(current) \in Int /\ First(current) >= 1
  BY FirstIsFirst
<1>4. PICK j \in (First(current) + Channel4.lookback)..(current - Channel4.lookback) :
        \/ p = [at |-> j, kind |-> "high", price |-> bars[j].high]
        \/ p = [at |-> j, kind |-> "low", price |-> bars[j].low]
  BY DEF Pivots
<1>5. j \in 1..Len(bars) /\ j <= current - Channel4.lookback
  BY <1>2, <1>3
<1>6. QED
  BY <1>1, <1>4, <1>5 DEF PivotAt

\* _previous_pivot answers nothing, or a pivot of that kind up to the limit.
LEMMA PreviousIsBefore ==
    ASSUME NEW last \in Int, NEW pivots, \A p \in pivots : PivotAt(p, last),
           NEW kind, NEW limit \in Int,
           NEW q, q = PreviousPivot(pivots, kind, limit), q # None
    PROVE  q \in pivots /\ q.kind = kind /\ q.at <= limit
<1> DEFINE before == {p \in pivots : p.kind = kind /\ p.at <= limit}
           at == [p \in before |-> p.at]
<1>1. before # {}
  BY DEF PreviousPivot
<1>2. at \in [before -> Int] /\ \A p \in before : at[p] <= limit
  BY DEF PivotAt
<1>3. \E p \in before : \A r \in before : at[r] <= at[p]
  <2> HIDE DEF before, at
  <2>1. QED
    BY <1>1, <1>2, Latest
<1>4. \E p \in before : \A r \in before : r.at <= p.at
  BY <1>3
<1>5. q = CHOOSE p \in before : \A r \in before : r.at <= p.at
  BY <1>1 DEF PreviousPivot
<1>6. q \in before
  <2> HIDE DEF before
  <2>1. QED
    BY <1>4, <1>5
<1>7. QED
  BY <1>6

LEMMA ChannelIsSound ==
    ASSUME ChannelAssumption, Shape, NEW current \in 1..Len(bars), NEW p,
           p \in Pivots(First(current), current - Channel4.lookback),
           NEW c, c # None,
           c = ChannelFrom(Pivots(First(current), current - Channel4.lookback), p)
    PROVE  Sound(c, current) /\ c[3] = p
<1> DEFINE pivots == Pivots(First(current), current - Channel4.lookback)
           last == current - Channel4.lookback
           other == IF p.kind = "high" THEN "low" ELSE "high"
           point2 == PreviousPivot(pivots, other, p.at - Channel4.gap)
           point1 == PreviousPivot(pivots, p.kind, point2.at - Channel4.gap)
<1>1. Channel4.gap \in Nat \ {0} /\ last \in Int
  BY DEF ChannelAssumption, Shape
<1>2. \A q \in pivots : PivotAt(q, last)
  BY PivotsAreBars
<1>3. PivotAt(p, last)
  BY <1>2
<1>4. c = WithPoint1(pivots, point2, p)
  BY DEF ChannelFrom
<1> HIDE DEF pivots, last
<1>5. point2 # None /\ c = Through(<<point1, point2, p>>)
  BY <1>4 DEF WithPoint1
<1>6. p.at - Channel4.gap \in Int
  BY <1>1, <1>3 DEF PivotAt
<1>7. point2 \in pivots /\ point2.at <= p.at - Channel4.gap
  <2> HIDE DEF other
  <2>1. QED
    BY <1>1, <1>2, <1>5, <1>6, PreviousIsBefore
<1>8. PivotAt(point2, last)
  BY <1>2, <1>7
<1> HIDE DEF point2
<1>9. point2.at - Channel4.gap \in Int
  BY <1>1, <1>8 DEF PivotAt
<1> HIDE DEF point1
<1>10. point1 # None /\ c = <<point1, point2, p>>
  BY <1>5 DEF Through
<1>11. point1 \in pivots /\ point1.at <= point2.at - Channel4.gap
  BY <1>1, <1>2, <1>9, <1>10, PreviousIsBefore DEF point1
<1>12. PivotAt(point1, last)
  BY <1>2, <1>11
<1>13. DOMAIN c = 1..3 /\ c[1] = point1 /\ c[2] = point2 /\ c[3] = p
  BY <1>10
<1>14. \A q : PivotAt(q, last) =>
         q.at \in 1..last /\ q.kind \in {"high", "low"} /\ q.price \in Int
  BY <1>1 DEF PivotAt
<1>15. QED
  BY <1>3, <1>7, <1>8, <1>11, <1>12, <1>13, <1>14 DEF Sound, last

\* What _find_channel returns is sound and not broken.
LEMMA FoundIsSound ==
    ASSUME ChannelAssumption, Shape, NEW current \in 1..Len(bars),
           NEW c, c = FindChannel(current), c # None
    PROVE  Sound(c, current) /\ ~IsBroken(c, current)
<1> DEFINE pivots == Pivots(First(current), current - Channel4.lookback)
           channels == OpenChannels(pivots, current)
           newest == {d \in channels : \A e \in channels : e[3].at <= d[3].at}
           low == {d \in newest : d[3].kind = "low"}
           at == [d \in channels |-> d[3].at]
<1>1. \A d \in channels : Sound(d, current) /\ ~IsBroken(d, current)
  <2> SUFFICES ASSUME NEW d \in channels PROVE Sound(d, current) /\ ~IsBroken(d, current)
    OBVIOUS
  <2>1. PICK p \in pivots : d = ChannelFrom(pivots, p)
    BY DEF OpenChannels
  <2>2. d # None /\ ~IsBroken(d, current)
    BY DEF OpenChannels
  <2>3. QED
    BY <2>1, <2>2, ChannelIsSound
<1>2. c = NewestOf(channels)
  BY DEF FindChannel
<1> HIDE DEF channels
<1>3. channels # {} /\ c = CHOOSE d \in newest : low # {} => d \in low
  BY <1>2 DEF NewestOf
<1>4. at \in [channels -> Int] /\ \A d \in channels : at[d] <= current
  <2>1. Channel4.lookback \in Nat
    BY DEF ChannelAssumption
  <2>2. \A d \in channels : d[3].at \in 1..(current - Channel4.lookback)
    BY <1>1 DEF Sound
  <2>3. QED
    BY <2>1, <2>2
<1>5. \E d \in channels : \A e \in channels : at[e] <= at[d]
  <2> HIDE DEF at
  <2>1. current \in Int
    BY DEF Shape
  <2>2. QED
    BY <1>3, <1>4, <2>1, Latest
<1>6. newest # {}
  BY <1>5
<1>7. c \in newest
  <2> HIDE DEF newest
  <2>1. low \subseteq newest
    OBVIOUS
  <2> HIDE DEF low
  <2>2. \E d \in newest : low # {} => d \in low
    BY <1>6, <2>1
  <2>3. QED
    BY <1>3, <2>2
<1>8. QED
  BY <1>1, <1>7

-----------------------------------------------------------------------------
(* The entry *)

\* A signal is about the channel found at its candle, which touches it first.
LEMMA SignalIsTouch ==
    ASSUME ChannelAssumption, Shape, NEW i \in 1..Len(bars), GenerateSignal(i) # None
    PROVE  LET c == GenerateSignal(i).channel
           IN  Sound(c, i) /\ ~IsBroken(c, i) /\ TouchAt(i, c)
<1> DEFINE c == FindChannel(i)
<1>1. SignalOf(i, c) # None /\ GenerateSignal(i) = SignalOf(i, c)
  BY DEF GenerateSignal
<1> HIDE DEF c
<1>2. c # None /\ TouchAt(i, c) /\ BuildSignal(i, c) # None /\ GenerateSignal(i) = BuildSignal(i, c)
  BY <1>1 DEF SignalOf
<1>3. BuildSignal(i, c).channel = c
  BY <1>2 DEF BuildSignal
<1>4. Sound(c, i) /\ ~IsBroken(c, i)
  BY <1>2, FoundIsSound DEF c
<1>5. QED
  BY <1>2, <1>3, <1>4

LEMMA Product ==
    ASSUME NEW a \in Int, NEW b \in Int
    PROVE  /\ a * b \in Int
           /\ a > 0 /\ b > 0 => a * b > 0
           /\ a <= 0 /\ b >= 0 => a * b <= 0
OBVIOUS

LEMMA Regroup ==
    ASSUME NEW a \in Int, NEW b \in Int
    PROVE  (a * b) * 1000 = a * (b * 1000)
OBVIOUS

LEMMA LinesAreWhole ==
    ASSUME ChannelAssumption, NEW current \in Int, NEW c, Sound(c, current), NEW i \in Int
    PROVE  /\ Span(c) \in Int /\ Span(c) > 0
           /\ Upper(c, i) \in Int /\ Lower(c, i) \in Int
<1>1. /\ c[1].at \in Int /\ c[2].at \in Int /\ c[3].at \in Int
      /\ c[1].price \in Int /\ c[2].price \in Int /\ c[3].price \in Int
  BY DEF Sound
<1>2. Channel4.gap \in Nat \ {0}
  BY DEF ChannelAssumption
<1>3. Span(c) \in Int /\ Span(c) > 0
  BY <1>1, <1>2 DEF Sound, Span
<1>4. \A j \in Int : AnchorAt(c, j) \in Int
  BY <1>1, <1>3 DEF AnchorAt
<1>5. c[2].price * Span(c) \in Int
  BY <1>1, <1>3
<1>6. Offset(c) \in Int
  BY <1>1, <1>4, <1>5 DEF Offset
<1>7. QED
  BY <1>3, <1>4, <1>6 DEF Upper, Lower

\* In a channel that is not broken, a candle that reaches the line touches it.
LEMMA ReachIsTouch ==
    ASSUME ChannelAssumption, Shape, NEW now \in 1..Len(bars), NEW c,
           Sound(c, now), ~IsBroken(c, now), NEW i \in c[1].at..now, Reaches(i, c)
    PROVE  TouchOf(i, c)
<1> DEFINE scale == Span(c) * 1000
<1>1. now \in Int /\ c[1].at \in Int /\ c[1].at >= 1 /\ i \in Int /\ i \in 1..Len(bars)
  BY DEF Shape, Sound
<1>2. bars[i].high \in Nat \ {0} /\ bars[i].low \in Nat \ {0} /\ bars[i].close \in Nat \ {0}
  BY <1>1, BarsHavePrices
<1>3. Span(c) \in Int /\ Span(c) > 0 /\ Upper(c, i) \in Int /\ Lower(c, i) \in Int
  BY <1>1, LinesAreWhole
<1>4. Channel4.tolerance \in Nat /\ Channel4.buffer \in Nat
  BY DEF ChannelAssumption
<1>5. scale \in Int /\ scale > 0
  BY <1>3
<1> DEFINE high == bars[i].high * scale
           low == bars[i].low * scale
           close == bars[i].close * scale
<1>6. bars[i].low * Span(c) * 1000 = low /\ bars[i].high * Span(c) * 1000 = high
      /\ bars[i].close * Span(c) * 1000 = close
  <2>1. \A a \in Int : a * Span(c) * 1000 = a * (Span(c) * 1000)
    BY <1>3, Regroup
  <2>2. bars[i].high \in Int /\ bars[i].low \in Int /\ bars[i].close \in Int
    BY <1>2
  <2>3. QED
    BY <2>1, <2>2
<1>7. ~(close > Upper(c, i) * (1000 + Channel4.buffer))
      /\ ~(close < Lower(c, i) * (1000 - Channel4.buffer))
  BY <1>6 DEF IsBroken
<1> HIDE DEF scale
<1>8. low \in Int /\ low > 0 /\ close \in Int /\ close > 0
  BY <1>2, <1>5, Product
<1>9. CASE Direction(c) = "LONG"
  <2>1. low <= Lower(c, i) * (1000 + Channel4.tolerance)
    BY <1>6, <1>9 DEF Reaches
  <2>2. Lower(c, i) > 0
    <3>1. SUFFICES ASSUME Lower(c, i) <= 0 PROVE FALSE
      BY <1>3
    <3>2. Lower(c, i) * (1000 + Channel4.tolerance) <= 0
      BY <1>3, <1>4, <3>1, Product
    <3>3. Lower(c, i) * (1000 + Channel4.tolerance) \in Int
      BY <1>3, <1>4
    <3>4. QED
      BY <1>8, <2>1, <3>2, <3>3
  <2>3. close \in Int /\ Lower(c, i) * (1000 - Channel4.buffer) \in Int
    BY <1>3, <1>4, <1>8
  <2>4. close >= Lower(c, i) * (1000 - Channel4.buffer)
    BY <1>7, <2>3
  <2>5. QED
    BY <1>9, <2>1, <2>2, <2>4 DEF TouchOf, scale
<1>10. CASE Direction(c) # "LONG"
  <2>1. high >= Upper(c, i) * (1000 - Channel4.tolerance)
    BY <1>6, <1>10 DEF Reaches
  <2>2. Upper(c, i) * (1000 + Channel4.buffer) \in Int
    BY <1>3, <1>4
  <2>3. close <= Upper(c, i) * (1000 + Channel4.buffer)
    BY <1>7, <1>8, <2>2
  <2>4. Upper(c, i) > 0
    <3>1. SUFFICES ASSUME Upper(c, i) <= 0 PROVE FALSE
      BY <1>3
    <3>2. Upper(c, i) * (1000 + Channel4.buffer) <= 0
      BY <1>3, <1>4, <3>1, Product
    <3>3. QED
      BY <1>8, <2>2, <2>3, <3>2
  <2>5. QED
    BY <1>10, <2>1, <2>3, <2>4 DEF TouchOf, scale
<1>11. QED
  BY <1>9, <1>10

LEMMA TouchReaches ==
    ASSUME ChannelAssumption, Shape, NEW c, NEW now \in 1..Len(bars), Sound(c, now), TouchOf(now, c)
    PROVE  Reaches(now, c)
<1>1. now \in Int /\ bars[now].high \in Int /\ bars[now].low \in Int
  BY BarsHavePrices DEF Shape
<1>2. Span(c) \in Int
  BY <1>1, LinesAreWhole
<1>3. bars[now].low * Span(c) * 1000 = bars[now].low * (Span(c) * 1000)
      /\ bars[now].high * Span(c) * 1000 = bars[now].high * (Span(c) * 1000)
  BY <1>1, <1>2, Regroup
<1>4. QED
  BY <1>3 DEF Reaches, TouchOf

LEMMA EntersOnce == ChannelAssumption /\ Shape => OneEntryPerChannel
<1> SUFFICES ASSUME ChannelAssumption, Shape,
                    NEW now, now = Len(bars), GenerateSignal(now) # None,
                    NEW c, c = GenerateSignal(now).channel
             PROVE  /\ \A i \in 1..(now - 1) :
                          GenerateSignal(i) # None => GenerateSignal(i).channel # c
                    /\ \A i \in (c[3].at + 1)..(now - 1) : ~Reaches(i, c)
                    /\ Reaches(now, c)
  BY DEF OneEntryPerChannel, Shape
<1>1. now \in 1..Len(bars) /\ now \in Nat
  BY DEF Shape
<1>2. Sound(c, now) /\ ~IsBroken(c, now) /\ TouchAt(now, c)
  BY <1>1, SignalIsTouch
<1>3. /\ c[1].at \in Nat /\ c[3].at \in Nat /\ c[1].at <= c[3].at
      /\ Channel4.lookback \in Nat \ {0}
  <2>1. Channel4.lookback \in Nat \ {0} /\ Channel4.gap \in Nat
    BY DEF ChannelAssumption
  <2>2. \A k \in 1..3 : c[k].at \in 1..(now - Channel4.lookback)
    BY <1>2 DEF Sound
  <2>3. c[1].at \in Nat /\ c[2].at \in Nat /\ c[3].at \in Nat
    BY <1>1, <2>1, <2>2
  <2>4. c[1].at <= c[2].at - Channel4.gap /\ c[2].at <= c[3].at - Channel4.gap
    BY <1>2 DEF Sound
  <2>5. QED
    BY <2>1, <2>3, <2>4
<1>4. \A i \in (c[3].at + 1)..(now - 1) : ~TouchOf(i, c)
  BY <1>2 DEF TouchAt
<1>5. ASSUME NEW i \in 1..(now - 1), GenerateSignal(i) # None, GenerateSignal(i).channel = c
      PROVE  FALSE
  <2>1. i \in 1..Len(bars) /\ i \in Int /\ i <= now - 1
    BY <1>1
  <2>2. Sound(c, i) /\ TouchAt(i, c)
    BY <1>5, <2>1, SignalIsTouch
  <2>3. c[3].at \in 1..(i - Channel4.lookback)
    BY <2>2 DEF Sound
  <2>4. c[3].at + 1 <= i
    BY <1>3, <2>1, <2>3
  <2>5. i \in (c[3].at + 1)..(now - 1)
    BY <1>1, <1>3, <2>1, <2>4
  <2>6. QED
    BY <1>4, <2>2, <2>5 DEF TouchAt
<1>6. ASSUME NEW i \in (c[3].at + 1)..(now - 1), Reaches(i, c)
      PROVE  FALSE
  <2>1. i \in c[1].at..now
    BY <1>1, <1>3
  <2>2. TouchOf(i, c)
    BY <1>1, <1>2, <1>6, <2>1, ReachIsTouch
  <2>3. QED
    BY <1>4, <2>2
<1>7. Reaches(now, c)
  BY <1>1, <1>2, TouchReaches DEF TouchAt
<1>8. QED
  BY <1>5, <1>6, <1>7

-----------------------------------------------------------------------------
LEMMA Invariance == ASSUME ChannelAssumption PROVE ChannelSpec => []Shape
<1>1. ChannelInit => Shape
  BY DEF ChannelInit, Shape, ChannelAssumption
<1>2. Shape /\ [ChannelNext]_bars => Shape'
  <2>1. CASE UNCHANGED bars
    BY <2>1 DEF Shape
  <2>2. ASSUME Shape, NEW bar \in Shapes, Candle(bar) PROVE Shape'
    <3>1. bars' = Append(bars, bar) /\ Len(bars) < MaxCandles /\ bars \in Seq(Shapes)
      BY <2>2 DEF Candle, Shape
    <3>2. bars' \in Seq(Shapes) /\ Len(bars') = Len(bars) + 1
      BY <3>1
    <3>3. bars' # <<>> /\ Len(bars') <= MaxCandles
      BY <3>1, <3>2 DEF ChannelAssumption
    <3>4. QED
      BY <3>2, <3>3 DEF Shape
  <2>3. QED
    BY <2>1, <2>2 DEF ChannelNext
<1>3. QED
  BY <1>1, <1>2, PTL DEF ChannelSpec

\* Whatever the candles, the window and the parameters: three points give one entry at most,
\* on the first candle after them that reaches the line opposite the last one.
THEOREM OneEntry == ASSUME ChannelAssumption PROVE ChannelSpec => []OneEntryPerChannel
<1>1. Shape => OneEntryPerChannel
  BY EntersOnce
<1>2. QED
  BY Invariance, <1>1, PTL

-----------------------------------------------------------------------------
(* -------------------------------- the research ------------------------------ *)

(* Columns: functions on 1..n, of which a shorter one may be the beginning of a longer one *)

IsColumn(f, n) == f = [i \in 1..n |-> f[i]]
Begins(f, g, n, m) ==
    /\ n \in Nat /\ m \in Nat /\ n <= m /\ IsColumn(f, n) /\ IsColumn(g, m)
    /\ \A i \in 1..n : f[i] = g[i]

LEMMA ColumnIs ==
    ASSUME NEW n \in Nat, NEW f, IsColumn(f, n)
    PROVE  Column(f) = f /\ Len(f) = n /\ DOMAIN f = 1..n
<1> DEFINE S == {f[i] : i \in 1..n}
<1>1. f \in [1..n -> S] /\ DOMAIN f = 1..n
  <2>1. \A i \in 1..n : f[i] \in S
    OBVIOUS
  <2> HIDE DEF S
  <2>2. QED
    BY <2>1 DEF IsColumn
<1> HIDE DEF S
<1>2. f \in Seq(S) /\ Len(f) = n
  BY <1>1
<1>3. SubSeq(f, 1, Len(f)) = f
  BY <1>2
<1>4. QED
  BY <1>1, <1>2, <1>3 DEF Column

LEMMA SumAgrees ==
    ASSUME NEW from \in Int, NEW to \in Int, NEW f, NEW g, \A i \in from..to : f[i] = g[i]
    PROVE  SumFrom(f, from, to) = SumFrom(g, from, to)
<1> DEFINE total(h) == CHOOSE t : t = [n \in (from - 1)..to |->
                                          IF n = from - 1 THEN 0 ELSE t[n - 1] + h[n]]
<1>1. ASSUME NEW t
      PROVE  [n \in (from - 1)..to |-> IF n = from - 1 THEN 0 ELSE t[n - 1] + f[n]]
              = [n \in (from - 1)..to |-> IF n = from - 1 THEN 0 ELSE t[n - 1] + g[n]]
  <2>1. \A n \in (from - 1)..to : n # from - 1 => n \in from..to
    OBVIOUS
  <2>2. QED
    BY <2>1
<1>2. total(f) = total(g)
  BY ONLY <1>1
<1>3. SumFrom(f, from, to) = total(f)[to] /\ SumFrom(g, from, to) = total(g)[to]
  BY DEF SumFrom
<1>4. QED
  BY <1>2, <1>3

LEMMA SumTyped ==
    ASSUME NEW from \in Int, NEW to \in Int, from - 1 <= to, NEW f, \A i \in from..to : f[i] \in Int
    PROVE  SumFrom(f, from, to) \in Int
<1> DEFINE k == to - from + 1
           TotalsTo(t, m) == t = [n \in (from - 1)..(from - 1 + m) |->
                                 IF n = from - 1 THEN 0 ELSE t[n - 1] + f[n]]
           G == {m \in 0..k : \E t : TotalsTo(t, m)}
           total == CHOOSE t : TotalsTo(t, k)
<1>1. k \in Nat /\ from - 1 + k = to
  OBVIOUS
<1>2. 0 \in G
  <2> DEFINE t == [n \in (from - 1)..(from - 1 + 0) |-> 0]
  <2>1. \A n \in (from - 1)..(from - 1 + 0) : n = from - 1
    OBVIOUS
  <2>2. TotalsTo(t, 0)
    BY <2>1
  <2> HIDE DEF t
  <2>3. \E u : TotalsTo(u, 0)
    BY <2>2
  <2>4. 0 \in 0..k
    BY <1>1
  <2> HIDE DEF TotalsTo, k
  <2>5. QED
    BY <2>3, <2>4
<1>3. ASSUME NEW m \in 0..(k - 1), m \in G PROVE m + 1 \in G
  <2>1. PICK t : TotalsTo(t, m)
    BY <1>3
  <2> DEFINE a == from - 1
             u == [n \in a..(a + (m + 1)) |-> IF n = a + (m + 1) THEN t[a + m] + f[n] ELSE t[n]]
  <2>2. m \in Nat /\ a \in Int /\ m + 1 \in 0..k
    BY <1>1
  <2>3. \A n \in a..(a + m) : u[n] = t[n] /\ n # a + (m + 1) /\ (n # a => n - 1 \in a..(a + m))
    BY <2>2
  <2>4. \A n \in a..(a + m) : t[n] = IF n = a THEN 0 ELSE t[n - 1] + f[n]
    BY <2>1
  <2>5. u[a + (m + 1)] = u[(a + (m + 1)) - 1] + f[a + (m + 1)]
    BY <2>2
  <2>6. \A n \in a..(a + (m + 1)) : n \in a..(a + m) \/ n = a + (m + 1)
    BY <2>2
  <2>7. u = [n \in a..(a + (m + 1)) |-> u[n]]
    OBVIOUS
  <2>8. a + (m + 1) # a
    BY <2>2
  <2> HIDE DEF u, a
  <2>9. \A n \in a..(a + (m + 1)) : u[n] = IF n = a THEN 0 ELSE u[n - 1] + f[n]
    BY <2>3, <2>4, <2>5, <2>6, <2>8
  <2>10. u = [n \in a..(a + (m + 1)) |-> IF n = a THEN 0 ELSE u[n - 1] + f[n]]
    BY <2>7, <2>9
  <2>11. TotalsTo(u, m + 1)
    BY <2>10 DEF a
  <2>12. QED
    BY <2>2, <2>11
<1>4. k \in G
  <2> HIDE DEF G
  <2>1. \A m \in 0..k : m \in G
    BY <1>1, <1>2, <1>3, Climb
  <2>2. QED
    BY <1>1, <2>1
<1>5. TotalsTo(total, k)
  BY <1>4
<1>6. SumFrom(f, from, to) = total[to]
  BY <1>1 DEF SumFrom
<1> HIDE DEF total
<1> DEFINE a == from - 1
           H == {m \in 0..k : total[a + m] \in Int}
<1>7. \A n \in a..to : total[n] = IF n = a THEN 0 ELSE total[n - 1] + f[n]
  BY <1>1, <1>5
<1>8. 0 \in H
  <2>1. a \in a..to /\ a + 0 = a
    OBVIOUS
  <2>2. QED
    BY <1>1, <1>7, <2>1
<1>9. ASSUME NEW m \in 0..(k - 1), m \in H PROVE m + 1 \in H
  <2>1. /\ a + (m + 1) \in a..to /\ a + (m + 1) # a /\ (a + (m + 1)) - 1 = a + m
        /\ a + (m + 1) \in from..to /\ m + 1 \in 0..k
    BY <1>1
  <2>2. total[a + (m + 1)] = total[a + m] + f[a + (m + 1)]
    BY <1>7, <2>1
  <2>3. total[a + m] \in Int /\ f[a + (m + 1)] \in Int
    BY <1>9, <2>1
  <2>4. QED
    BY <2>1, <2>2, <2>3
<1>10. k \in H
  <2> HIDE DEF H
  <2>1. \A m \in 0..k : m \in H
    BY <1>1, <1>8, <1>9, Climb
  <2>2. QED
    BY <1>1, <2>1
<1>11. QED
  BY <1>1, <1>6, <1>10

-----------------------------------------------------------------------------
(* What is carried along a column *)

Step(kind, values, period, first, x, i) ==
    IF i < first + period - 1 THEN None
    ELSE IF i = first + period - 1
    THEN Begun(kind, period, 100 * SumFrom(values, first, first + period - 1))
    ELSE Carried(kind, period, x, 100 * values[i])
SmoothedOf(f, kind, values, period, first, n) ==
    f = [i \in 1..n |-> Step(kind, values, period, first, f[i - 1], i)]

\* Whatever a step of it is: a column exists in which each value follows from the one before,
\* provided the first one needs none.
LEMMA SmoothedExists ==
    ASSUME NEW kind, NEW values, NEW period \in Nat \ {0}, NEW first \in Nat \ {0}, NEW n \in Nat
    PROVE  \E f : SmoothedOf(f, kind, values, period, first, n)
<1> DEFINE Of(f, m) == SmoothedOf(f, kind, values, period, first, m)
           S(x, i) == Step(kind, values, period, first, x, i)
           G == {m \in 0..n : \E f : Of(f, m)}
<1>1. 0 \in G
  <2> DEFINE f == [i \in 1..0 |-> 0]
  <2>1. 1..0 = {}
    OBVIOUS
  <2>2. Of(f, 0)
    BY <2>1 DEF SmoothedOf
  <2>3. QED
    BY <2>2
<1>2. \A x, y : S(x, 1) = S(y, 1)
  <2>1. 1 < first + period - 1 \/ 1 = first + period - 1
    OBVIOUS
  <2>2. QED
    BY <2>1 DEF Step
<1>3. ASSUME NEW m \in 0..(n - 1), m \in G PROVE m + 1 \in G
  <2>1. PICK f : Of(f, m)
    BY <1>3
  <2> DEFINE u == [i \in 1..(m + 1) |-> IF i = m + 1 THEN S(f[m], m + 1) ELSE f[i]]
  <2>2. m \in Nat /\ m + 1 \in 0..n /\ (m + 1) - 1 = m /\ m + 1 \in 1..(m + 1)
    OBVIOUS
  <2>3. \A i \in 1..m : u[i] = f[i] /\ i \in Int /\ (i # 1 => i - 1 \in 1..m)
    BY <2>2
  <2>4. u[m + 1] = S(f[m], m + 1)
    BY <2>2
  <2>5. u = [i \in 1..(m + 1) |-> u[i]]
    OBVIOUS
  <2>6. \A i \in 1..(m + 1) : i \in 1..m \/ i = m + 1
    BY <2>2
  <2>7. m = 0 \/ m \in 1..m
    BY <2>2
  <2> HIDE DEF u
  <2>8. \A i \in 1..m : f[i] = S(f[i - 1], i)
    BY <2>1 DEF SmoothedOf
  <2> HIDE DEF S, Of
  <2>9. \A i \in 1..m : u[i] = S(u[i - 1], i)
    <3> SUFFICES ASSUME NEW i \in 1..m PROVE u[i] = S(u[i - 1], i)
      OBVIOUS
    <3>1. CASE i = 1
      BY <1>2, <2>3, <2>8, <3>1
    <3>2. CASE i # 1
      <4>1. u[i - 1] = f[i - 1]
        BY <2>3, <3>2
      <4>2. QED
        BY <2>3, <2>8, <4>1
    <3>3. QED
      BY <3>1, <3>2
  <2>10. u[m + 1] = S(u[m], m + 1)
    <3>1. CASE m = 0
      BY <1>2, <2>4, <3>1
    <3>2. CASE m # 0
      BY <2>3, <2>4, <2>7, <3>2
    <3>3. QED
      BY <3>1, <3>2
  <2>11. \A i \in 1..(m + 1) : u[i] = S(u[i - 1], i)
    BY <2>2, <2>6, <2>9, <2>10
  <2>12. u = [i \in 1..(m + 1) |-> S(u[i - 1], i)]
    BY <2>5, <2>11
  <2>13. Of(u, m + 1)
    BY <2>12 DEF Of, S, SmoothedOf
  <2>14. QED
    BY <2>2, <2>13
<1>4. n \in G
  <2> HIDE DEF G
  <2>1. \A m \in 0..n : m \in G
    BY <1>1, <1>3, Climb
  <2>2. QED
    BY <2>1
<1>5. QED
  BY <1>4

LEMMA SmoothedIs ==
    ASSUME NEW kind, NEW n \in Nat, NEW values, DOMAIN values = 1..n,
           NEW period \in Nat \ {0}, NEW first \in Nat \ {0}
    PROVE  /\ SmoothedOf(Smoothed(kind, values, period, first), kind, values, period, first, n)
           /\ IsColumn(Smoothed(kind, values, period, first), n)
<1> DEFINE f == CHOOSE f : f = [i \in DOMAIN values |->
                    IF i < first + period - 1 THEN None
                    ELSE IF i = first + period - 1
                    THEN Begun(kind, period, 100 * SumFrom(values, first, first + period - 1))
                    ELSE Carried(kind, period, f[i - 1], 100 * values[i])]
<1>1. Smoothed(kind, values, period, first) = Column(f)
  BY DEF Smoothed
<1>2. f = CHOOSE g : SmoothedOf(g, kind, values, period, first, n)
  BY DEF SmoothedOf, Step
<1> HIDE DEF f
<1>3. SmoothedOf(f, kind, values, period, first, n)
  BY <1>2, SmoothedExists
<1>4. IsColumn(f, n)
  BY <1>3 DEF SmoothedOf, IsColumn
<1>5. Column(f) = f
  BY <1>4, ColumnIs
<1>6. QED
  BY <1>1, <1>3, <1>4, <1>5

LEMMA SmoothedBegins ==
    ASSUME NEW kind, NEW v, NEW w, NEW n, NEW m, Begins(v, w, n, m),
           NEW period \in Nat \ {0}, NEW first \in Nat \ {0}
    PROVE  Begins(Smoothed(kind, v, period, first), Smoothed(kind, w, period, first), n, m)
<1> DEFINE f == Smoothed(kind, v, period, first)
           g == Smoothed(kind, w, period, first)
           G == {i \in 1..n : f[i] = g[i]}
           begin == first + period - 1
<1>1. /\ n \in Nat /\ m \in Nat /\ n <= m /\ IsColumn(v, n) /\ IsColumn(w, m)
      /\ \A i \in 1..n : v[i] = w[i]
  BY DEF Begins
<1>2. DOMAIN v = 1..n /\ DOMAIN w = 1..m
  BY <1>1, ColumnIs
<1>3. /\ SmoothedOf(f, kind, v, period, first, n) /\ IsColumn(f, n)
      /\ SmoothedOf(g, kind, w, period, first, m) /\ IsColumn(g, m)
  BY <1>1, <1>2, SmoothedIs
<1> HIDE DEF f, g
<1>4. \A i \in 1..n : f[i] = Step(kind, v, period, first, f[i - 1], i)
  BY <1>3 DEF SmoothedOf
<1>5. \A i \in 1..m : g[i] = Step(kind, w, period, first, g[i - 1], i)
  BY <1>3 DEF SmoothedOf
<1>6. ASSUME NEW i \in 1..n, NEW x, NEW y, i # 1 => x = y
      PROVE  Step(kind, v, period, first, x, i) = Step(kind, w, period, first, y, i)
  <2>1. CASE i < begin
    BY <2>1 DEF Step
  <2>2. CASE i = begin
    <3>1. \A j \in first..begin : v[j] = w[j]
      BY <1>1, <2>2
    <3>2. SumFrom(v, first, begin) = SumFrom(w, first, begin)
      BY <3>1, SumAgrees
    <3>3. ~(i < begin)
      BY <2>2
    <3>4. QED
      BY <2>2, <3>2, <3>3 DEF Step
  <2>3. CASE i > begin
    <3>1. x = y /\ v[i] = w[i] /\ ~(i < begin) /\ i # begin
      BY <1>1, <1>6, <2>3
    <3>2. QED
      BY <3>1 DEF Step
  <2>4. QED
    BY <2>1, <2>2, <2>3
<1>7. \A i \in 1..n : i \in 1..m
  BY <1>1
<1>8. 1 <= n => 1 \in G
  <2> SUFFICES ASSUME 1 <= n PROVE 1 \in G
    OBVIOUS
  <2>1. 1 \in 1..n
    BY <1>1
  <2>2. QED
    BY <1>4, <1>5, <1>6, <1>7, <2>1
<1>9. ASSUME NEW i \in 1..(n - 1), i \in G PROVE i + 1 \in G
  <2>1. i + 1 \in 1..n /\ (i + 1) - 1 = i /\ f[i] = g[i]
    BY <1>1, <1>9
  <2>2. QED
    BY <1>4, <1>5, <1>6, <1>7, <2>1
<1> HIDE DEF G
<1>10. \A i \in 1..n : i \in G
  BY <1>1, <1>8, <1>9, Climb
<1>11. \A i \in 1..n : f[i] = g[i]
  BY <1>10 DEF G
<1>12. QED
  BY <1>1, <1>3, <1>11 DEF Begins, f, g

\* Averages of whole numbers are whole numbers.
LEMMA SmoothedTyped ==
    ASSUME NEW kind \in {"wilder", "ema", "sum"}, NEW n \in Nat, NEW values, DOMAIN values = 1..n,
           \A i \in 1..n : values[i] \in Int, NEW period \in Nat \ {0}, NEW first \in Nat \ {0}
    PROVE  \A i \in 1..n : Smoothed(kind, values, period, first)[i] \in Int \cup {None}
<1> DEFINE f == Smoothed(kind, values, period, first)
           begin == first + period - 1
           G == {i \in begin..n : f[i] \in Int}
<1>1. SmoothedOf(f, kind, values, period, first, n)
  BY SmoothedIs
<1> HIDE DEF f
<1>2. \A i \in 1..n : f[i] = Step(kind, values, period, first, f[i - 1], i)
  BY <1>1 DEF SmoothedOf
<1>3. \A x \in Int : x \div period \in Int /\ x \div (period + 1) \in Int
  OBVIOUS
<1>4. begin \in Nat \ {0}
  OBVIOUS
<1>5. begin <= n => begin \in G
  <2> SUFFICES ASSUME begin <= n PROVE begin \in G
    OBVIOUS
  <2>1. begin \in 1..n /\ first - 1 <= begin /\ \A i \in first..begin : i \in 1..n
    BY <1>4
  <2>2. SumFrom(values, first, begin) \in Int
    BY <1>4, <2>1, SumTyped
  <2>3. 100 * SumFrom(values, first, begin) \in Int
    BY <2>2
  <2>4. f[begin] = Begun(kind, period, 100 * SumFrom(values, first, begin))
    BY <1>2, <1>4, <2>1 DEF Step
  <2>5. f[begin] \in Int
    BY <1>3, <2>3, <2>4 DEF Begun
  <2>6. QED
    BY <1>4, <2>1, <2>5
<1>6. ASSUME NEW i \in begin..(n - 1), i \in G PROVE i + 1 \in G
  <2>1. /\ i + 1 \in 1..n /\ i + 1 \in begin..n /\ (i + 1) - 1 = i /\ f[i] \in Int
        /\ ~(i + 1 < begin) /\ i + 1 # begin
    BY <1>4, <1>6
  <2>2. f[i + 1] = Carried(kind, period, f[i], 100 * values[i + 1])
    BY <1>2, <2>1 DEF Step
  <2>3. 100 * values[i + 1] \in Int
    BY <2>1
  <2>4. PICK x \in Int, y \in Int : x = f[i] /\ y = 100 * values[i + 1]
    BY <2>1, <2>3
  <2>5. y - x \in Int /\ 2 * (y - x) \in Int
    OBVIOUS
  <2>6. Carried(kind, period, x, y) \in Int
    <3>1. PICK a \in Int : a = (y - x) \div period
      BY <1>3, <2>5
    <3>2. PICK b \in Int : b = (2 * (y - x)) \div (period + 1)
      BY <1>3, <2>5
    <3>3. PICK c \in Int : c = x \div period
      BY <1>3
    <3>4. x + a \in Int /\ x + b \in Int /\ x - c + y \in Int
      OBVIOUS
    <3>5. QED
      BY <3>1, <3>2, <3>3, <3>4 DEF Carried
  <2>7. QED
    BY <2>1, <2>2, <2>4, <2>6
<1>7. \A i \in begin..n : i \in G
  <2> HIDE DEF G, begin
  <2>1. QED
    BY <1>4, <1>5, <1>6, Climb
<1>8. \A i \in 1..n : i < begin \/ i \in begin..n
  BY <1>4
<1>9. \A i \in 1..n : i < begin => f[i] = None
  BY <1>2 DEF Step
<1>10. QED
  BY <1>7, <1>8, <1>9 DEF f

-----------------------------------------------------------------------------
(* Every indicator of a longer series begins with the one of a shorter *)

LEMMA BeginsFacts ==
    ASSUME NEW f, NEW g, NEW n, NEW m, Begins(f, g, n, m)
    PROVE  /\ n \in Nat /\ m \in Nat /\ n <= m
           /\ DOMAIN f = 1..n /\ DOMAIN g = 1..m /\ Len(f) = n /\ Len(g) = m
           /\ Column(f) = f /\ Column(g) = g
           /\ \A i \in 1..n : f[i] = g[i] /\ i \in Int /\ i \in 1..m
           /\ \A i \in 1..n : i # 1 => i - 1 \in 1..n
<1>1. /\ n \in Nat /\ m \in Nat /\ n <= m /\ IsColumn(f, n) /\ IsColumn(g, m)
      /\ \A i \in 1..n : f[i] = g[i]
  BY DEF Begins
<1>2. /\ DOMAIN f = 1..n /\ DOMAIN g = 1..m /\ Len(f) = n /\ Len(g) = m
      /\ Column(f) = f /\ Column(g) = g
  BY <1>1, ColumnIs
<1>3. \A i \in 1..n : i \in Int /\ i \in 1..m /\ (i # 1 => i - 1 \in 1..n)
  BY <1>1
<1>4. QED
  BY <1>1, <1>2, <1>3

LEMMA BeginColumns ==
    ASSUME NEW n \in Nat, NEW m \in Nat, n <= m, NEW f, NEW g, IsColumn(f, n), IsColumn(g, m),
           \A i \in 1..n : f[i] = g[i]
    PROVE  Begins(f, g, n, m)
BY DEF Begins

LEMMA PricesBegin ==
    ASSUME NEW p, NEW s, NEW n, NEW m, Begins(p, s, n, m)
    PROVE  /\ Begins(Highs(p), Highs(s), n, m) /\ Begins(Lows(p), Lows(s), n, m)
           /\ Begins(Closes(p), Closes(s), n, m)
<1>1. /\ n \in Nat /\ m \in Nat /\ n <= m /\ DOMAIN p = 1..n /\ DOMAIN s = 1..m
      /\ \A i \in 1..n : p[i] = s[i] /\ i \in 1..m
  BY BeginsFacts
<1>2. Begins(Highs(p), Highs(s), n, m)
  BY <1>1 DEF Highs, Begins, IsColumn
<1>3. Begins(Lows(p), Lows(s), n, m)
  BY <1>1 DEF Lows, Begins, IsColumn
<1>4. Begins(Closes(p), Closes(s), n, m)
  BY <1>1 DEF Closes, Begins, IsColumn
<1>5. QED
  BY <1>2, <1>3, <1>4

LEMMA TrueRangeBegins ==
    ASSUME NEW p, NEW s, NEW n, NEW m, Begins(p, s, n, m)
    PROVE  Begins(TrueRange(p), TrueRange(s), n, m)
<1>1. /\ n \in Nat /\ m \in Nat /\ n <= m /\ DOMAIN p = 1..n /\ DOMAIN s = 1..m
      /\ \A i \in 1..n : p[i] = s[i] /\ i \in 1..m /\ (i # 1 => i - 1 \in 1..n)
  BY BeginsFacts
<1> DEFINE R(b, i) == IF i = 1 THEN b[i].high - b[i].low
                      ELSE Max({b[i].high - b[i].low,
                                Apart(b[i].high, b[i - 1].close),
                                Apart(b[i].low, b[i - 1].close)})
<1>2. TrueRange(p) = [i \in 1..n |-> R(p, i)] /\ TrueRange(s) = [i \in 1..m |-> R(s, i)]
  BY <1>1 DEF TrueRange
<1>3. \A i \in 1..n : R(p, i) = R(s, i)
  <2> SUFFICES ASSUME NEW i \in 1..n PROVE R(p, i) = R(s, i)
    OBVIOUS
  <2>1. p[i] = s[i] /\ (i # 1 => p[i - 1] = s[i - 1])
    BY <1>1
  <2>2. QED
    BY <2>1
<1> HIDE DEF R
<1>4. QED
  BY <1>1, <1>2, <1>3 DEF Begins, IsColumn

LEMMA RollingBegin ==
    ASSUME NEW f, NEW g, NEW n, NEW m, Begins(f, g, n, m), NEW period \in Nat \ {0}
    PROVE  /\ Begins(Sma(f, period), Sma(g, period), n, m)
           /\ Begins(RollingMax(f, period), RollingMax(g, period), n, m)
           /\ Begins(RollingMin(f, period), RollingMin(g, period), n, m)
<1>1. /\ n \in Nat /\ m \in Nat /\ n <= m /\ DOMAIN f = 1..n /\ DOMAIN g = 1..m
      /\ \A i \in 1..n : f[i] = g[i] /\ i \in 1..m
  BY BeginsFacts
<1> DEFINE A(h, i) == IF i < period THEN None
                      ELSE (100 * SumFrom(h, i - period + 1, i)) \div period
           B(h, i) == IF i < period THEN None ELSE Max({h[j] : j \in (i - period + 1)..i})
           C(h, i) == IF i < period THEN None ELSE Min({h[j] : j \in (i - period + 1)..i})
<1>2. /\ Sma(f, period) = [i \in 1..n |-> A(f, i)] /\ Sma(g, period) = [i \in 1..m |-> A(g, i)]
      /\ RollingMax(f, period) = [i \in 1..n |-> B(f, i)]
      /\ RollingMax(g, period) = [i \in 1..m |-> B(g, i)]
      /\ RollingMin(f, period) = [i \in 1..n |-> C(f, i)]
      /\ RollingMin(g, period) = [i \in 1..m |-> C(g, i)]
  BY <1>1 DEF Sma, RollingMax, RollingMin
<1>3. ASSUME NEW i \in 1..n PROVE A(f, i) = A(g, i) /\ B(f, i) = B(g, i) /\ C(f, i) = C(g, i)
  <2>1. CASE i < period
    BY <2>1
  <2>2. CASE ~(i < period)
    <3>1. \A j \in (i - period + 1)..i : j \in 1..n
      BY <1>1, <2>2
    <3>2. \A j \in (i - period + 1)..i : f[j] = g[j]
      BY <1>1, <3>1
    <3>3. i \in Int /\ i - period + 1 \in Int
      BY <1>1
    <3>4. SumFrom(f, i - period + 1, i) = SumFrom(g, i - period + 1, i)
      BY <3>2, <3>3, SumAgrees
    <3>5. {f[j] : j \in (i - period + 1)..i} = {g[j] : j \in (i - period + 1)..i}
      BY <3>2
    <3>6. QED
      BY <3>4, <3>5
  <2>3. QED
    BY <2>1, <2>2
<1> HIDE DEF A, B, C
<1>4. Begins(Sma(f, period), Sma(g, period), n, m)
  <2>1. \A i \in 1..n : Sma(f, period)[i] = Sma(g, period)[i]
    BY <1>1, <1>2, <1>3
  <2>2. IsColumn(Sma(f, period), n) /\ IsColumn(Sma(g, period), m)
    BY <1>2 DEF IsColumn
  <2>3. QED
    BY <1>1, <2>1, <2>2, BeginColumns
<1>5. Begins(RollingMax(f, period), RollingMax(g, period), n, m)
  <2>1. \A i \in 1..n : RollingMax(f, period)[i] = RollingMax(g, period)[i]
    BY <1>1, <1>2, <1>3
  <2>2. IsColumn(RollingMax(f, period), n) /\ IsColumn(RollingMax(g, period), m)
    BY <1>2 DEF IsColumn
  <2>3. QED
    BY <1>1, <2>1, <2>2, BeginColumns
<1>6. Begins(RollingMin(f, period), RollingMin(g, period), n, m)
  <2>1. \A i \in 1..n : RollingMin(f, period)[i] = RollingMin(g, period)[i]
    BY <1>1, <1>2, <1>3
  <2>2. IsColumn(RollingMin(f, period), n) /\ IsColumn(RollingMin(g, period), m)
    BY <1>2 DEF IsColumn
  <2>3. QED
    BY <1>1, <2>1, <2>2, BeginColumns
<1>7. QED
  BY <1>4, <1>5, <1>6

LEMMA VarianceBegins ==
    ASSUME NEW f, NEW g, NEW n, NEW m, Begins(f, g, n, m), NEW period \in Nat \ {0},
           NEW first \in Nat, period <= first
    PROVE  Begins(Variance(f, period, first), Variance(g, period, first), n, m)
<1>1. /\ n \in Nat /\ m \in Nat /\ n <= m /\ DOMAIN f = 1..n /\ DOMAIN g = 1..m
      /\ \A i \in 1..n : f[i] = g[i] /\ i \in 1..m
  BY BeginsFacts
<1> DEFINE total(h, i) == SumFrom(h, i - period + 1, i)
           away(h, i) == [j \in (i - period + 1)..i |-> h[j] * period - total(h, i)]
           squares(h, i) == [j \in (i - period + 1)..i |-> away(h, i)[j] * away(h, i)[j]]
           V(h, i) == IF i < first THEN None ELSE SumFrom(squares(h, i), i - period + 1, i)
<1>2. /\ Variance(f, period, first) = [i \in 1..n |-> V(f, i)]
      /\ Variance(g, period, first) = [i \in 1..m |-> V(g, i)]
  BY <1>1 DEF Variance
<1>3. ASSUME NEW i \in 1..n PROVE V(f, i) = V(g, i)
  <2>1. CASE i < first
    BY <2>1
  <2>2. CASE ~(i < first)
    <3>1. \A j \in (i - period + 1)..i : j \in 1..n
      BY <1>1, <2>2
    <3>2. \A j \in (i - period + 1)..i : f[j] = g[j]
      BY <1>1, <3>1
    <3>3. i \in Int /\ i - period + 1 \in Int
      BY <1>1
    <3>4. total(f, i) = total(g, i)
      BY <3>2, <3>3, SumAgrees
    <3> HIDE DEF total
    <3>5. away(f, i) = away(g, i)
      BY <3>2, <3>4
    <3> HIDE DEF away
    <3>6. squares(f, i) = squares(g, i)
      BY <3>5
    <3> HIDE DEF squares
    <3>7. QED
      BY <3>6
  <2>3. QED
    BY <2>1, <2>2
<1> HIDE DEF V
<1>4. QED
  BY <1>1, <1>2, <1>3 DEF Begins, IsColumn

LEMMA ReturnsBegin ==
    ASSUME NEW f, NEW g, NEW n, NEW m, Begins(f, g, n, m)
    PROVE  Begins(Moves(f), Moves(g), n, m) /\ Begins(Returns(f), Returns(g), n, m)
<1>1. /\ n \in Nat /\ m \in Nat /\ n <= m /\ DOMAIN f = 1..n /\ DOMAIN g = 1..m
      /\ \A i \in 1..n : f[i] = g[i] /\ i \in 1..m /\ (i # 1 => i - 1 \in 1..n)
  BY BeginsFacts
<1>2. Begins(Moves(f), Moves(g), n, m)
  <2> DEFINE M(h, i) == IF i = 1 THEN 0 ELSE h[i] - h[i - 1]
  <2>1. Moves(f) = [i \in 1..n |-> M(f, i)] /\ Moves(g) = [i \in 1..m |-> M(g, i)]
    BY <1>1 DEF Moves
  <2>2. \A i \in 1..n : M(f, i) = M(g, i)
    BY <1>1
  <2> HIDE DEF M
  <2>3. QED
    BY <1>1, <2>1, <2>2 DEF Begins, IsColumn
<1>3. \A i \in 1..n : Moves(f)[i] = Moves(g)[i]
  BY <1>2 DEF Begins
<1>4. Begins(Returns(f), Returns(g), n, m)
  <2> DEFINE R(h, i) == IF i = 1 THEN 0
                        ELSE IF h[i - 1] = 0 THEN 0
                        ELSE (Moves(h)[i] * 10000) \div h[i - 1]
  <2>1. Returns(f) = [i \in 1..n |-> R(f, i)] /\ Returns(g) = [i \in 1..m |-> R(g, i)]
    BY <1>1 DEF Returns
  <2>2. ASSUME NEW i \in 1..n PROVE R(f, i) = R(g, i)
    <3>1. Moves(f)[i] = Moves(g)[i] /\ (i # 1 => f[i - 1] = g[i - 1])
      BY <1>1, <1>3
    <3>2. QED
      BY <3>1
  <2> HIDE DEF R
  <2>3. QED
    BY <1>1, <2>1, <2>2 DEF Begins, IsColumn
<1>5. QED
  BY <1>2, <1>4

LEMMA RsiBegins ==
    ASSUME NEW f, NEW g, NEW n, NEW m, Begins(f, g, n, m), NEW period \in Nat \ {0}
    PROVE  Begins(Rsi(f, period), Rsi(g, period), n, m)
<1>1. /\ n \in Nat /\ m \in Nat /\ n <= m /\ DOMAIN f = 1..n /\ DOMAIN g = 1..m
      /\ \A i \in 1..n : f[i] = g[i] /\ i \in 1..m
  BY BeginsFacts
<1> DEFINE gains(h) == [i \in DOMAIN h |-> Larger(Moves(h)[i], 0)]
           losses(h) == [i \in DOMAIN h |-> Larger(0 - Moves(h)[i], 0)]
           gained(h) == Smoothed("wilder", Column(gains(h)), period, 2)
           lost(h) == Smoothed("wilder", Column(losses(h)), period, 2)
           I(h, i) == IF i <= period THEN None
                      ELSE IF lost(h)[i] = 0 THEN 100
                      ELSE (100 * gained(h)[i]) \div (gained(h)[i] + lost(h)[i])
<1>2. \A i \in 1..n : Moves(f)[i] = Moves(g)[i]
  <2>1. Begins(Moves(f), Moves(g), n, m)
    BY ReturnsBegin
  <2>2. QED
    BY <2>1 DEF Begins
<1>3. Begins(gains(f), gains(g), n, m) /\ Begins(losses(f), losses(g), n, m)
  <2>1. \A i \in 1..n : gains(f)[i] = gains(g)[i] /\ losses(f)[i] = losses(g)[i]
    BY <1>1, <1>2
  <2>2. /\ IsColumn(gains(f), n) /\ IsColumn(gains(g), m)
        /\ IsColumn(losses(f), n) /\ IsColumn(losses(g), m)
    BY <1>1 DEF IsColumn
  <2>3. QED
    BY <1>1, <2>1, <2>2 DEF Begins
<1> HIDE DEF gains, losses
<1>4. Begins(gained(f), gained(g), n, m) /\ Begins(lost(f), lost(g), n, m)
  <2>1. /\ Column(gains(f)) = gains(f) /\ Column(gains(g)) = gains(g)
        /\ Column(losses(f)) = losses(f) /\ Column(losses(g)) = losses(g)
    BY <1>3, BeginsFacts
  <2>2. QED
    BY <1>3, <2>1, SmoothedBegins
<1> HIDE DEF gained, lost
<1>5. \A i \in 1..n : gained(f)[i] = gained(g)[i] /\ lost(f)[i] = lost(g)[i]
  BY <1>4 DEF Begins
<1>6. Rsi(f, period) = [i \in 1..n |-> I(f, i)] /\ Rsi(g, period) = [i \in 1..m |-> I(g, i)]
  BY <1>1 DEF Rsi, gained, lost, gains, losses
<1>7. \A i \in 1..n : I(f, i) = I(g, i)
  BY <1>5
<1> HIDE DEF I
<1>8. QED
  BY <1>1, <1>6, <1>7 DEF Begins, IsColumn

LEMMA DirectedBegins ==
    ASSUME NEW p, NEW s, NEW n, NEW m, Begins(p, s, n, m), NEW up \in BOOLEAN
    PROVE  Begins(Directed(p, up), Directed(s, up), n, m)
<1>1. /\ n \in Nat /\ m \in Nat /\ n <= m /\ DOMAIN p = 1..n /\ DOMAIN s = 1..m
      /\ \A i \in 1..n : p[i] = s[i] /\ i \in 1..m /\ (i # 1 => i - 1 \in 1..n)
  BY BeginsFacts
<1> DEFINE rise(b, i) == b[i].high - b[i - 1].high
           fall(b, i) == b[i - 1].low - b[i].low
           this(b, i) == IF up THEN rise(b, i) ELSE fall(b, i)
           that(b, i) == IF up THEN fall(b, i) ELSE rise(b, i)
           D(b, i) == IF i = 1 THEN 0
                      ELSE IF this(b, i) > that(b, i) /\ this(b, i) > 0 THEN this(b, i) ELSE 0
<1>2. /\ Directed(p, up) = [i \in 1..n |-> D(p, i)]
      /\ Directed(s, up) = [i \in 1..m |-> D(s, i)]
  BY <1>1 DEF Directed
<1>3. ASSUME NEW i \in 1..n PROVE D(p, i) = D(s, i)
  <2>1. p[i] = s[i] /\ (i # 1 => p[i - 1] = s[i - 1])
    BY <1>1
  <2>2. QED
    BY <2>1
<1> HIDE DEF D
<1>4. QED
  BY <1>1, <1>2, <1>3 DEF Begins, IsColumn

LEMMA IndexesBegin ==
    ASSUME NEW a, NEW b, NEW c, NEW d, NEW n, NEW m, Begins(a, b, n, m), Begins(c, d, n, m)
    PROVE  Begins(Indexes(a, c), Indexes(b, d), n, m)
<1>1. /\ n \in Nat /\ m \in Nat /\ n <= m /\ DOMAIN a = 1..n /\ DOMAIN b = 1..m
      /\ \A i \in 1..n : a[i] = b[i] /\ c[i] = d[i] /\ i \in 1..m
  BY BeginsFacts
<1> DEFINE I(x, y, i) == IF x[i] = None THEN None
                         ELSE IF x[i] + y[i] = 0 THEN 0
                         ELSE (10000 * Apart(x[i], y[i])) \div (x[i] + y[i])
<1>2. Indexes(a, c) = [i \in 1..n |-> I(a, c, i)] /\ Indexes(b, d) = [i \in 1..m |-> I(b, d, i)]
  BY <1>1 DEF Indexes
<1>3. \A i \in 1..n : I(a, c, i) = I(b, d, i)
  BY <1>1
<1> HIDE DEF I
<1>4. \A i \in 1..n : Indexes(a, c)[i] = Indexes(b, d)[i]
  BY <1>1, <1>2, <1>3
<1>5. IsColumn(Indexes(a, c), n) /\ IsColumn(Indexes(b, d), m)
  BY <1>2 DEF IsColumn
<1>6. QED
  BY <1>1, <1>4, <1>5, BeginColumns

CountedTo(r, period, i) == {j \in (period + 2)..i : r[j] > 0}
SumTo(r, x, period, i) ==
    SumFrom([j \in (period + 2)..i |-> IF r[j] > 0 THEN x[j] ELSE 0], period + 2, i)
StepOn(r, x, period, before, i) ==
    IF i < period + 2 THEN None
    ELSE IF r[i] <= 0 \/ Cardinality(CountedTo(r, period, i)) < period THEN None
    ELSE IF Cardinality(CountedTo(r, period, i)) = period THEN SumTo(r, x, period, i) \div period
    ELSE IF before = None THEN None ELSE Carried("wilder", period, before, x[i])
AveragedOf(f, r, x, period, n) == f = [i \in 1..n |-> StepOn(r, x, period, f[i - 1], i)]

LEMMA AveragedExists ==
    ASSUME NEW r, NEW x, NEW period \in Nat \ {0}, NEW n \in Nat
    PROVE  \E f : AveragedOf(f, r, x, period, n)
<1> DEFINE Of(f, k) == AveragedOf(f, r, x, period, k)
           S(y, i) == StepOn(r, x, period, y, i)
           G == {k \in 0..n : \E f : Of(f, k)}
<1>1. 0 \in G
  <2> DEFINE f == [i \in 1..0 |-> 0]
  <2>1. 1..0 = {}
    OBVIOUS
  <2>2. Of(f, 0)
    BY <2>1 DEF AveragedOf
  <2>3. QED
    BY <2>2
<1>2. \A y, z : S(y, 1) = S(z, 1)
  <2>1. 1 < period + 2
    OBVIOUS
  <2>2. QED
    BY <2>1 DEF StepOn
<1>3. ASSUME NEW k \in 0..(n - 1), k \in G PROVE k + 1 \in G
  <2>1. PICK f : Of(f, k)
    BY <1>3
  <2> DEFINE u == [i \in 1..(k + 1) |-> IF i = k + 1 THEN S(f[k], k + 1) ELSE f[i]]
  <2>2. k \in Nat /\ k + 1 \in 0..n /\ (k + 1) - 1 = k /\ k + 1 \in 1..(k + 1)
    OBVIOUS
  <2>3. \A i \in 1..k : u[i] = f[i] /\ i \in Int /\ (i # 1 => i - 1 \in 1..k)
    BY <2>2
  <2>4. u[k + 1] = S(f[k], k + 1)
    BY <2>2
  <2>5. u = [i \in 1..(k + 1) |-> u[i]]
    OBVIOUS
  <2>6. \A i \in 1..(k + 1) : i \in 1..k \/ i = k + 1
    BY <2>2
  <2>7. k = 0 \/ k \in 1..k
    BY <2>2
  <2> HIDE DEF u
  <2>8. \A i \in 1..k : f[i] = S(f[i - 1], i)
    BY <2>1 DEF AveragedOf
  <2> HIDE DEF S, Of
  <2>9. \A i \in 1..k : u[i] = S(u[i - 1], i)
    <3> SUFFICES ASSUME NEW i \in 1..k PROVE u[i] = S(u[i - 1], i)
      OBVIOUS
    <3>1. CASE i = 1
      BY <1>2, <2>3, <2>8, <3>1
    <3>2. CASE i # 1
      <4>1. u[i - 1] = f[i - 1]
        BY <2>3, <3>2
      <4>2. QED
        BY <2>3, <2>8, <4>1
    <3>3. QED
      BY <3>1, <3>2
  <2>10. u[k + 1] = S(u[k], k + 1)
    <3>1. CASE k = 0
      BY <1>2, <2>4, <3>1
    <3>2. CASE k # 0
      BY <2>3, <2>4, <2>7, <3>2
    <3>3. QED
      BY <3>1, <3>2
  <2>11. \A i \in 1..(k + 1) : u[i] = S(u[i - 1], i)
    BY <2>2, <2>6, <2>9, <2>10
  <2>12. u = [i \in 1..(k + 1) |-> S(u[i - 1], i)]
    BY <2>5, <2>11
  <2>13. Of(u, k + 1)
    BY <2>12 DEF Of, S, AveragedOf
  <2>14. QED
    BY <2>2, <2>13
<1>4. n \in G
  <2> HIDE DEF G
  <2>1. \A k \in 0..n : k \in G
    BY <1>1, <1>3, Climb
  <2>2. QED
    BY <2>1
<1>5. QED
  BY <1>4

LEMMA AveragedIs ==
    ASSUME NEW n \in Nat, NEW r, DOMAIN r = 1..n, NEW x, NEW period \in Nat \ {0}
    PROVE  /\ AveragedOf(AveragedIndex(r, x, period), r, x, period, n)
           /\ IsColumn(AveragedIndex(r, x, period), n)
<1> DEFINE f == CHOOSE f : f = [i \in DOMAIN r |->
                    IF i < period + 2 THEN None
                    ELSE IF r[i] <= 0 \/ Cardinality(CountedTo(r, period, i)) < period THEN None
                    ELSE IF Cardinality(CountedTo(r, period, i)) = period
                    THEN SumTo(r, x, period, i) \div period
                    ELSE IF f[i - 1] = None THEN None
                    ELSE Carried("wilder", period, f[i - 1], x[i])]
<1>1. AveragedIndex(r, x, period) = Column(f)
  BY DEF AveragedIndex, CountedTo, SumTo
<1>2. f = CHOOSE g : AveragedOf(g, r, x, period, n)
  BY DEF AveragedOf, StepOn
<1> HIDE DEF f
<1>3. AveragedOf(f, r, x, period, n)
  BY <1>2, AveragedExists
<1>4. IsColumn(f, n)
  BY <1>3 DEF AveragedOf, IsColumn
<1>5. Column(f) = f
  BY <1>4, ColumnIs
<1>6. QED
  BY <1>1, <1>3, <1>4, <1>5

LEMMA AveragedBegins ==
    ASSUME NEW r, NEW t, NEW x, NEW y, NEW n, NEW m, Begins(r, t, n, m), Begins(x, y, n, m),
           NEW period \in Nat \ {0}
    PROVE  Begins(AveragedIndex(r, x, period), AveragedIndex(t, y, period), n, m)
<1> DEFINE f == AveragedIndex(r, x, period)
           g == AveragedIndex(t, y, period)
           G == {i \in 1..n : f[i] = g[i]}
<1>1. /\ n \in Nat /\ m \in Nat /\ n <= m /\ DOMAIN r = 1..n /\ DOMAIN t = 1..m
      /\ \A i \in 1..n : r[i] = t[i] /\ x[i] = y[i] /\ i \in Int /\ i \in 1..m
  BY BeginsFacts
<1>2. /\ AveragedOf(f, r, x, period, n) /\ IsColumn(f, n)
      /\ AveragedOf(g, t, y, period, m) /\ IsColumn(g, m)
  BY <1>1, AveragedIs
<1> HIDE DEF f, g
<1>3. \A i \in 1..n : f[i] = StepOn(r, x, period, f[i - 1], i)
  BY <1>2 DEF AveragedOf
<1>4. \A i \in 1..m : g[i] = StepOn(t, y, period, g[i - 1], i)
  BY <1>2 DEF AveragedOf
<1>5. ASSUME NEW i \in 1..n, NEW a, NEW b, i # 1 => a = b
      PROVE  StepOn(r, x, period, a, i) = StepOn(t, y, period, b, i)
  <2>1. CASE i < period + 2
    BY <2>1 DEF StepOn
  <2>2. CASE ~(i < period + 2)
    <3>1. \A j \in (period + 2)..i : j \in 1..n
      BY <1>1
    <3>2. \A j \in (period + 2)..i : r[j] = t[j] /\ x[j] = y[j]
      BY <1>1, <3>1
    <3>3. CountedTo(r, period, i) = CountedTo(t, period, i)
      BY <3>2 DEF CountedTo
    <3>4. SumTo(r, x, period, i) = SumTo(t, y, period, i)
      <4>1. [j \in (period + 2)..i |-> IF r[j] > 0 THEN x[j] ELSE 0]
             = [j \in (period + 2)..i |-> IF t[j] > 0 THEN y[j] ELSE 0]
        BY <3>2
      <4>2. QED
        BY <4>1 DEF SumTo
    <3>5. i # 1 /\ r[i] = t[i] /\ x[i] = y[i]
      BY <1>1, <2>2
    <3>6. a = b
      BY <1>5, <3>5
    <3>7. QED
      BY <2>2, <3>3, <3>4, <3>5, <3>6 DEF StepOn
  <2>3. QED
    BY <2>1, <2>2
<1>6. \A i \in 1..n : i \in 1..m
  BY <1>1
<1>7. 1 <= n => 1 \in G
  <2> SUFFICES ASSUME 1 <= n PROVE 1 \in G
    OBVIOUS
  <2>1. 1 \in 1..n
    BY <1>1
  <2>2. QED
    BY <1>3, <1>4, <1>5, <1>6, <2>1
<1>8. ASSUME NEW i \in 1..(n - 1), i \in G PROVE i + 1 \in G
  <2>1. i + 1 \in 1..n /\ (i + 1) - 1 = i /\ f[i] = g[i]
    BY <1>1, <1>8
  <2>2. QED
    BY <1>3, <1>4, <1>5, <1>6, <2>1
<1> HIDE DEF G
<1>9. \A i \in 1..n : i \in G
  BY <1>1, <1>7, <1>8, Climb
<1>10. \A i \in 1..n : f[i] = g[i]
  BY <1>9 DEF G
<1>11. QED
  BY <1>1, <1>2, <1>10 DEF Begins, f, g

LEMMA AdxBegins ==
    ASSUME NEW p, NEW s, NEW n, NEW m, Begins(p, s, n, m), NEW period \in Nat \ {0}
    PROVE  Begins(Adx(p, period), Adx(s, period), n, m)
<1> DEFINE ranges(b) == Smoothed("sum", Column(TrueRange(b)), period, 2)
           plus(b) == Smoothed("sum", Column(Directed(b, TRUE)), period, 2)
           minus(b) == Smoothed("sum", Column(Directed(b, FALSE)), period, 2)
<1>1. /\ Begins(TrueRange(p), TrueRange(s), n, m)
      /\ Begins(Directed(p, TRUE), Directed(s, TRUE), n, m)
      /\ Begins(Directed(p, FALSE), Directed(s, FALSE), n, m)
  BY TrueRangeBegins, DirectedBegins
<1>2. /\ Column(TrueRange(p)) = TrueRange(p) /\ Column(TrueRange(s)) = TrueRange(s)
      /\ Column(Directed(p, TRUE)) = Directed(p, TRUE)
      /\ Column(Directed(s, TRUE)) = Directed(s, TRUE)
      /\ Column(Directed(p, FALSE)) = Directed(p, FALSE)
      /\ Column(Directed(s, FALSE)) = Directed(s, FALSE)
  BY <1>1, BeginsFacts
<1>3. /\ Begins(ranges(p), ranges(s), n, m) /\ Begins(plus(p), plus(s), n, m)
      /\ Begins(minus(p), minus(s), n, m)
  <2>1. 2 \in Nat \ {0}
    OBVIOUS
  <2>2. Begins(ranges(p), ranges(s), n, m)
    BY <1>1, <1>2, <2>1, SmoothedBegins
  <2>3. Begins(plus(p), plus(s), n, m)
    BY <1>1, <1>2, <2>1, SmoothedBegins
  <2>4. Begins(minus(p), minus(s), n, m)
    BY <1>1, <1>2, <2>1, SmoothedBegins
  <2>5. QED
    BY <2>2, <2>3, <2>4
<1>4. Adx(p, period) = AveragedIndex(ranges(p), Column(Indexes(plus(p), minus(p))), period)
  BY DEF Adx
<1>5. Adx(s, period) = AveragedIndex(ranges(s), Column(Indexes(plus(s), minus(s))), period)
  BY DEF Adx
<1> HIDE DEF ranges, plus, minus
<1>6. Begins(Indexes(plus(p), minus(p)), Indexes(plus(s), minus(s)), n, m)
  BY <1>3, IndexesBegin
<1>7. /\ Column(Indexes(plus(p), minus(p))) = Indexes(plus(p), minus(p))
      /\ Column(Indexes(plus(s), minus(s))) = Indexes(plus(s), minus(s))
  BY <1>6, BeginsFacts
<1>8. QED
  BY <1>3, <1>4, <1>5, <1>6, <1>7, AveragedBegins

-----------------------------------------------------------------------------
(* The columns of a strategy, and its decision *)

ColumnNames == {"highs", "lows", "atr", "fast", "slow", "rsi", "adx", "vol", "mean", "sd"}

LEMMA ColumnBegins ==
    ASSUME NEW p \in Plans, NEW q, NEW s, NEW n, NEW m, Begins(q, s, n, m),
           NEW name \in ColumnNames, ResearchAssumption
    PROVE  Begins(ColumnOf(name, p, q), ColumnOf(name, p, s), n, m)
<1>1. {p.lookback, p.atr, p.fast, p.slow, p.rsi, p.mean} \subseteq Nat \ {0}
  BY DEF ResearchAssumption
<1>2. /\ Begins(Highs(q), Highs(s), n, m) /\ Begins(Lows(q), Lows(s), n, m)
      /\ Begins(Closes(q), Closes(s), n, m) /\ Begins(TrueRange(q), TrueRange(s), n, m)
  BY PricesBegin, TrueRangeBegins
<1>3. /\ Column(TrueRange(q)) = TrueRange(q) /\ Column(TrueRange(s)) = TrueRange(s)
  BY <1>2, BeginsFacts
<1>4. CASE name = "highs"
  <2>1. Begins(RollingMax(Highs(q), p.lookback), RollingMax(Highs(s), p.lookback), n, m)
    BY <1>1, <1>2, RollingBegin
  <2>2. QED
    BY <1>4, <2>1 DEF ColumnOf
<1>5. CASE name = "lows"
  <2>1. Begins(RollingMin(Lows(q), p.lookback), RollingMin(Lows(s), p.lookback), n, m)
    BY <1>1, <1>2, RollingBegin
  <2>2. QED
    BY <1>5, <2>1 DEF ColumnOf
<1>6. CASE name = "atr"
  <2>1. Begins(Atr(q, p.atr), Atr(s, p.atr), n, m)
    BY <1>1, <1>2, <1>3, SmoothedBegins DEF Atr
  <2>2. QED
    BY <1>6, <2>1 DEF ColumnOf
<1>7. CASE name = "fast"
  <2>1. Begins(Ema(Closes(q), p.fast), Ema(Closes(s), p.fast), n, m)
    BY <1>1, <1>2, SmoothedBegins DEF Ema
  <2>2. QED
    BY <1>7, <2>1 DEF ColumnOf
<1>8. CASE name = "slow"
  <2>1. Begins(Ema(Closes(q), p.slow), Ema(Closes(s), p.slow), n, m)
    BY <1>1, <1>2, SmoothedBegins DEF Ema
  <2>2. QED
    BY <1>8, <2>1 DEF ColumnOf
<1>9. CASE name = "rsi"
  <2>1. Begins(Rsi(Closes(q), p.rsi), Rsi(Closes(s), p.rsi), n, m)
    BY <1>1, <1>2, RsiBegins
  <2>2. QED
    BY <1>9, <2>1 DEF ColumnOf
<1>10. CASE name = "adx"
  <2>1. Begins(Adx(q, p.rsi), Adx(s, p.rsi), n, m)
    BY <1>1, AdxBegins
  <2>2. QED
    BY <1>10, <2>1 DEF ColumnOf
<1>11. CASE name = "vol"
  <2>1. Begins(Returns(Closes(q)), Returns(Closes(s)), n, m)
    BY <1>2, ReturnsBegin
  <2>2. Column(Returns(Closes(q))) = Returns(Closes(q))
        /\ Column(Returns(Closes(s))) = Returns(Closes(s))
    BY <2>1, BeginsFacts
  <2>3. p.rsi \in Nat \ {0} /\ p.rsi + 1 \in Nat /\ p.rsi <= p.rsi + 1
    BY <1>1
  <2>4. Begins(RealisedVolatility(Closes(q), p.rsi), RealisedVolatility(Closes(s), p.rsi), n, m)
    BY <2>1, <2>2, <2>3, VarianceBegins DEF RealisedVolatility
  <2>5. QED
    BY <1>11, <2>4 DEF ColumnOf
<1>12. CASE name = "mean"
  <2>1. Begins(Sma(Closes(q), p.mean), Sma(Closes(s), p.mean), n, m)
    BY <1>1, <1>2, RollingBegin
  <2>2. QED
    BY <1>12, <2>1 DEF ColumnOf
<1>13. CASE name = "sd"
  <2>1. p.mean \in Nat \ {0} /\ p.mean \in Nat /\ p.mean <= p.mean
    BY <1>1
  <2>2. Begins(RollingSd(Closes(q), p.mean), RollingSd(Closes(s), p.mean), n, m)
    BY <1>2, <2>1, VarianceBegins DEF RollingSd
  <2>3. QED
    BY <1>13, <2>2 DEF ColumnOf
<1>14. QED
  BY <1>4, <1>5, <1>6, <1>7, <1>8, <1>9, <1>10, <1>11, <1>12, <1>13 DEF ColumnNames

LEMMA UsesColumns ==
    ASSUME NEW p \in Plans, ResearchAssumption
    PROVE  Uses(p) \subseteq ColumnNames /\ "atr" \in Uses(p)
<1>1. p.strategy \in {"donchian_breakout", "trend_pullback", "range_reversion",
                      "volatility_breakout", "mean_reversion_z"}
  BY DEF ResearchAssumption
<1>2. CASE p.strategy = "donchian_breakout"
  BY <1>2 DEF Uses, ColumnNames
<1>3. CASE p.strategy = "trend_pullback"
  BY <1>3 DEF Uses, ColumnNames
<1>4. CASE p.strategy = "range_reversion"
  BY <1>4 DEF Uses, ColumnNames
<1>5. CASE p.strategy = "volatility_breakout"
  BY <1>5 DEF Uses, ColumnNames
<1>6. CASE p.strategy = "mean_reversion_z"
  BY <1>6 DEF Uses, ColumnNames
<1>7. QED
  BY <1>1, <1>2, <1>3, <1>4, <1>5, <1>6

\* The prepared columns of a longer series say the same of the bars of the shorter.
LEMMA PreparedAgree ==
    ASSUME NEW p \in Plans, NEW q, NEW s, NEW n, NEW m, Begins(q, s, n, m), ResearchAssumption
    PROVE  \A name \in Uses(p), i \in 1..n : Prepare(p, q)[name][i] = Prepare(p, s)[name][i]
<1> SUFFICES ASSUME NEW name \in Uses(p), NEW i \in 1..n
             PROVE  Prepare(p, q)[name][i] = Prepare(p, s)[name][i]
  OBVIOUS
<1>1. Begins(ColumnOf(name, p, q), ColumnOf(name, p, s), n, m)
  BY UsesColumns, ColumnBegins
<1>2. /\ Prepare(p, q)[name] = Column(ColumnOf(name, p, q))
      /\ Prepare(p, s)[name] = Column(ColumnOf(name, p, s))
  BY DEF Prepare
<1>3. QED
  BY <1>1, <1>2, BeginsFacts

LEMMA DonchianSame ==
    ASSUME NEW p, p.minAdx \in Nat, p.minVol \in Nat, p.maxVol \in Nat,
           p.strategy = "donchian_breakout", NEW close, NEW c, NEW d, NEW i,
           \A name \in Uses(p) : c[name][i] = d[name][i] /\ c[name][i - 1] = d[name][i - 1]
    PROVE  DonchianBreakout(p, close, c, i) = DonchianBreakout(p, close, d, i)
<1>1. /\ {"highs", "lows", "atr"} \subseteq Uses(p)
      /\ p.trend => "slow" \in Uses(p)
      /\ p.minAdx > 0 => "adx" \in Uses(p)
      /\ p.minVol + p.maxVol > 0 => "vol" \in Uses(p)
  BY DEF Uses
<1>2. /\ c.highs[i - 1] = d.highs[i - 1] /\ c.lows[i - 1] = d.lows[i - 1]
      /\ c.atr[i] = d.atr[i]
      /\ p.trend => c.slow[i] = d.slow[i]
      /\ p.minAdx > 0 => c.adx[i] = d.adx[i]
      /\ p.minVol + p.maxVol > 0 => c.vol[i] = d.vol[i]
  BY <1>1
<1> DEFINE strong(x) == p.minAdx > 0 => x.adx[i] # None /\ x.adx[i] >= p.minAdx
           lively(x) == p.minVol + p.maxVol > 0 =>
                     /\ x.vol[i] # None /\ x.vol[i] >= p.minVol
                     /\ p.maxVol > 0 => x.vol[i] <= p.maxVol
           unknown(x) == p.trend /\ x.slow[i] = None
           up(x) == close > x.highs[i - 1] /\ (p.trend => close * 100 > x.slow[i])
           down(x) == close < x.lows[i - 1] /\ (p.trend => close * 100 < x.slow[i])
<1>3. /\ strong(c) <=> strong(d)
      /\ lively(c) <=> lively(d)
      /\ unknown(c) <=> unknown(d)
      /\ up(c) = up(d) /\ down(c) = down(d)
  BY <1>2
<1>4. ASSUME NEW x
      PROVE  DonchianBreakout(p, close, x, i) =
                IF x.highs[i - 1] = None \/ ~strong(x) \/ ~lively(x) \/ unknown(x) THEN None
                ELSE Either(p, close, x.atr[i], up(x), down(x))
  BY DEF DonchianBreakout
<1> HIDE DEF strong, lively, unknown, up, down
<1>5. QED
  BY <1>2, <1>3, <1>4

LEMMA TrendSame ==
    ASSUME NEW p, p.strategy = "trend_pullback", NEW close, NEW c, NEW d, NEW i,
           \A name \in Uses(p) : c[name][i] = d[name][i]
    PROVE  TrendPullback(p, close, c, i) = TrendPullback(p, close, d, i)
<1>1. {"fast", "slow", "rsi", "atr"} \subseteq Uses(p)
  BY DEF Uses
<1>2. c.fast[i] = d.fast[i] /\ c.slow[i] = d.slow[i] /\ c.rsi[i] = d.rsi[i] /\ c.atr[i] = d.atr[i]
  BY <1>1
<1>3. QED
  BY <1>2, Zenon DEF TrendPullback

LEMMA RangeSame ==
    ASSUME NEW p, p.strategy = "range_reversion", NEW close, NEW c, NEW d, NEW i,
           \A name \in Uses(p) : c[name][i] = d[name][i]
    PROVE  RangeReversion(p, close, c, i) = RangeReversion(p, close, d, i)
<1>1. {"adx", "rsi", "atr"} \subseteq Uses(p)
  BY DEF Uses
<1>2. c.adx[i] = d.adx[i] /\ c.rsi[i] = d.rsi[i] /\ c.atr[i] = d.atr[i]
  BY <1>1
<1>3. QED
  BY <1>2, Zenon DEF RangeReversion

LEMMA MeanSame ==
    ASSUME NEW p, p.strategy = "mean_reversion_z", NEW close, NEW c, NEW d, NEW i,
           \A name \in Uses(p) : c[name][i] = d[name][i]
    PROVE  MeanReversionZ(p, close, c, i) = MeanReversionZ(p, close, d, i)
<1>1. {"mean", "sd", "atr"} \subseteq Uses(p)
  BY DEF Uses
<1>2. c.mean[i] = d.mean[i] /\ c.sd[i] = d.sd[i] /\ c.atr[i] = d.atr[i]
  BY <1>1
<1> DEFINE F(mean, sd, atr) ==
             LET away == close * 100 - mean
                 far == away * away * p.mean * p.mean * p.mean >= p.zEntry * p.zEntry * sd * 10000
                 entry == Either(p, close, atr, far /\ away < 0, far /\ away > 0)
             IN  IF None \in {mean, sd} THEN None
                 ELSE IF sd = 0 \/ entry = None THEN None
                 ELSE [entry EXCEPT !.take = mean]
<1>3. \A x : MeanReversionZ(p, close, x, i) = F(x.mean[i], x.sd[i], x.atr[i])
  BY DEF MeanReversionZ
<1> HIDE DEF F
<1>4. QED
  BY <1>2, <1>3

LEMMA VolatilitySame ==
    ASSUME NEW p, p.strategy = "volatility_breakout", p.squeeze \in Nat, NEW close, NEW c, NEW d,
           NEW i \in Nat \ {0, 1},
           \A name \in Uses(p), j \in 1..i : c[name][j] = d[name][j]
    PROVE  VolatilityBreakout(p, close, c, i) = VolatilityBreakout(p, close, d, i)
<1>1. {"highs", "lows", "vol", "atr"} \subseteq Uses(p)
  BY DEF Uses
<1>2. i \in 1..i /\ i - 1 \in 1..i
  OBVIOUS
<1>3. /\ c.highs[i - 1] = d.highs[i - 1] /\ c.lows[i - 1] = d.lows[i - 1]
      /\ c.vol[i] = d.vol[i] /\ c.atr[i] = d.atr[i]
      /\ \A j \in 1..i : c.vol[j] = d.vol[j]
  BY <1>1, <1>2
<1>4. Larger(1, i - p.squeeze)..i \subseteq 1..i
  BY DEF Larger
<1>5. Squeezed(p, c, i) = Squeezed(p, d, i)
  BY <1>3, <1>4 DEF Squeezed
<1>6. Squeezed(p, c, i) \subseteq 1..i
  BY <1>4 DEF Squeezed
<1>7. Below(p, c, i) = Below(p, d, i)
  <2>1. {k \in Squeezed(p, c, i) : c.vol[k] < c.vol[i]}
         = {k \in Squeezed(p, d, i) : d.vol[k] < d.vol[i]}
    BY <1>3, <1>5, <1>6
  <2>2. QED
    BY <2>1 DEF Below
<1>8. QED
  BY <1>3, <1>5, <1>7, Zenon DEF VolatilityBreakout

\* The decision on a bar is the same whether the bars after it are there or not.
LEMMA SignalSame ==
    ASSUME NEW p \in Plans, NEW q, NEW s, NEW n, NEW m, Begins(q, s, n, m), NEW i \in 1..n,
           ResearchAssumption
    PROVE  PlanSignal(p, q, Prepare(p, q), i) = PlanSignal(p, s, Prepare(p, s), i)
<1> DEFINE c == Prepare(p, q)
           d == Prepare(p, s)
           close == q[i].close
<1>1. /\ p.warmup \in Nat \ {0} /\ {p.squeeze, p.minAdx, p.minVol, p.maxVol} \subseteq Nat
      /\ p.strategy \in {"donchian_breakout", "trend_pullback", "range_reversion",
                         "volatility_breakout", "mean_reversion_z"}
  BY DEF ResearchAssumption
<1>2. n \in Nat /\ q[i] = s[i]
  BY BeginsFacts
<1>3. CASE i <= p.warmup
  BY <1>3 DEF PlanSignal
<1>4. CASE ~(i <= p.warmup)
  <2>1. i \in Nat \ {0, 1} /\ i \in 1..n /\ i - 1 \in 1..n /\ \A j \in 1..i : j \in 1..n
    BY <1>1, <1>2, <1>4
  <2>2. /\ \A name \in Uses(p) : c[name][i] = d[name][i] /\ c[name][i - 1] = d[name][i - 1]
        /\ \A name \in Uses(p), j \in 1..i : c[name][j] = d[name][j]
    BY <2>1, PreparedAgree
  <2> HIDE DEF c, d
  <2>3. /\ PlanSignal(p, q, c, i) =
               CASE p.strategy = "donchian_breakout" -> DonchianBreakout(p, close, c, i)
                 [] p.strategy = "trend_pullback" -> TrendPullback(p, close, c, i)
                 [] p.strategy = "range_reversion" -> RangeReversion(p, close, c, i)
                 [] p.strategy = "volatility_breakout" -> VolatilityBreakout(p, close, c, i)
                 [] p.strategy = "mean_reversion_z" -> MeanReversionZ(p, close, c, i)
        /\ PlanSignal(p, s, d, i) =
               CASE p.strategy = "donchian_breakout" -> DonchianBreakout(p, close, d, i)
                 [] p.strategy = "trend_pullback" -> TrendPullback(p, close, d, i)
                 [] p.strategy = "range_reversion" -> RangeReversion(p, close, d, i)
                 [] p.strategy = "volatility_breakout" -> VolatilityBreakout(p, close, d, i)
                 [] p.strategy = "mean_reversion_z" -> MeanReversionZ(p, close, d, i)
    BY <1>2, <1>4 DEF PlanSignal
  <2> HIDE DEF close
  <2>4. ASSUME p.strategy = "donchian_breakout" PROVE PlanSignal(p, q, c, i) = PlanSignal(p, s, d, i)
    <3>1. DonchianBreakout(p, close, c, i) = DonchianBreakout(p, close, d, i)
      BY <1>1, <2>2, <2>4, DonchianSame
    <3>2. QED
      BY <2>3, <2>4, <3>1
  <2>5. ASSUME p.strategy = "trend_pullback" PROVE PlanSignal(p, q, c, i) = PlanSignal(p, s, d, i)
    <3>1. TrendPullback(p, close, c, i) = TrendPullback(p, close, d, i)
      BY <2>2, <2>5, TrendSame
    <3>2. QED
      BY <2>3, <2>5, <3>1
  <2>6. ASSUME p.strategy = "range_reversion" PROVE PlanSignal(p, q, c, i) = PlanSignal(p, s, d, i)
    <3>1. RangeReversion(p, close, c, i) = RangeReversion(p, close, d, i)
      BY <2>2, <2>6, RangeSame
    <3>2. QED
      BY <2>3, <2>6, <3>1
  <2>7. ASSUME p.strategy = "volatility_breakout" PROVE PlanSignal(p, q, c, i) = PlanSignal(p, s, d, i)
    <3>1. VolatilityBreakout(p, close, c, i) = VolatilityBreakout(p, close, d, i)
      BY <1>1, <2>1, <2>2, <2>7, VolatilitySame
    <3>2. QED
      BY <2>3, <2>7, <3>1
  <2>8. ASSUME p.strategy = "mean_reversion_z" PROVE PlanSignal(p, q, c, i) = PlanSignal(p, s, d, i)
    <3>1. MeanReversionZ(p, close, c, i) = MeanReversionZ(p, close, d, i)
      BY <2>2, <2>8, MeanSame
    <3>2. QED
      BY <2>3, <2>8, <3>1
  <2>9. QED
    BY <1>1, <2>4, <2>5, <2>6, <2>7, <2>8 DEF c, d
<1>5. QED
  BY <1>3, <1>4

-----------------------------------------------------------------------------
(* What is asked for is a trade *)

Entries == [direction : {"LONG", "SHORT"}, stop : Int, take : Int \cup {None}]

LEMMA BarsTyped ==
    ASSUME NEW b \in Seq(PriceBars)
    PROVE  /\ DOMAIN b = 1..Len(b) /\ Len(b) \in Nat
           /\ \A i \in 1..Len(b) : /\ b[i] \in PriceBars /\ b[i].open \in Int /\ b[i].high \in Int
                                   /\ b[i].low \in Int /\ b[i].close \in Int
<1>1. DOMAIN b = 1..Len(b) /\ Len(b) \in Nat /\ \A i \in 1..Len(b) : b[i] \in PriceBars
  OBVIOUS
<1>2. \A x \in PriceBars : x.open \in Int /\ x.high \in Int /\ x.low \in Int /\ x.close \in Int
  BY DEF PriceBars
<1>3. QED
  BY <1>1, <1>2

LEMMA TrueRangeTyped ==
    ASSUME NEW b \in Seq(PriceBars)
    PROVE  \A i \in 1..Len(b) : TrueRange(b)[i] \in Int
<1> SUFFICES ASSUME NEW i \in 1..Len(b) PROVE TrueRange(b)[i] \in Int
  OBVIOUS
<1>1. DOMAIN b = 1..Len(b)
  BY BarsTyped
<1>2. /\ \A j \in 1..Len(b) : b[j].high \in Int /\ b[j].low \in Int /\ b[j].close \in Int
      /\ i # 1 => i - 1 \in 1..Len(b)
  BY BarsTyped
<1>3. CASE i = 1
  BY <1>1, <1>2, <1>3 DEF TrueRange
<1>4. CASE i # 1
  <2> DEFINE x == b[i].high - b[i].low
             y == Apart(b[i].high, b[i - 1].close)
             z == Apart(b[i].low, b[i - 1].close)
  <2>1. x \in Int /\ y \in Int /\ z \in Int
    BY <1>2, <1>4 DEF Apart
  <2>2. TrueRange(b)[i] = Max({x, y, z})
    BY <1>1, <1>4 DEF TrueRange
  <2> HIDE DEF x, y, z
  <2>3. \E a \in {x, y, z} : \A c \in {x, y, z} : a >= c
    BY <2>1
  <2>4. Max({x, y, z}) \in {x, y, z}
    BY <2>3 DEF Max
  <2>5. QED
    BY <2>1, <2>2, <2>4
<1>5. QED
  BY <1>3, <1>4

LEMMA ColumnsTyped ==
    ASSUME NEW p \in Plans, NEW b \in Seq(PriceBars), NEW i \in 1..Len(b), ResearchAssumption
    PROVE  /\ Prepare(p, b).atr[i] \in Int \cup {None}
           /\ "mean" \in Uses(p) => Prepare(p, b).mean[i] \in Int \cup {None}
<1>1. {p.atr, p.mean} \subseteq Nat \ {0} /\ Len(b) \in Nat /\ DOMAIN b = 1..Len(b)
  BY DEF ResearchAssumption
<1>2. Begins(b, b, Len(b), Len(b))
  BY <1>1 DEF Begins, IsColumn
<1>3. Prepare(p, b).atr[i] \in Int \cup {None}
  <2>1. Begins(Atr(b, p.atr), Atr(b, p.atr), Len(b), Len(b))
        /\ Begins(TrueRange(b), TrueRange(b), Len(b), Len(b))
    <3>1. "atr" \in ColumnNames /\ ColumnOf("atr", p, b) = Atr(b, p.atr)
      BY DEF ColumnNames, ColumnOf
    <3>2. QED
      BY <1>2, <3>1, ColumnBegins, TrueRangeBegins
  <2>2. Prepare(p, b).atr = Atr(b, p.atr)
    <3>1. Prepare(p, b).atr = Column(ColumnOf("atr", p, b))
      BY UsesColumns DEF Prepare
    <3>2. ColumnOf("atr", p, b) = Atr(b, p.atr)
      BY DEF ColumnOf
    <3>3. QED
      BY <2>1, <3>1, <3>2, BeginsFacts
  <2>3. Column(TrueRange(b)) = TrueRange(b) /\ DOMAIN TrueRange(b) = 1..Len(b)
    BY <2>1, BeginsFacts
  <2>4. \A j \in 1..Len(b) : TrueRange(b)[j] \in Int
    BY TrueRangeTyped
  <2>5. Atr(b, p.atr) = Smoothed("wilder", TrueRange(b), p.atr, 1)
    BY <2>3 DEF Atr
  <2>6. p.atr \in Nat \ {0} /\ 1 \in Nat \ {0} /\ "wilder" \in {"wilder", "ema", "sum"}
    BY <1>1
  <2>7. \A j \in 1..Len(b) : Smoothed("wilder", TrueRange(b), p.atr, 1)[j] \in Int \cup {None}
    BY <1>1, <2>3, <2>4, <2>6, SmoothedTyped
  <2>8. QED
    BY <2>2, <2>5, <2>7
<1>4. ASSUME "mean" \in Uses(p) PROVE Prepare(p, b).mean[i] \in Int \cup {None}
  <2>1. DOMAIN Closes(b) = 1..Len(b) /\ \A j \in 1..Len(b) : Closes(b)[j] \in Int
    BY BarsTyped DEF Closes
  <2>2. Begins(Sma(Closes(b), p.mean), Sma(Closes(b), p.mean), Len(b), Len(b))
    <3>1. "mean" \in ColumnNames /\ ColumnOf("mean", p, b) = Sma(Closes(b), p.mean)
      BY DEF ColumnNames, ColumnOf
    <3>2. QED
      BY <1>2, <3>1, ColumnBegins
  <2>3. Prepare(p, b).mean = Sma(Closes(b), p.mean)
    <3>1. Prepare(p, b).mean = Column(ColumnOf("mean", p, b))
      BY <1>4 DEF Prepare
    <3>2. ColumnOf("mean", p, b) = Sma(Closes(b), p.mean)
      BY DEF ColumnOf
    <3>3. QED
      BY <2>2, <3>1, <3>2, BeginsFacts
  <2>4. CASE i < p.mean
    BY <2>1, <2>3, <2>4 DEF Sma
  <2>5. CASE ~(i < p.mean)
    <3>1. /\ p.mean \in Nat \ {0} /\ i \in Int /\ i - p.mean + 1 \in Int
          /\ (i - p.mean + 1) - 1 <= i
          /\ \A j \in (i - p.mean + 1)..i : j \in 1..Len(b)
      BY <1>1, <2>5
    <3>2. SumFrom(Closes(b), i - p.mean + 1, i) \in Int
      BY <2>1, <3>1, SumTyped
    <3>3. Sma(Closes(b), p.mean)[i] = (100 * SumFrom(Closes(b), i - p.mean + 1, i)) \div p.mean
      BY <2>1, <2>5 DEF Sma
    <3>4. QED
      BY <2>3, <3>1, <3>2, <3>3
  <2>6. QED
    BY <2>4, <2>5
<1>5. QED
  BY <1>3, <1>4

LEMMA EitherTyped ==
    ASSUME NEW p \in Plans, NEW close \in Int, NEW atr \in Int \cup {None}, NEW up, NEW down,
           ResearchAssumption
    PROVE  Either(p, close, atr, up, down) \in Entries \cup {None}
<1>1. p.atrMult \in Int /\ p.rr \in Int
  BY DEF ResearchAssumption
<1>2. ASSUME NEW long \in BOOLEAN, atr \in Int PROVE EntryAt(p, close, atr, long) \in Entries
  <2> DEFINE distance == (atr * p.atrMult) \div 100
             sign == IF long THEN 1 ELSE -1
             offset == (distance * p.rr) \div 100
  <2>1. atr * p.atrMult \in Int
    BY <1>1, <1>2
  <2>2. distance \in Int /\ sign \in {1, -1}
    BY <2>1
  <2>3. distance * p.rr \in Int
    BY <1>1, <2>2
  <2>4. offset \in Int
    BY <2>3
  <2>5. EntryAt(p, close, atr, long) =
          [direction |-> IF long THEN "LONG" ELSE "SHORT",
           stop |-> 100 * close - sign * distance,
           take |-> IF p.rr <= 0 THEN None ELSE 100 * close + sign * offset]
    BY DEF EntryAt
  <2> HIDE DEF distance, sign, offset
  <2>6. 100 * close - sign * distance \in Int /\ 100 * close + sign * offset \in Int
    BY <2>2, <2>4
  <2>7. QED
    BY <2>5, <2>6 DEF Entries
<1>3. CASE atr \in {None, 0}
  BY <1>3 DEF Either
<1>4. CASE atr \notin {None, 0}
  <2>1. EntryAt(p, close, atr, TRUE) \in Entries /\ EntryAt(p, close, atr, FALSE) \in Entries
    BY <1>2, <1>4
  <2>2. QED
    BY <1>4, <2>1 DEF Either
<1>5. QED
  BY <1>3, <1>4

LEMMA SignalTyped ==
    ASSUME NEW p \in Plans, NEW b \in Seq(PriceBars), NEW i \in 1..Len(b), ResearchAssumption
    PROVE  PlanSignal(p, b, Prepare(p, b), i) \in Entries \cup {None}
<1> DEFINE c == Prepare(p, b)
           close == b[i].close
<1>1. p.strategy \in {"donchian_breakout", "trend_pullback", "range_reversion",
                      "volatility_breakout", "mean_reversion_z"}
  BY DEF ResearchAssumption
<1>2. /\ close \in Int /\ c.atr[i] \in Int \cup {None}
      /\ "mean" \in Uses(p) => c.mean[i] \in Int \cup {None}
  BY ColumnsTyped, BarsTyped
<1> HIDE DEF c, close
<1>3. \A up, down : Either(p, close, c.atr[i], up, down) \in Entries \cup {None}
  BY <1>2, EitherTyped
<1>4. DonchianBreakout(p, close, c, i) \in Entries \cup {None}
  BY <1>3 DEF DonchianBreakout
<1>5. TrendPullback(p, close, c, i) \in Entries \cup {None}
  BY <1>3 DEF TrendPullback
<1>6. RangeReversion(p, close, c, i) \in Entries \cup {None}
  BY <1>3 DEF RangeReversion
<1>7. VolatilityBreakout(p, close, c, i) \in Entries \cup {None}
  BY <1>3 DEF VolatilityBreakout
<1>8. ASSUME p.strategy = "mean_reversion_z"
      PROVE  MeanReversionZ(p, close, c, i) \in Entries \cup {None}
  <2>1. c.mean[i] \in Int \cup {None}
    BY <1>2, <1>8 DEF Uses
  <2>2. \A entry \in Entries : [entry EXCEPT !.take = c.mean[i]] \in Entries
    BY <2>1 DEF Entries
  <2> DEFINE away == close * 100 - c.mean[i]
             far == away * away * p.mean * p.mean * p.mean >= p.zEntry * p.zEntry * c.sd[i] * 10000
             entry == Either(p, close, c.atr[i], far /\ away < 0, far /\ away > 0)
  <2>3. MeanReversionZ(p, close, c, i) =
          IF None \in {c.mean[i], c.sd[i]} THEN None
          ELSE IF c.sd[i] = 0 \/ entry = None THEN None
          ELSE [entry EXCEPT !.take = c.mean[i]]
    BY DEF MeanReversionZ
  <2>4. entry \in Entries \cup {None}
    BY <1>3
  <2> HIDE DEF entry
  <2>5. entry # None => entry \in Entries
    BY <2>4
  <2>6. entry # None => [entry EXCEPT !.take = c.mean[i]] \in Entries
    BY <2>2, <2>5
  <2>7. QED
    BY <2>3, <2>6
<1>9. CASE i <= p.warmup
  BY <1>9 DEF PlanSignal
<1>10. CASE ~(i <= p.warmup)
  BY <1>1, <1>4, <1>5, <1>6, <1>7, <1>8, <1>10 DEF PlanSignal, close, c
<1>11. QED
  BY <1>9, <1>10

LEMMA AskedTyped ==
    ASSUME NEW e \in Entries, NEW i \in Nat, ResearchAssumption
    PROVE  Asked(e, i) \in ResearchTrades /\ Asked(e, i) # None
<1>1. Asked(e, i) \in ResearchTrades
  BY DEF Asked, ResearchTrades, Entries
<1>2. QED
  BY <1>1 DEF ResearchAssumption

-----------------------------------------------------------------------------
(* One bar of a trade *)

LEMMA EntryFilled ==
    ASSUME ResearchAssumption, NEW t \in ResearchTrades, NEW bar \in PriceBars
    PROVE  /\ FilledAt(t, bar) \in ResearchTrades
           /\ FilledAt(t, bar).at = t.at /\ FilledAt(t, bar).bars = t.bars
           /\ FilledAt(t, bar).status = t.status
<1> DEFINE price == bar.open * 100 + Sign(t) * ((bar.open * SlippagePoints) \div 100)
           risk == IF price > t.stop THEN price - t.stop ELSE t.stop - price
<1>1. SlippagePoints \in Nat /\ bar.open \in Int /\ t.stop \in Int
  BY DEF ResearchAssumption, PriceBars, ResearchTrades
<1>2. bar.open * SlippagePoints \in Int /\ Sign(t) \in {1, -1}
  BY <1>1 DEF Sign
<1>3. (bar.open * SlippagePoints) \div 100 \in Int
  BY <1>2
<1>4. price \in Int
  BY <1>1, <1>2, <1>3
<1>5. FilledAt(t, bar) = [t EXCEPT !.entry = price, !.best = price, !.risk = risk]
  BY DEF FilledAt
<1> HIDE DEF price
<1>6. risk \in Int
  BY <1>1, <1>4
<1> HIDE DEF risk
<1>7. QED
  BY <1>4, <1>5, <1>6 DEF ResearchTrades

LEMMA ManagedIs ==
    ASSUME ResearchAssumption, NEW p \in Plans, NEW t \in ResearchTrades, NEW bar \in PriceBars
    PROVE  /\ Managed(p, t, bar) \in ResearchTrades
           /\ Managed(p, t, bar).at = t.at /\ Managed(p, t, bar).bars = t.bars + 1
           /\ Managed(p, t, bar).status = t.status /\ Managed(p, t, bar).risk = t.risk
<1> DEFINE best == BetterOf(t, t.best, Reach(t, bar))
           even == ~t.even /\ InFavour(t, bar, PriceAtR(t, p.breakevenAt))
           stop == IF even THEN BetterOf(t, t.stop, t.entry) ELSE t.stop
           trailed == best - Sign(t) * ((p.trailDistance * t.risk) \div 100)
           moved == IF InFavour(t, bar, PriceAtR(t, p.trailFrom))
                    THEN BetterOf(t, stop, trailed) ELSE stop
           partial == t.partial \/ InFavour(t, bar, PriceAtR(t, p.partialAt))
<1>1. /\ p.trailDistance \in Int /\ t.risk \in Int /\ t.best \in Int /\ t.stop \in Int
      /\ t.entry \in Int /\ t.bars \in Nat /\ bar.high \in Int /\ bar.low \in Int
      /\ t.even \in BOOLEAN /\ t.partial \in BOOLEAN
  BY DEF ResearchAssumption, PriceBars, ResearchTrades
<1>2. \A a, b \in Int : BetterOf(t, a, b) \in Int
  BY DEF BetterOf
<1>3. Reach(t, bar) \in Int
  BY <1>1 DEF Reach
<1>4. best \in Int
  BY <1>1, <1>2, <1>3
<1>5. stop \in Int
  BY <1>1, <1>2
<1>6. p.trailDistance * t.risk \in Int /\ Sign(t) \in {1, -1}
  BY <1>1 DEF Sign
<1>7. (p.trailDistance * t.risk) \div 100 \in Int
  BY <1>6
<1> HIDE DEF best
<1>8. trailed \in Int
  BY <1>4, <1>6, <1>7
<1> HIDE DEF stop, trailed
<1>9. moved \in Int
  BY <1>2, <1>5, <1>8
<1>10. even \in BOOLEAN /\ partial \in BOOLEAN /\ (t.even \/ even) \in BOOLEAN
  BY <1>1
<1>11. Managed(p, t, bar) = [t EXCEPT !.best = best, !.bars = @ + 1, !.even = @ \/ even,
                                     !.partial = partial, !.stop = moved]
  BY DEF Managed, best, stop, trailed
<1> HIDE DEF moved, even, partial
<1>12. t.bars + 1 \in Nat
  BY <1>1
<1>13. QED
  BY <1>4, <1>9, <1>10, <1>11, <1>12 DEF ResearchTrades

LEMMA LeftIs ==
    ASSUME NEW p, NEW t \in ResearchTrades, NEW bar \in PriceBars, t.status = "OPEN"
    PROVE  LET u == LeftBy(p, t, bar)
           IN  /\ u \in ResearchTrades /\ u.at = t.at /\ u.status # "VOID"
               /\ u.status = "OPEN" => u = t
               /\ u.status # "OPEN" => u.exitAt = t.at + t.bars
<1>1. /\ bar.open \in Int /\ bar.close \in Int /\ t.stop \in Int /\ t.take \in Int \cup {None}
      /\ t.at \in Nat /\ t.bars \in Nat
  BY DEF PriceBars, ResearchTrades
<1>2. t.at + t.bars \in Nat /\ bar.open * 100 \in Int /\ bar.close * 100 \in Int
  BY <1>1
<1>3. ASSUME NEW status \in {"SL", "SL_AFTER_PARTIAL", "TP", "TIMEOUT"}, NEW price \in Int
      PROVE  LET u == LeftWith(t, status, price)
             IN  /\ u \in ResearchTrades /\ u.at = t.at /\ u.status = status
                 /\ u.exitAt = t.at + t.bars
  BY <1>2 DEF LeftWith, ResearchTrades
<1>4. \A level \in Int, stopping \in BOOLEAN : Gapped(t, bar, level, stopping) \in Int
  BY <1>2 DEF Gapped
<1>5. CASE Against(t, bar, t.stop)
  <2> DEFINE status == IF t.partial THEN "SL_AFTER_PARTIAL" ELSE "SL"
             price == Gapped(t, bar, t.stop, TRUE)
  <2>1. LeftBy(p, t, bar) = LeftWith(t, status, price)
    BY <1>5 DEF LeftBy
  <2>2. status \in {"SL", "SL_AFTER_PARTIAL"} /\ price \in Int
    BY <1>1, <1>4
  <2> HIDE DEF status, price
  <2>3. QED
    BY <1>3, <2>1, <2>2
<1>6. CASE ~Against(t, bar, t.stop) /\ InFavour(t, bar, t.take)
  <2> DEFINE price == Gapped(t, bar, t.take, FALSE)
  <2>1. t.take \in Int
    BY <1>1, <1>6 DEF InFavour
  <2>2. price \in Int
    BY <1>4, <2>1
  <2>3. LeftBy(p, t, bar) = LeftWith(t, "TP", price)
    BY <1>6 DEF LeftBy
  <2> HIDE DEF price
  <2>4. QED
    BY <1>3, <2>2, <2>3
<1>7. CASE ~Against(t, bar, t.stop) /\ ~InFavour(t, bar, t.take) /\ t.bars = p.maxBars
  <2>1. LeftBy(p, t, bar) = LeftWith(t, "TIMEOUT", bar.close * 100)
    BY <1>7 DEF LeftBy
  <2>2. QED
    BY <1>2, <1>3, <2>1
<1>8. CASE ~Against(t, bar, t.stop) /\ ~InFavour(t, bar, t.take) /\ t.bars # p.maxBars
  <2>1. LeftBy(p, t, bar) = t
    BY <1>8 DEF LeftBy
  <2>2. QED
    BY <2>1
<1>9. QED
  BY <1>5, <1>6, <1>7, <1>8

LEMMA WalkIs ==
    ASSUME ResearchAssumption, NEW p \in Plans, NEW t \in ResearchTrades, NEW bar \in PriceBars,
           t.status = "OPEN", t.bars # 0 => t.risk # 0
    PROVE  LET u == Walk(p, t, bar)
           IN  /\ u \in ResearchTrades /\ u.at = t.at
               /\ u.status = "OPEN" => u.bars = t.bars + 1 /\ u.risk # 0
               /\ u.status = "VOID" => t.bars = 0
               /\ u.status \notin {"OPEN", "VOID"} => u.exitAt = t.at + (t.bars + 1)
<1> DEFINE w == IF t.bars = 0 THEN FilledAt(t, bar) ELSE t
           v == Managed(p, w, bar)
           u == Walk(p, t, bar)
<1>1. /\ w \in ResearchTrades /\ w.at = t.at /\ w.bars = t.bars /\ w.status = "OPEN"
      /\ t.bars # 0 => w.risk # 0
  BY EntryFilled
<1>2. u = WalkFilled(p, w, bar)
  BY DEF Walk
<1> HIDE DEF w, u
<1>3. CASE w.risk = 0
  <2>1. u = [w EXCEPT !.status = "VOID"]
    BY <1>2, <1>3 DEF WalkFilled
  <2>2. u \in ResearchTrades /\ u.at = t.at /\ u.status = "VOID" /\ t.bars = 0
    BY <1>1, <1>3, <2>1 DEF ResearchTrades
  <2>3. QED
    BY <2>2 DEF u
<1>4. CASE w.risk # 0
  <2>1. u = LeftBy(p, v, bar)
    BY <1>2, <1>4 DEF WalkFilled
  <2>2. /\ v \in ResearchTrades /\ v.at = t.at /\ v.bars = t.bars + 1 /\ v.status = "OPEN"
        /\ v.risk # 0
    BY <1>1, <1>4, ManagedIs
  <2> HIDE DEF v
  <2>3. /\ u \in ResearchTrades /\ u.at = v.at /\ u.status # "VOID"
        /\ u.status = "OPEN" => u = v
        /\ u.status # "OPEN" => u.exitAt = v.at + v.bars
    BY <2>1, <2>2, LeftIs
  <2>4. QED
    BY <2>2, <2>3 DEF u
<1>5. QED
  BY <1>3, <1>4

-----------------------------------------------------------------------------
(* The bars after an entry *)

WalkOf(f, p, e, s, i, n) ==
    f = [k \in i..n |-> IF k = i THEN Asked(e, i)
                        ELSE IF f[k - 1].status = "OPEN" THEN Walk(p, f[k - 1], s[k])
                        ELSE f[k - 1]]

LEMMA WalkExists ==
    ASSUME NEW p, NEW e, NEW s, NEW i \in Nat, NEW n \in Nat, i <= n
    PROVE  \E f : WalkOf(f, p, e, s, i, n)
<1> DEFINE G == {m \in i..n : \E f : WalkOf(f, p, e, s, i, m)}
<1>1. i \in G
  <2>1. WalkOf([k \in i..i |-> Asked(e, i)], p, e, s, i, i)
    BY DEF WalkOf
  <2>2. QED
    BY <2>1
<1>2. ASSUME NEW m \in i..(n - 1), m \in G PROVE m + 1 \in G
  <2>1. PICK f : WalkOf(f, p, e, s, i, m)
    BY <1>2
  <2> DEFINE g == [k \in i..(m + 1) |-> IF k = m + 1
                                         THEN IF f[m].status = "OPEN" THEN Walk(p, f[m], s[m + 1])
                                              ELSE f[m]
                                         ELSE f[k]]
  <2>2. \A k \in i..m : g[k] = f[k]
    OBVIOUS
  <2>3. m \in i..m /\ m + 1 # i /\ m \in Int /\ m + 1 \in i..n
    OBVIOUS
  <2>4. \A k \in i..m : g[k] = IF k = i THEN Asked(e, i)
                               ELSE IF g[k - 1].status = "OPEN" THEN Walk(p, g[k - 1], s[k])
                               ELSE g[k - 1]
    <3> SUFFICES ASSUME NEW k \in i..m
                 PROVE  g[k] = IF k = i THEN Asked(e, i)
                               ELSE IF g[k - 1].status = "OPEN" THEN Walk(p, g[k - 1], s[k])
                               ELSE g[k - 1]
      OBVIOUS
    <3>1. k # i => k - 1 \in i..m
      OBVIOUS
    <3>2. f[k] = IF k = i THEN Asked(e, i)
                 ELSE IF f[k - 1].status = "OPEN" THEN Walk(p, f[k - 1], s[k]) ELSE f[k - 1]
      BY <2>1 DEF WalkOf
    <3> HIDE DEF g
    <3>3. QED
      BY <2>2, <3>1, <3>2
  <2>5. g[m + 1] = IF g[m].status = "OPEN" THEN Walk(p, g[m], s[m + 1]) ELSE g[m]
    BY <2>2, <2>3
  <2>6. DOMAIN g = i..(m + 1) /\ g = [k \in i..(m + 1) |-> g[k]]
    OBVIOUS
  <2>7. \A k \in i..(m + 1) : k \in i..m \/ k = m + 1
    BY <2>3
  <2> HIDE DEF g
  <2>8. (m + 1) - 1 = m
    BY <2>3
  <2>9. \A k \in i..(m + 1) :
          g[k] = IF k = i THEN Asked(e, i)
                 ELSE IF g[k - 1].status = "OPEN" THEN Walk(p, g[k - 1], s[k]) ELSE g[k - 1]
    BY <2>3, <2>4, <2>5, <2>7, <2>8
  <2>10. WalkOf(g, p, e, s, i, m + 1)
    BY <2>6, <2>9 DEF WalkOf
  <2>11. QED
    BY <2>3, <2>10
<1> HIDE DEF G
<1>3. \A m \in i..n : m \in G
  BY <1>1, <1>2, Climb
<1>4. n \in G
  BY <1>3
<1>5. QED
  BY <1>4 DEF G

LEMMA OpenAndCloseIs ==
    ASSUME NEW p, NEW e, NEW s, Len(s) \in Nat, NEW i \in 1..Len(s)
    PROVE  \E f : WalkOf(f, p, e, s, i, Len(s)) /\ OpenAndClose(p, e, s, i) = f[Len(s)]
<1> DEFINE walk == CHOOSE f : f = [k \in i..Len(s) |->
                      IF k = i THEN Asked(e, i)
                      ELSE IF f[k - 1].status = "OPEN" THEN Walk(p, f[k - 1], s[k]) ELSE f[k - 1]]
<1>1. OpenAndClose(p, e, s, i) = walk[Len(s)]
  BY DEF OpenAndClose
<1>2. walk = CHOOSE f : WalkOf(f, p, e, s, i, Len(s))
  BY DEF WalkOf
<1> HIDE DEF walk
<1>3. i \in Nat /\ i <= Len(s)
  OBVIOUS
<1>4. \E f : WalkOf(f, p, e, s, i, Len(s))
  BY <1>3, WalkExists
<1>5. WalkOf(walk, p, e, s, i, Len(s))
  BY <1>2, <1>4
<1>6. QED
  BY <1>1, <1>5

\* An open trade counts its bars and has a risk; a void one was so at its first bar; one
\* with an exit had it at that bar.
Walked(f, i, k) ==
    /\ f[k] \in ResearchTrades /\ f[k].at = i
    /\ f[k].status = "OPEN" => f[k].bars = k - i /\ (k # i => f[k].risk # 0)
    /\ f[k].status = "VOID" => k # i /\ f[i + 1].status = "VOID"
    /\ f[k].status \notin {"OPEN", "VOID"} =>
          f[k].exitAt \in (i + 1)..k /\ f[f[k].exitAt].status # "OPEN"

LEMMA WalkedAll ==
    ASSUME ResearchAssumption, NEW p \in Plans, NEW e \in Entries, NEW s, NEW n \in Nat,
           \A k \in 1..n : s[k] \in PriceBars, NEW i \in 1..n, NEW f, WalkOf(f, p, e, s, i, n)
    PROVE  \A k \in i..n : Walked(f, i, k)
<1> DEFINE G == {k \in i..n : Walked(f, i, k)}
<1>1. i \in Nat /\ n \in Nat /\ i <= n /\ i \in i..n
  OBVIOUS
<1>2. \A k \in i..n : f[k] = IF k = i THEN Asked(e, i)
                            ELSE IF f[k - 1].status = "OPEN" THEN Walk(p, f[k - 1], s[k])
                            ELSE f[k - 1]
  BY DEF WalkOf
<1>3. i \in G
  <2>1. f[i] = Asked(e, i)
    BY <1>1, <1>2
  <2>2. f[i] \in ResearchTrades /\ f[i].at = i /\ f[i].bars = 0 /\ f[i].status = "OPEN"
    <3>1. Asked(e, i) \in ResearchTrades
      BY <1>1, AskedTyped
    <3>2. QED
      BY <2>1, <3>1 DEF Asked
  <2>3. QED
    BY <1>1, <2>2 DEF Walked
<1>4. ASSUME NEW k \in i..(n - 1), k \in G PROVE k + 1 \in G
  <2>1. k + 1 \in i..n /\ k + 1 # i /\ (k + 1) - 1 = k /\ k \in i..n /\ k + 1 \in 1..n
    BY <1>1
  <2>2. Walked(f, i, k)
    BY <1>4
  <2>3. CASE f[k].status = "OPEN"
    <3>1. f[k + 1] = Walk(p, f[k], s[k + 1])
      BY <1>2, <2>1, <2>3
    <3>2. s[k + 1] \in PriceBars
      BY <2>1
    <3>3. /\ f[k] \in ResearchTrades /\ f[k].at = i /\ f[k].bars = k - i
          /\ f[k].bars # 0 => f[k].risk # 0
      <4>1. f[k].bars = k - i /\ (k # i => f[k].risk # 0)
        BY <2>2, <2>3 DEF Walked
      <4>2. k - i # 0 => k # i
        BY <1>1
      <4>3. QED
        BY <2>2, <4>1, <4>2 DEF Walked
    <3>4. /\ f[k + 1] \in ResearchTrades /\ f[k + 1].at = f[k].at
          /\ f[k + 1].status = "OPEN" => f[k + 1].bars = f[k].bars + 1 /\ f[k + 1].risk # 0
          /\ f[k + 1].status = "VOID" => f[k].bars = 0
          /\ f[k + 1].status \notin {"OPEN", "VOID"} =>
                f[k + 1].exitAt = f[k].at + (f[k].bars + 1)
      BY <2>3, <3>1, <3>2, <3>3, WalkIs
    <3>5. (k - i) + 1 = (k + 1) - i /\ i + ((k - i) + 1) = k + 1 /\ (k - i = 0 => k + 1 = i + 1)
      BY <1>1
    <3>6. f[k + 1].status \notin {"OPEN", "VOID"} => f[k + 1].exitAt = k + 1
      BY <3>3, <3>4, <3>5
    <3>7. k + 1 \in (i + 1)..(k + 1)
      BY <2>1
    <3>8. f[k + 1].status = "VOID" => f[i + 1].status = "VOID"
      BY <3>3, <3>4, <3>5
    <3>9. QED
      BY <2>1, <3>3, <3>4, <3>5, <3>6, <3>7, <3>8 DEF Walked
  <2>4. CASE f[k].status # "OPEN"
    <3>1. f[k + 1] = f[k]
      BY <1>2, <2>1, <2>4
    <3>2. f[k].status # "VOID" => f[k].exitAt \in (i + 1)..k
      BY <2>2, <2>4 DEF Walked
    <3>3. f[k].status # "VOID" => f[k].exitAt \in (i + 1)..(k + 1)
      BY <2>1, <3>2
    <3>4. QED
      BY <2>1, <2>2, <2>4, <3>1, <3>3 DEF Walked
  <2>5. QED
    BY <2>3, <2>4
<1> HIDE DEF G
<1>5. \A k \in i..n : k \in G
  BY <1>1, <1>3, <1>4, Climb
<1>6. QED
  BY <1>5 DEF G

\* What has ended stays as it is.
Rests(f, i, n) == \A b \in i..n : f[b].status # "OPEN" => \A k \in b..n : f[k] = f[b]
LEMMA WalkRests ==
    ASSUME NEW p, NEW e, NEW s, NEW n \in Nat, NEW i \in 1..n, NEW f, WalkOf(f, p, e, s, i, n)
    PROVE  Rests(f, i, n)
<1> SUFFICES ASSUME NEW b \in i..n, f[b].status # "OPEN" PROVE \A k \in b..n : f[k] = f[b]
  BY DEF Rests
<1> DEFINE G == {k \in b..n : f[k] = f[b]}
<1>1. b \in Nat /\ b \in G /\ i \in Nat /\ i <= b
  OBVIOUS
<1>2. ASSUME NEW k \in b..(n - 1), k \in G PROVE k + 1 \in G
  <2>1. k + 1 \in i..n /\ k + 1 # i /\ (k + 1) - 1 = k /\ k + 1 \in b..n
    BY <1>1
  <2>2. f[k + 1] = IF f[k].status = "OPEN" THEN Walk(p, f[k], s[k + 1]) ELSE f[k]
    BY <2>1 DEF WalkOf
  <2>3. f[k] = f[b]
    BY <1>2
  <2>4. QED
    BY <2>1, <2>2, <2>3
<1> HIDE DEF G
<1>3. \A k \in b..n : k \in G
  BY <1>1, <1>2, Climb
<1>4. QED
  BY <1>3 DEF G

-----------------------------------------------------------------------------
(* The loop of the harness and the live trader, bar by bar *)

ScanOf(f, p, s, columns, n) ==
    f = [i \in 0..n |-> IF i = 0 THEN <<>> ELSE Scan(p, s, columns, f[i - 1], i)]

LEMMA ScanExists ==
    ASSUME NEW p, NEW s, NEW columns, NEW n \in Nat
    PROVE  \E f : ScanOf(f, p, s, columns, n)
<1> DEFINE G == {m \in 0..n : \E f : ScanOf(f, p, s, columns, m)}
<1>1. 0 \in G
  <2>1. ScanOf([i \in 0..0 |-> <<>>], p, s, columns, 0)
    BY DEF ScanOf
  <2>2. QED
    BY <2>1
<1>2. ASSUME NEW m \in 0..(n - 1), m \in G PROVE m + 1 \in G
  <2>1. PICK f : ScanOf(f, p, s, columns, m)
    BY <1>2
  <2> DEFINE g == [i \in 0..(m + 1) |-> IF i = m + 1 THEN Scan(p, s, columns, f[m], m + 1)
                                         ELSE f[i]]
  <2>2. \A i \in 0..m : g[i] = f[i]
    OBVIOUS
  <2>3. m \in 0..m /\ m + 1 # 0 /\ m \in Int /\ m + 1 \in 0..n
    OBVIOUS
  <2>4. \A i \in 0..m : g[i] = IF i = 0 THEN <<>> ELSE Scan(p, s, columns, g[i - 1], i)
    <3> SUFFICES ASSUME NEW i \in 0..m
                 PROVE  g[i] = IF i = 0 THEN <<>> ELSE Scan(p, s, columns, g[i - 1], i)
      OBVIOUS
    <3>1. i # 0 => i - 1 \in 0..m
      OBVIOUS
    <3>2. f[i] = IF i = 0 THEN <<>> ELSE Scan(p, s, columns, f[i - 1], i)
      BY <2>1 DEF ScanOf
    <3> HIDE DEF g
    <3>3. QED
      BY <2>2, <3>1, <3>2
  <2>5. g[m + 1] = Scan(p, s, columns, g[m], m + 1)
    BY <2>2, <2>3
  <2>6. g = [i \in 0..(m + 1) |-> g[i]]
    OBVIOUS
  <2>7. \A i \in 0..(m + 1) : i \in 0..m \/ i = m + 1
    BY <2>3
  <2> HIDE DEF g
  <2>8. (m + 1) - 1 = m
    BY <2>3
  <2>9. \A i \in 0..(m + 1) : g[i] = IF i = 0 THEN <<>> ELSE Scan(p, s, columns, g[i - 1], i)
    BY <2>3, <2>4, <2>5, <2>7, <2>8
  <2>10. ScanOf(g, p, s, columns, m + 1)
    BY <2>6, <2>9 DEF ScanOf
  <2>11. QED
    BY <2>3, <2>10
<1> HIDE DEF G
<1>3. \A m \in 0..n : m \in G
  BY <1>1, <1>2, Climb
<1>4. n \in G
  BY <1>3
<1>5. QED
  BY <1>4 DEF G

LEMMA RunOverIs ==
    ASSUME NEW p, NEW s, NEW columns, Len(s) \in Nat
    PROVE  \E f : ScanOf(f, p, s, columns, Len(s)) /\ RunOver(p, s, columns) = f[Len(s) - 1]
<1> DEFINE loop == CHOOSE f : f = [i \in 0..Len(s) |->
                      IF i = 0 THEN <<>> ELSE Scan(p, s, columns, f[i - 1], i)]
<1>1. RunOver(p, s, columns) = loop[Len(s) - 1]
  BY DEF RunOver
<1>2. loop = CHOOSE f : ScanOf(f, p, s, columns, Len(s))
  BY DEF ScanOf
<1> HIDE DEF loop
<1>3. ScanOf(loop, p, s, columns, Len(s))
  BY <1>2, ScanExists
<1>4. QED
  BY <1>1, <1>3

Fresh == [closed |-> <<>>, position |-> None]
Trader(c, x) == [closed |-> c, position |-> x]

ShownOf(f, p, s, n) ==
    f = [k \in 0..n |-> IF k = 0 THEN Fresh
                        ELSE LiveResearch!See(p, f[k - 1], SubSeq(s, 1, k))]

LEMMA ShownExists ==
    ASSUME NEW p, NEW s, NEW n \in Nat
    PROVE  \E f : ShownOf(f, p, s, n)
<1> DEFINE G == {m \in 0..n : \E f : ShownOf(f, p, s, m)}
<1>1. 0 \in G
  <2>1. ShownOf([k \in 0..0 |-> Fresh], p, s, 0)
    BY DEF ShownOf
  <2>2. QED
    BY <2>1
<1>2. ASSUME NEW m \in 0..(n - 1), m \in G PROVE m + 1 \in G
  <2>1. PICK f : ShownOf(f, p, s, m)
    BY <1>2
  <2> DEFINE next == LiveResearch!See(p, f[m], SubSeq(s, 1, m + 1))
             g == [k \in 0..(m + 1) |-> IF k = m + 1 THEN next ELSE f[k]]
  <2>2. \A k \in 0..m : g[k] = f[k]
    OBVIOUS
  <2>3. m \in 0..m /\ m + 1 # 0 /\ m \in Int /\ m + 1 \in 0..n
    OBVIOUS
  <2>4. \A k \in 0..m : g[k] = IF k = 0 THEN Fresh
                               ELSE LiveResearch!See(p, g[k - 1], SubSeq(s, 1, k))
    <3> SUFFICES ASSUME NEW k \in 0..m
                 PROVE  g[k] = IF k = 0 THEN Fresh
                               ELSE LiveResearch!See(p, g[k - 1], SubSeq(s, 1, k))
      OBVIOUS
    <3>1. k # 0 => k - 1 \in 0..m
      OBVIOUS
    <3>2. f[k] = IF k = 0 THEN Fresh ELSE LiveResearch!See(p, f[k - 1], SubSeq(s, 1, k))
      BY <2>1 DEF ShownOf
    <3> HIDE DEF g
    <3>3. QED
      BY <2>2, <3>1, <3>2
  <2>5. g[m + 1] = LiveResearch!See(p, g[m], SubSeq(s, 1, m + 1))
    BY <2>2, <2>3
  <2>6. g = [k \in 0..(m + 1) |-> g[k]]
    OBVIOUS
  <2>7. \A k \in 0..(m + 1) : k \in 0..m \/ k = m + 1
    BY <2>3
  <2> HIDE DEF g
  <2>8. (m + 1) - 1 = m
    BY <2>3
  <2>9. \A k \in 0..(m + 1) : g[k] = IF k = 0 THEN Fresh
                                     ELSE LiveResearch!See(p, g[k - 1], SubSeq(s, 1, k))
    BY <2>3, <2>4, <2>5, <2>7, <2>8
  <2>10. ShownOf(g, p, s, m + 1)
    BY <2>6, <2>9 DEF ShownOf
  <2>11. QED
    BY <2>3, <2>10
<1> HIDE DEF G
<1>3. \A m \in 0..n : m \in G
  BY <1>1, <1>2, Climb
<1>4. n \in G
  BY <1>3
<1>5. QED
  BY <1>4 DEF G

LEMMA ShownTradesAre ==
    ASSUME NEW p, NEW s, Len(s) \in Nat
    PROVE  \E f : ShownOf(f, p, s, Len(s)) /\ LiveResearch!LiveTrades(p, s) = f[Len(s)].closed
<1> DEFINE after == CHOOSE f : f = [k \in 0..Len(s) |->
                        IF k = 0 THEN [closed |-> <<>>, position |-> None]
                        ELSE LiveResearch!See(p, f[k - 1], SubSeq(s, 1, k))]
<1>1. LiveResearch!LiveTrades(p, s) = after[Len(s)].closed
  BY DEF LiveResearch!LiveTrades, LiveResearch!Trader
<1>2. after = CHOOSE f : ShownOf(f, p, s, Len(s))
  BY DEF ShownOf, Fresh
<1> HIDE DEF after
<1>3. ShownOf(after, p, s, Len(s))
  BY <1>2, ShownExists
<1>4. QED
  BY <1>1, <1>3

LEMMA IntendIs ==
    ASSUME ResearchAssumption, NEW p \in Plans, NEW s \in Seq(PriceBars), NEW n \in 1..Len(s)
    PROVE  Intend(p, SubSeq(s, 1, n)) =
              IF PlanSignal(p, s, Prepare(p, s), n) = None THEN None
              ELSE Asked(PlanSignal(p, s, Prepare(p, s), n), n)
<1> DEFINE q == SubSeq(s, 1, n)
<1>1. q \in Seq(PriceBars) /\ Len(q) = n /\ \A k \in 1..n : q[k] = s[k]
  BY PrefixIs
<1>2. /\ n \in Nat /\ Len(s) \in Nat /\ n <= Len(s) /\ n \in 1..n
      /\ DOMAIN q = 1..n /\ DOMAIN s = 1..Len(s)
  BY <1>1
<1> HIDE DEF q
<1>3. IsColumn(q, n) /\ IsColumn(s, Len(s))
  BY <1>1, <1>2 DEF IsColumn
<1>4. Begins(q, s, n, Len(s))
  BY <1>1, <1>2, <1>3, BeginColumns
<1>5. PlanSignal(p, q, Prepare(p, q), n) = PlanSignal(p, s, Prepare(p, s), n)
  BY <1>2, <1>4, SignalSame
<1>6. Intend(p, q) = IF PlanSignal(p, s, Prepare(p, s), n) = None THEN None
                     ELSE Asked(PlanSignal(p, s, Prepare(p, s), n), n)
  BY <1>1, <1>5 DEF Intend
<1>7. QED
  BY <1>6 DEF q

LEMMA ShownIs ==
    ASSUME NEW p, NEW S, NEW s \in Seq(S), NEW n \in 1..Len(s),
           NEW c, NEW x, NEW next, next = LiveResearch!See(p, Trader(c, x), SubSeq(s, 1, n))
    PROVE  LET u == Walk(p, x, s[n])
               again == Intend(p, SubSeq(s, 1, n))
           IN  /\ x = None => next = Trader(c, again)
               /\ x # None /\ u.status = "OPEN" => next = Trader(c, u)
               /\ x # None /\ u.status = "VOID" => next = Trader(c, again)
               /\ x # None /\ u.status \notin {"OPEN", "VOID"} => next = Trader(Append(c, u), again)
<1> DEFINE q == SubSeq(s, 1, n)
           u == Walk(p, x, s[n])
<1>1. Len(q) = n /\ q[n] = s[n] /\ q[Len(q)] = s[n]
  BY PrefixIs
<1>2. Trader(c, x).closed = c /\ Trader(c, x).position = x
  BY DEF Trader
<1>3. CASE x = None
  <2>1. next = [Trader(c, x) EXCEPT !.position = Intend(p, q)]
    BY <1>2, <1>3 DEF LiveResearch!See
  <2>2. QED
    BY <1>3, <2>1 DEF Trader
<1>4. CASE x # None
  <2>1. next = LiveResearch!Manages(p, Trader(c, x), u, q)
    BY <1>1, <1>2, <1>4 DEF LiveResearch!See
  <2>2. CASE u.status = "OPEN"
    <3>1. next = [Trader(c, x) EXCEPT !.position = u]
      BY <2>1, <2>2 DEF LiveResearch!Manages
    <3>2. QED
      BY <1>4, <2>2, <3>1 DEF Trader
  <2>3. CASE u.status = "VOID"
    <3>1. next = [closed |-> Trader(c, x).closed, position |-> Intend(p, q)]
      BY <2>1, <2>3 DEF LiveResearch!Manages
    <3>2. QED
      BY <1>2, <1>4, <2>3, <3>1 DEF Trader
  <2>4. CASE u.status \notin {"OPEN", "VOID"}
    <3>1. next = [closed |-> Append(Trader(c, x).closed, u), position |-> Intend(p, q)]
      BY <2>1, <2>4 DEF LiveResearch!Manages
    <3>2. QED
      BY <1>2, <1>4, <2>4, <3>1 DEF Trader
  <2>5. QED
    BY <2>2, <2>3, <2>4
<1>5. QED
  BY <1>3, <1>4

\* Trades that have all left by bar n.
Left(q, n) ==
    /\ q \in Seq(ResearchTrades)
    /\ \A j \in 1..Len(q) : q[j].status \notin {"OPEN", "VOID"} /\ q[j].exitAt <= n

LEMMA LeftLater ==
    ASSUME NEW q, NEW n \in Nat, Left(q, n)
    PROVE  Left(q, n + 1)
<1> SUFFICES ASSUME NEW j \in 1..Len(q) PROVE q[j].exitAt <= n + 1
  BY DEF Left
<1>1. q[j] \in ResearchTrades /\ q[j].exitAt <= n
  BY DEF Left
<1>2. q[j].exitAt \in Nat
  BY <1>1 DEF ResearchTrades
<1>3. QED
  BY <1>1, <1>2

LEMMA LeftAppend ==
    ASSUME NEW q, NEW n \in Nat, Left(q, n), NEW u \in ResearchTrades,
           u.status \notin {"OPEN", "VOID"}, u.exitAt <= n
    PROVE  Left(Append(q, u), n)
<1>1. q \in Seq(ResearchTrades)
  BY DEF Left
<1>2. /\ Append(q, u) \in Seq(ResearchTrades) /\ Len(Append(q, u)) = Len(q) + 1 /\ Len(q) \in Nat
      /\ \A j \in 1..Len(q) : Append(q, u)[j] = q[j]
      /\ Append(q, u)[Len(q) + 1] = u
  BY <1>1
<1>3. \A j \in 1..(Len(q) + 1) : j \in 1..Len(q) \/ j = Len(q) + 1
  BY <1>2
<1>4. QED
  BY <1>2, <1>3 DEF Left

LEMMA AppendIs ==
    ASSUME NEW q \in Seq(ResearchTrades), NEW u \in ResearchTrades
    PROVE  /\ Append(q, u) # <<>> /\ Append(q, u)[Len(Append(q, u))] = u
           /\ SubSeq(Append(q, u), 1, Len(Append(q, u)) - 1) = q
<1>1. /\ Append(q, u) \in Seq(ResearchTrades) /\ Len(Append(q, u)) = Len(q) + 1 /\ Len(q) \in Nat
      /\ Append(q, u)[Len(q) + 1] = u
  OBVIOUS
<1>2. (Len(q) + 1) - 1 = Len(q)
  BY <1>1
<1>3. SubSeq(Append(q, u), 1, Len(q)) = q
  OBVIOUS
<1>4. QED
  BY <1>1, <1>2, <1>3

LEMMA NextIs ==
    ASSUME NEW c, NEW n \in Nat, Left(c, n), NEW m \in Nat
    PROVE  /\ NextIndex(c, m) \in Nat /\ (NextIndex(c, m) <= n \/ NextIndex(c, m) = 1)
           /\ \A u \in ResearchTrades :
                 NextIndex(Append(c, u), m) = IF u.status = "OPEN" THEN m + 1 ELSE u.exitAt
<1>1. c \in Seq(ResearchTrades)
  BY DEF Left
<1>2. NextIndex(c, m) \in Nat /\ (NextIndex(c, m) <= n \/ NextIndex(c, m) = 1)
  <2>1. CASE c = <<>>
    BY <2>1 DEF NextIndex
  <2>2. CASE c # <<>>
    <3>1. Len(c) \in 1..Len(c)
      BY <1>1, <2>2
    <3>2. c[Len(c)] \in ResearchTrades /\ c[Len(c)].status # "OPEN" /\ c[Len(c)].exitAt <= n
      BY <1>1, <3>1 DEF Left
    <3>3. c[Len(c)].exitAt \in Nat
      BY <3>2 DEF ResearchTrades
    <3>4. NextIndex(c, m) = c[Len(c)].exitAt
      BY <2>2, <3>2 DEF NextIndex
    <3>5. QED
      BY <3>2, <3>3, <3>4
  <2>3. QED
    BY <2>1, <2>2
<1>3. ASSUME NEW u \in ResearchTrades
      PROVE  NextIndex(Append(c, u), m) = IF u.status = "OPEN" THEN m + 1 ELSE u.exitAt
  BY <1>1, AppendIs DEF NextIndex
<1>4. QED
  BY <1>2, <1>3

\* The loop has the trades that the trader has closed, and the one that will become of
\* the position the trader has.
InStep(p, s, trader, made, n) ==
    \E c, x :
        /\ trader = Trader(c, x) /\ Left(c, n)
        /\ \/ x = None /\ made = c
           \/ \E i \in 1..n : \E e \in Entries : \E f :
                 /\ WalkOf(f, p, e, s, i, Len(s))
                 /\ x = f[n] /\ x.status = "OPEN" /\ x # None
                 /\ made = WithResult(c, f[Len(s)])

\* No position: the same signal asks for the same trade, or for none.
LEMMA DecideInStep ==
    ASSUME ResearchAssumption, NEW p \in Plans, NEW s \in Seq(PriceBars), NEW n \in 1..Len(s),
           NEW c, Left(c, n)
    PROVE  InStep(p, s, Trader(c, Intend(p, SubSeq(s, 1, n))),
                  Scan(p, s, Prepare(p, s), c, n), n)
<1> DEFINE e == PlanSignal(p, s, Prepare(p, s), n)
           columns == Prepare(p, s)
<1>1. n \in Nat /\ Len(s) \in Nat /\ n \in 1..n /\ n \in n..Len(s)
  OBVIOUS
<1>2. Intend(p, SubSeq(s, 1, n)) = IF e = None THEN None ELSE Asked(e, n)
  BY IntendIs
<1>3. Scan(p, s, columns, c, n) = WithEntry(p, s, c, e, n)
  <2>1. NextIndex(c, Len(s)) \in Nat /\ (NextIndex(c, Len(s)) <= n \/ NextIndex(c, Len(s)) = 1)
    BY <1>1, NextIs
  <2>2. ~(n < NextIndex(c, Len(s)))
    BY <1>1, <2>1
  <2>3. QED
    BY <2>2 DEF Scan
<1>4. e \in Entries \cup {None}
  BY SignalTyped
<1> HIDE DEF e, columns
<1>5. CASE e = None
  <2>1. Scan(p, s, columns, c, n) = c
    BY <1>3, <1>5 DEF WithEntry
  <2>2. Intend(p, SubSeq(s, 1, n)) = None
    BY <1>2, <1>5
  <2>3. InStep(p, s, Trader(c, None), c, n)
    BY DEF InStep
  <2>4. QED
    BY <2>1, <2>2, <2>3 DEF columns
<1>6. CASE e # None
  <2>1. e \in Entries
    BY <1>4, <1>6
  <2>2. PICK f : WalkOf(f, p, e, s, n, Len(s)) /\ OpenAndClose(p, e, s, n) = f[Len(s)]
    BY <1>1, OpenAndCloseIs
  <2>3. f[n] = Asked(e, n)
    BY <1>1, <2>2 DEF WalkOf
  <2>4. f[n] # None /\ f[n].status = "OPEN"
    <3>1. Asked(e, n) # None
      BY <1>1, <2>1, AskedTyped
    <3>2. Asked(e, n).status = "OPEN"
      BY DEF Asked
    <3>3. QED
      BY <2>3, <3>1, <3>2
  <2>5. Scan(p, s, columns, c, n) = WithResult(c, f[Len(s)])
    BY <1>3, <1>6, <2>2 DEF WithEntry
  <2>6. Intend(p, SubSeq(s, 1, n)) = f[n]
    BY <1>2, <1>6, <2>3
  <2>7. InStep(p, s, Trader(c, f[n]), WithResult(c, f[Len(s)]), n)
    BY <1>1, <2>1, <2>2, <2>4 DEF InStep
  <2>8. QED
    BY <2>5, <2>6, <2>7 DEF columns
<1>7. QED
  BY <1>5, <1>6

\* A position: the bar manages it.  One that it ends has ended for the loop as well.
LEMMA HeldIs ==
    ASSUME ResearchAssumption, NEW p \in Plans, NEW s \in Seq(PriceBars),
           NEW n \in 0..(Len(s) - 1), NEW c, Left(c, n), NEW i \in 1..n, NEW e \in Entries, NEW f,
           WalkOf(f, p, e, s, i, Len(s)), f[n].status = "OPEN", f[n] # None,
           NEW next, next = LiveResearch!See(p, Trader(c, f[n]), SubSeq(s, 1, n + 1))
    PROVE  LET u == f[n + 1]
               again == Intend(p, SubSeq(s, 1, n + 1))
           IN  /\ u \in ResearchTrades /\ f[Len(s)] \in ResearchTrades
               /\ u.status = "OPEN" =>
                     /\ next = Trader(c, u) /\ f[Len(s)].status # "VOID"
                     /\ f[Len(s)].status # "OPEN" => f[Len(s)].exitAt \in Nat /\ f[Len(s)].exitAt > n + 1
               /\ u.status # "OPEN" => f[Len(s)] = u
               /\ u.status = "VOID" => next = Trader(c, again)
               /\ u.status \notin {"OPEN", "VOID"} =>
                     next = Trader(Append(c, u), again) /\ Left(Append(c, u), n + 1)
<1> DEFINE N == Len(s)
           u == f[n + 1]
           again == Intend(p, SubSeq(s, 1, n + 1))
<1>1. n \in Nat /\ N \in Nat /\ i \in Nat /\ n + 1 <= N /\ i <= n
  OBVIOUS
<1>2. /\ n + 1 \in 1..N /\ n + 1 \in i..N /\ n + 1 # i /\ (n + 1) - 1 = n /\ n \in i..N
      /\ N \in i..N /\ i \in 1..N /\ i + 1 \in i..N /\ n + 1 \in (i + 1)..N
  BY <1>1
<1>3. \A k \in i..N : Walked(f, i, k)
  <2>1. \A k \in 1..N : s[k] \in PriceBars
    OBVIOUS
  <2>2. QED
    BY <1>1, <1>2, <2>1, WalkedAll
<1>4. u = Walk(p, f[n], s[n + 1])
  <2>1. f[n + 1] = IF n + 1 = i THEN Asked(e, i)
                   ELSE IF f[(n + 1) - 1].status = "OPEN"
                   THEN Walk(p, f[(n + 1) - 1], s[n + 1]) ELSE f[(n + 1) - 1]
    BY <1>2 DEF WalkOf
  <2>2. QED
    BY <1>2, <2>1
<1>5. u \in ResearchTrades /\ f[N] \in ResearchTrades
  BY <1>2, <1>3 DEF Walked
<1>6. /\ u.status = "OPEN" => next = Trader(c, u)
      /\ u.status = "VOID" => next = Trader(c, again)
      /\ u.status \notin {"OPEN", "VOID"} => next = Trader(Append(c, u), again)
  BY <1>2, <1>4, ShownIs
<1>7. \A b \in i..N : f[b].status # "OPEN" => \A k \in b..N : f[k] = f[b]
  <2>1. WalkOf(f, p, e, s, i, N) /\ N \in Nat /\ i \in 1..N
    BY <1>1, <1>2
  <2> HIDE DEF N
  <2>2. Rests(f, i, N)
    BY ONLY <2>1, WalkRests
  <2>3. QED
    BY <2>2 DEF Rests
<1>8. u.status # "OPEN" => f[N] = u
  <2>1. N \in (n + 1)..N
    BY <1>1
  <2>2. QED
    BY <1>2, <1>7, <2>1
<1>9. ASSUME u.status = "OPEN"
      PROVE  /\ f[N].status # "VOID"
             /\ f[N].status # "OPEN" => f[N].exitAt \in Nat /\ f[N].exitAt > n + 1
  <2>1. f[N].status # "VOID"
    <3> SUFFICES ASSUME f[N].status = "VOID" PROVE FALSE
      OBVIOUS
    <3>1. f[i + 1].status = "VOID"
      BY <1>2, <1>3 DEF Walked
    <3>2. u = f[i + 1]
      BY <1>2, <1>7, <3>1
    <3>3. QED
      BY <1>9, <3>1, <3>2
  <2>2. ASSUME f[N].status # "OPEN" PROVE f[N].exitAt \in Nat /\ f[N].exitAt > n + 1
    <3>1. f[N].exitAt \in (i + 1)..N /\ f[f[N].exitAt].status # "OPEN"
      BY <1>2, <1>3, <2>1, <2>2 DEF Walked
    <3>2. PICK b \in i..N : b = f[N].exitAt
      BY <1>1, <3>1
    <3>3. ~(b <= n + 1)
      <4> SUFFICES ASSUME b <= n + 1 PROVE FALSE
        OBVIOUS
      <4>1. n + 1 \in b..N
        BY <1>1, <3>2
      <4>2. u = f[b]
        BY <1>7, <3>1, <3>2, <4>1
      <4>3. QED
        BY <1>9, <3>1, <3>2, <4>2
    <3>4. QED
      BY <1>1, <3>2, <3>3
  <2>3. QED
    BY <2>1, <2>2
<1>10. ASSUME u.status \notin {"OPEN", "VOID"} PROVE Left(Append(c, u), n + 1)
  <2>1. u.exitAt \in (i + 1)..(n + 1)
    BY <1>2, <1>3, <1>10 DEF Walked
  <2>2. u.exitAt <= n + 1
    BY <1>1, <2>1
  <2>3. Left(c, n + 1)
    BY <1>1, LeftLater
  <2>4. n + 1 \in Nat
    BY <1>1
  <2> HIDE DEF u
  <2>5. QED
    BY <1>5, <1>10, <2>2, <2>3, <2>4, LeftAppend
<1>11. QED
  BY <1>5, <1>6, <1>8, <1>9, <1>10

LEMMA InStepNext ==
    ASSUME ResearchAssumption, NEW p \in Plans, NEW s \in Seq(PriceBars),
           NEW n \in 0..(Len(s) - 1), NEW trader, NEW made, InStep(p, s, trader, made, n)
    PROVE  InStep(p, s, LiveResearch!See(p, trader, SubSeq(s, 1, n + 1)),
                  Scan(p, s, Prepare(p, s), made, n + 1), n + 1)
<1> DEFINE next == LiveResearch!See(p, trader, SubSeq(s, 1, n + 1))
           columns == Prepare(p, s)
           again == Intend(p, SubSeq(s, 1, n + 1))
<1>1. PICK c, x :
        /\ trader = Trader(c, x) /\ Left(c, n)
        /\ \/ x = None /\ made = c
           \/ \E i \in 1..n : \E e \in Entries : \E f :
                 /\ WalkOf(f, p, e, s, i, Len(s))
                 /\ x = f[n] /\ x.status = "OPEN" /\ x # None
                 /\ made = WithResult(c, f[Len(s)])
  BY DEF InStep
<1>2. /\ n \in Nat /\ Len(s) \in Nat /\ n + 1 \in 1..Len(s) /\ n + 1 \in Nat /\ n + 1 <= Len(s)
      /\ Left(c, n + 1)
  <2>1. n \in Nat /\ Len(s) \in Nat /\ n + 1 \in 1..Len(s) /\ n + 1 \in Nat /\ n + 1 <= Len(s)
    OBVIOUS
  <2>2. QED
    BY <1>1, <2>1, LeftLater
<1>3. \A q : Left(q, n + 1) => InStep(p, s, Trader(q, again), Scan(p, s, columns, q, n + 1), n + 1)
  BY <1>2, DecideInStep
<1> HIDE DEF columns
<1>4. CASE x = None /\ made = c
  <2>1. next = Trader(c, again)
    BY <1>1, <1>2, <1>4, ShownIs
  <2>2. QED
    BY <1>2, <1>3, <1>4, <2>1 DEF columns
<1>5. CASE \E i \in 1..n : \E e \in Entries : \E f :
             /\ WalkOf(f, p, e, s, i, Len(s))
             /\ x = f[n] /\ x.status = "OPEN" /\ x # None
             /\ made = WithResult(c, f[Len(s)])
  <2>1. PICK i \in 1..n, e \in Entries : \E f :
             /\ WalkOf(f, p, e, s, i, Len(s))
             /\ x = f[n] /\ x.status = "OPEN" /\ x # None
             /\ made = WithResult(c, f[Len(s)])
    BY <1>5
  <2>2. PICK f :
             /\ WalkOf(f, p, e, s, i, Len(s))
             /\ x = f[n] /\ x.status = "OPEN" /\ x # None
             /\ made = WithResult(c, f[Len(s)])
    BY <2>1
  <2> DEFINE u == f[n + 1]
             last == f[Len(s)]
  <2>3. next = LiveResearch!See(p, Trader(c, f[n]), SubSeq(s, 1, n + 1))
    BY <1>1, <2>2
  <2>4. f[n].status = "OPEN" /\ f[n] # None
    BY <2>2
  <2>5. /\ u \in ResearchTrades /\ last \in ResearchTrades
        /\ u.status = "OPEN" =>
              /\ next = Trader(c, u) /\ last.status # "VOID"
              /\ last.status # "OPEN" => last.exitAt \in Nat /\ last.exitAt > n + 1
        /\ u.status # "OPEN" => last = u
        /\ u.status = "VOID" => next = Trader(c, again)
        /\ u.status \notin {"OPEN", "VOID"} =>
              next = Trader(Append(c, u), again) /\ Left(Append(c, u), n + 1)
    <3> HIDE DEF next
    <3>1. QED
      BY <1>1, <2>2, <2>3, <2>4, HeldIs
  <2>6. CASE u.status = "OPEN"
    <3>1. made = Append(c, last)
      BY <2>2, <2>5, <2>6 DEF WithResult
    <3>2. NextIndex(made, Len(s)) = IF last.status = "OPEN" THEN Len(s) + 1 ELSE last.exitAt
      <4>1. Left(c, n) /\ n \in Nat /\ Len(s) \in Nat /\ last \in ResearchTrades
        BY <1>1, <1>2, <2>5
      <4> HIDE DEF last
      <4>2. NextIndex(Append(c, last), Len(s))
             = IF last.status = "OPEN" THEN Len(s) + 1 ELSE last.exitAt
        BY <4>1, NextIs
      <4>3. QED
        BY <3>1, <4>2
    <3>3. n + 1 < NextIndex(made, Len(s))
      BY <1>2, <2>5, <2>6, <3>2
    <3>4. Scan(p, s, columns, made, n + 1) = made
      BY <3>3 DEF Scan
    <3>5. next = Trader(c, u) /\ u # None
      BY <2>5, <2>6 DEF ResearchAssumption
    <3>6. i \in 1..(n + 1)
      BY <1>2
    <3> HIDE DEF next
    <3>7. InStep(p, s, next, made, n + 1)
      BY <1>2, <2>2, <2>6, <3>5, <3>6 DEF InStep
    <3>8. QED
      BY <3>4, <3>7 DEF columns, next
  <2>7. CASE u.status = "VOID"
    <3>1. made = c /\ next = Trader(c, again)
      BY <2>2, <2>5, <2>7 DEF WithResult
    <3>2. QED
      BY <1>2, <1>3, <3>1 DEF columns
  <2>8. CASE u.status \notin {"OPEN", "VOID"}
    <3>1. /\ made = Append(c, u) /\ next = Trader(Append(c, u), again)
          /\ Left(Append(c, u), n + 1)
      BY <2>2, <2>5, <2>8 DEF WithResult
    <3>2. QED
      BY <1>3, <3>1 DEF columns
  <2>9. QED
    BY <2>6, <2>7, <2>8
<1>6. QED
  BY <1>1, <1>4, <1>5

LEMMA InStepAll ==
    ASSUME ResearchAssumption, NEW p \in Plans, NEW s \in Seq(PriceBars),
           NEW A, ShownOf(A, p, s, Len(s)), NEW L, ScanOf(L, p, s, Prepare(p, s), Len(s))
    PROVE  \A n \in 0..Len(s) : InStep(p, s, A[n], L[n], n)
<1> DEFINE G == {n \in 0..Len(s) : InStep(p, s, A[n], L[n], n)}
<1>1. Len(s) \in Nat /\ 0 \in 0..Len(s)
  OBVIOUS
<1>2. 0 \in G
  <2>1. A[0] = Trader(<<>>, None)
    BY <1>1 DEF ShownOf, Fresh, Trader
  <2>2. L[0] = <<>>
    BY <1>1 DEF ScanOf
  <2>3. Left(<<>>, 0)
    BY DEF Left
  <2>4. InStep(p, s, Trader(<<>>, None), <<>>, 0)
    BY <2>3 DEF InStep
  <2>5. QED
    BY <1>1, <2>1, <2>2, <2>4
<1>3. ASSUME NEW n \in 0..(Len(s) - 1), n \in G PROVE n + 1 \in G
  <2>1. n + 1 \in 0..Len(s) /\ n + 1 # 0 /\ (n + 1) - 1 = n
    BY <1>1
  <2>2. A[n + 1] = LiveResearch!See(p, A[n], SubSeq(s, 1, n + 1))
    BY <2>1 DEF ShownOf
  <2>3. L[n + 1] = Scan(p, s, Prepare(p, s), L[n], n + 1)
    BY <2>1 DEF ScanOf
  <2>4. InStep(p, s, A[n], L[n], n)
    BY <1>3
  <2>5. QED
    BY <2>1, <2>2, <2>3, <2>4, InStepNext
<1> HIDE DEF G
<1>4. \A n \in 0..Len(s) : n \in G
  BY <1>1, <1>2, <1>3, Climb
<1>5. QED
  BY <1>4 DEF G

LEMMA ExitedIs ==
    ASSUME NEW c, NEW n, Left(c, n)
    PROVE  /\ Exited(c) = c
           /\ \A u \in ResearchTrades :
                 Exited(Append(c, u)) = IF u.status = "OPEN" THEN c ELSE Append(c, u)
<1>1. c \in Seq(ResearchTrades)
  BY DEF Left
<1>2. Exited(c) = c
  <2>1. CASE c = <<>>
    BY <2>1 DEF Exited
  <2>2. CASE c # <<>>
    <3>1. Len(c) \in 1..Len(c)
      BY <1>1, <2>2
    <3>2. c[Len(c)].status # "OPEN"
      BY <3>1 DEF Left
    <3>3. QED
      BY <2>2, <3>2 DEF Exited
  <2>3. QED
    BY <2>1, <2>2
<1>3. ASSUME NEW u \in ResearchTrades
      PROVE  Exited(Append(c, u)) = IF u.status = "OPEN" THEN c ELSE Append(c, u)
  BY <1>1, AppendIs DEF Exited
<1>4. QED
  BY <1>2, <1>3

\* The loop stops one bar before the last, which only can end the last trade.
LEMMA SameExits ==
    ASSUME ResearchAssumption, NEW p \in Plans, NEW s \in Seq(PriceBars), s # <<>>
    PROVE  Exited(Run(p, s)) = LiveResearch!LiveTrades(p, s)
<1> DEFINE n == Len(s) - 1
<1>1. Len(s) \in Nat /\ Len(s) # 0
  OBVIOUS
<1>2. /\ n \in 0..(Len(s) - 1) /\ n \in 0..Len(s) /\ n + 1 = Len(s) /\ n \in Nat
      /\ n + 1 \in 1..Len(s)
  BY <1>1
<1>3. PICK L : ScanOf(L, p, s, Prepare(p, s), Len(s)) /\ Run(p, s) = L[n]
  BY <1>1, RunOverIs DEF Run
<1>4. PICK A : ShownOf(A, p, s, Len(s)) /\ LiveResearch!LiveTrades(p, s) = A[Len(s)].closed
  BY <1>1, ShownTradesAre
<1>5. InStep(p, s, A[n], L[n], n)
  BY <1>2, <1>3, <1>4, InStepAll
<1>6. A[Len(s)] = LiveResearch!See(p, A[n], SubSeq(s, 1, n + 1))
  <2>1. Len(s) \in 0..Len(s) /\ Len(s) # 0 /\ Len(s) - 1 = n
    BY <1>1, <1>2
  <2>2. A[Len(s)] = LiveResearch!See(p, A[Len(s) - 1], SubSeq(s, 1, Len(s)))
    BY <1>4, <2>1 DEF ShownOf
  <2>3. QED
    BY <1>2, <2>2
<1> HIDE DEF n
<1>7. PICK c, x :
        /\ A[n] = Trader(c, x) /\ Left(c, n)
        /\ \/ x = None /\ L[n] = c
           \/ \E i \in 1..n : \E e \in Entries : \E f :
                 /\ WalkOf(f, p, e, s, i, Len(s))
                 /\ x = f[n] /\ x.status = "OPEN" /\ x # None
                 /\ L[n] = WithResult(c, f[Len(s)])
  BY <1>5 DEF InStep
<1>8. CASE x = None /\ L[n] = c
  <2>1. A[Len(s)] = Trader(c, Intend(p, SubSeq(s, 1, n + 1)))
    BY <1>2, <1>6, <1>7, <1>8, ShownIs
  <2>2. A[Len(s)].closed = c
    BY <2>1 DEF Trader
  <2>3. Exited(c) = c
    BY <1>7, ExitedIs
  <2>4. QED
    BY <1>3, <1>4, <1>8, <2>2, <2>3
<1>9. CASE \E i \in 1..n : \E e \in Entries : \E f :
             /\ WalkOf(f, p, e, s, i, Len(s))
             /\ x = f[n] /\ x.status = "OPEN" /\ x # None
             /\ L[n] = WithResult(c, f[Len(s)])
  <2>1. PICK i \in 1..n, e \in Entries : \E f :
             /\ WalkOf(f, p, e, s, i, Len(s))
             /\ x = f[n] /\ x.status = "OPEN" /\ x # None
             /\ L[n] = WithResult(c, f[Len(s)])
    BY <1>9
  <2>2. PICK f :
             /\ WalkOf(f, p, e, s, i, Len(s))
             /\ x = f[n] /\ x.status = "OPEN" /\ x # None
             /\ L[n] = WithResult(c, f[Len(s)])
    BY <2>1
  <2> DEFINE u == f[Len(s)]
             again == Intend(p, SubSeq(s, 1, n + 1))
  <2>3. /\ A[Len(s)] = LiveResearch!See(p, Trader(c, f[n]), SubSeq(s, 1, n + 1))
        /\ f[n].status = "OPEN" /\ f[n] # None
    BY <1>6, <1>7, <2>2
  <2>4. /\ u \in ResearchTrades
        /\ u.status = "OPEN" => A[Len(s)] = Trader(c, u)
        /\ u.status = "VOID" => A[Len(s)] = Trader(c, again)
        /\ u.status \notin {"OPEN", "VOID"} => A[Len(s)] = Trader(Append(c, u), again)
    BY <1>2, <1>7, <2>2, <2>3, HeldIs
  <2>5. u.status \notin {"OPEN", "VOID"} => A[Len(s)].closed = Append(c, u)
    BY <2>4 DEF Trader
  <2>6. u.status \in {"OPEN", "VOID"} => A[Len(s)].closed = c
    BY <2>4 DEF Trader
  <2>7. Exited(WithResult(c, u)) = IF u.status \in {"OPEN", "VOID"} THEN c ELSE Append(c, u)
    BY <1>7, <2>4, ExitedIs DEF WithResult
  <2>8. QED
    BY <1>3, <1>4, <2>2, <2>5, <2>6, <2>7
<1>10. QED
  BY <1>7, <1>8, <1>9

-----------------------------------------------------------------------------
(* The theorems *)

SeriesDownloaded ==
    plan \in Plans /\ series \in Seq(PriceBars) /\ Len(series) \in Len(FirstBars)..MaxSeries

LEMMA SeriesInit ==
    ASSUME ResearchAssumption PROVE ResearchInit => SeriesDownloaded
<1>1. FirstBars \in Seq(PriceBars) /\ Len(FirstBars) \in Nat /\ MaxSeries \in Nat
      /\ Len(FirstBars) <= MaxSeries
  BY DEF ResearchAssumption
<1>2. Len(FirstBars) \in Len(FirstBars)..MaxSeries
  BY <1>1
<1>3. QED
  BY <1>1, <1>2 DEF ResearchInit, SeriesDownloaded

LEMMA SeriesNext ==
    ASSUME ResearchAssumption
    PROVE  SeriesDownloaded /\ [ResearchNext]_researchVars => SeriesDownloaded'
<1> SUFFICES ASSUME SeriesDownloaded, [ResearchNext]_researchVars PROVE SeriesDownloaded'
  OBVIOUS
<1>1. CASE ResearchNext
  <2>1. PICK bar \in ResearchBars : NextBar(bar)
    BY <1>1 DEF ResearchNext
  <2>2. /\ series \in Seq(PriceBars) /\ bar \in PriceBars /\ Len(series) < MaxSeries
        /\ series' = Append(series, bar) /\ plan' = plan /\ plan \in Plans
    BY <2>1 DEF SeriesDownloaded, NextBar, ResearchAssumption
  <2>3. series' \in Seq(PriceBars) /\ Len(series') = Len(series) + 1
    BY <2>2
  <2>4. /\ Len(FirstBars) \in Nat /\ MaxSeries \in Nat
        /\ Len(series) \in Len(FirstBars)..MaxSeries
    BY DEF ResearchAssumption, SeriesDownloaded
  <2>5. Len(series') \in Len(FirstBars)..MaxSeries
    BY <2>2, <2>3, <2>4
  <2>6. QED
    BY <2>2, <2>3, <2>5 DEF SeriesDownloaded
<1>2. CASE UNCHANGED researchVars
  BY <1>2 DEF SeriesDownloaded, researchVars
<1>3. QED
  BY <1>1, <1>2

LEMMA SeriesInvariance == ASSUME ResearchAssumption PROVE ResearchSpec => []SeriesDownloaded
<1>1. ResearchInit => SeriesDownloaded
  BY SeriesInit
<1>2. SeriesDownloaded /\ [ResearchNext]_researchVars => SeriesDownloaded'
  BY SeriesNext
<1>3. QED
  BY <1>1, <1>2, PTL DEF ResearchSpec

\* The plan of a research run stays, and its series only grows.
THEOREM ResearchTypeCorrect == ASSUME ResearchAssumption PROVE ResearchSpec => []ResearchTypeOK
<1>1. SeriesDownloaded => ResearchTypeOK
  BY DEF SeriesDownloaded, ResearchTypeOK
<1>2. QED
  BY <1>1, SeriesInvariance, PTL

(***************************************************************************)
(* Whatever the bars, the strategy, its periods and its exit rules: though *)
(* every indicator column is computed over the whole series first, the     *)
(* closed trades of the harness are those of a trader who is shown one bar *)
(* after the other and computes the columns anew from those bars alone, so *)
(* no column reads a bar that comes after the one it stands at.            *)
(***************************************************************************)
THEOREM DecidedOnPrinted == ASSUME ResearchAssumption PROVE ResearchSpec => []ResearchIsLive
<1>1. SeriesDownloaded => ResearchIsLive
  <2> SUFFICES ASSUME SeriesDownloaded PROVE ResearchIsLive
    OBVIOUS
  <2>1. plan \in Plans /\ series \in Seq(PriceBars)
    BY DEF SeriesDownloaded
  <2>2. series # <<>>
    <3>1. /\ FirstBars \in Seq(PriceBars) /\ FirstBars # <<>> /\ Len(FirstBars) \in Nat
          /\ MaxSeries \in Nat /\ Len(series) \in Len(FirstBars)..MaxSeries
      BY DEF SeriesDownloaded, ResearchAssumption
    <3>2. Len(FirstBars) # 0
      BY <3>1
    <3>3. Len(series) # 0
      BY <3>1, <3>2
    <3>4. QED
      BY <3>3
  <2>3. QED
    BY <2>1, <2>2, SameExits DEF ResearchIsLive
<1>2. QED
  BY <1>1, SeriesInvariance, PTL
============================================================================

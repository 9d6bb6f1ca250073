---------------------------- MODULE History_proofs -----------------------------
(***************************************************************************)
(* Proofs about what is played on stored history.  Backtest, for any       *)
(* candles, strategy, sizes of the windows and exit rules: the loop over   *)
(* them makes the trades of a trader who is shown one candle after the     *)
(* other.  WalkForward and Portfolio, for any lengths, fractions, offers,  *)
(* number of windows and limits of the account: nothing is reported that   *)
(* was picked in view of it, and all slices trade as one account would.    *)
(* Sweep, for any search space, sample, backtest, timeframes, days, limits *)
(* candles, other tables and settings: a finished sweep is complete and    *)
(* ranked, and each row computed on its candles and in its world is what   *)
(* a fresh backtest would have given.                                      *)
(***************************************************************************)
EXTENDS Backtest, WalkForward, Sweep, FiniteSetTheorems, SequenceTheorems, WellFoundedInduction, TLAPS

(* ------------------------------- the backtest ------------------------------- *)

(* Induction on numbers, for a set *)

LEMMA LeastNumber ==
    ASSUME NEW B \in SUBSET Nat, B # {}
    PROVE  \E n \in B : \A m \in B : n <= m
<1> DEFINE R == OpToRel(<, Nat)
<1>1. IsWellFoundedOn(R, Nat)
  BY NatLessThanWellFounded
<1>2. \A m, n \in Nat : m < n => <<m, n>> \in R
  BY DEF OpToRel
<1> HIDE DEF R
<1>3. PICK n \in B : \A m \in B : ~(<<m, n>> \in R)
  BY <1>1, WFMin
<1>4. \A m \in B : ~(m < n)
  BY <1>2, <1>3
<1>5. QED
  BY <1>3, <1>4

LEMMA Climb ==
    ASSUME NEW G, NEW a \in Nat, NEW b \in Nat, a <= b => a \in G,
           \A n \in a..(b - 1) : n \in G => n + 1 \in G
    PROVE  \A n \in a..b : n \in G
<1> DEFINE Bad == {n \in a..b : n \notin G}
<1> SUFFICES ASSUME Bad # {} PROVE FALSE
  OBVIOUS
<1>1. Bad \in SUBSET Nat
  OBVIOUS
<1>2. PICK n \in Bad : \A m \in Bad : n <= m
  BY <1>1, LeastNumber
<1>3. n \in a..b /\ n \notin G
  OBVIOUS
<1>4. n # a /\ a \in Nat /\ b \in Nat /\ n \in Int
  BY <1>3
<1>5. n - 1 \in a..(b - 1) /\ n - 1 \in a..b /\ n - 1 < n /\ (n - 1) + 1 = n
  BY <1>3, <1>4
<1>6. n - 1 \in G
  BY <1>2, <1>5
<1>7. QED
  BY <1>3, <1>5, <1>6

LEMMA GreatestExists ==
    ASSUME NEW S \in SUBSET Nat, S # {}, NEW b \in Nat, \A x \in S : x <= b
    PROVE  Max(S) \in S
<1> DEFINE B == {n \in Nat : \A x \in S : x <= n}
<1>1. PICK n \in B : \A m \in B : n <= m
  <2>1. b \in B /\ B \in SUBSET Nat
    OBVIOUS
  <2>2. QED
    BY <2>1, LeastNumber
<1>2. n \in S
  <2> SUFFICES ASSUME n \notin S PROVE FALSE
    OBVIOUS
  <2>1. \A x \in S : x \in Nat /\ x <= n /\ x # n
    OBVIOUS
  <2>2. n \in Nat /\ n # 0
    <3>1. PICK x \in S : TRUE
      OBVIOUS
    <3>2. QED
      BY <2>1, <3>1
  <2>3. n - 1 \in B
    BY <2>1, <2>2
  <2>4. QED
    BY <1>1, <2>2, <2>3
<1>3. \E x \in S : \A y \in S : x >= y
  BY <1>2
<1>4. QED
  BY <1>3 DEF Max

-----------------------------------------------------------------------------
(* What is decided at a candle is read from the candles up to it *)

LEMMA PartIs ==
    ASSUME NEW S, NEW s \in Seq(S), NEW m \in 1..Len(s), NEW n \in m..Len(s)
    PROVE  /\ SubSeq(s, m, n) \in Seq(S) /\ Len(SubSeq(s, m, n)) = n - m + 1
           /\ \A i \in 1..(n - m + 1) : SubSeq(s, m, n)[i] = s[m + i - 1]
<1>1. m \in Nat /\ n \in Nat /\ m >= 1 /\ n <= Len(s) /\ m <= n /\ Len(s) \in Nat
  OBVIOUS
<1>2. QED
  BY <1>1

LEMMA PrefixIs ==
    ASSUME NEW S, NEW s \in Seq(S), NEW n \in 1..Len(s)
    PROVE  /\ SubSeq(s, 1, n) \in Seq(S) /\ Len(SubSeq(s, 1, n)) = n
           /\ \A i \in 1..n : SubSeq(s, 1, n)[i] = s[i]
<1>1. n \in Nat /\ 1 \in 1..Len(s) /\ n \in 1..Len(s) /\ n - 1 + 1 = n
  OBVIOUS
<1>2. \A i \in 1..n : 1 + i - 1 = i
  OBVIOUS
<1>3. QED
  BY <1>1, <1>2, PartIs

LEMMA PartOfPrefix ==
    ASSUME NEW S, NEW s \in Seq(S), NEW n \in 1..Len(s), NEW m \in 1..n
    PROVE  SubSeq(SubSeq(s, 1, n), m, n) = SubSeq(s, m, n)
<1> DEFINE q == SubSeq(s, 1, n)
           a == SubSeq(q, m, n)
           b == SubSeq(s, m, n)
<1>1. n \in Nat /\ m \in Nat /\ m <= n /\ n <= Len(s) /\ Len(s) \in Nat /\ 1 <= m
  OBVIOUS
<1>2. q \in Seq(S) /\ Len(q) = n /\ \A i \in 1..n : q[i] = s[i]
  BY PrefixIs
<1>3. m \in 1..Len(s) /\ n \in m..Len(s)
  BY <1>1
<1>4. b \in Seq(S) /\ Len(b) = n - m + 1 /\ \A i \in 1..(n - m + 1) : b[i] = s[m + i - 1]
  BY <1>3, PartIs
<1> HIDE DEF q, b
<1>5. a \in Seq(S) /\ Len(a) = n - m + 1 /\ \A i \in 1..(n - m + 1) : a[i] = q[m + i - 1]
  BY <1>1, <1>2, PartIs
<1>6. \A i \in 1..(n - m + 1) : m + i - 1 \in 1..n
  BY <1>1
<1>7. \A i \in 1..(n - m + 1) : a[i] = b[i]
  BY <1>2, <1>4, <1>5, <1>6
<1> HIDE DEF a
<1>8. a = b
  BY <1>4, <1>5, <1>7
<1>9. QED
  BY <1>8 DEF a, b, q

LEMMA SamePoint ==
    ASSUME NEW S, NEW s \in Seq(S), NEW n \in 1..Len(s), NEW t \in Seq(S),
           \A i \in 1..n : t[i] = s[i]
    PROVE  PointAt(t, n) = PointAt(s, n)
<1> DEFINE held(bars) == {j \in 1..n : bars[j].point # None /\ n - j <= MaxAge}
<1>1. held(t) = held(s)
  OBVIOUS
<1>2. CASE held(s) = {}
  BY <1>1, <1>2 DEF PointAt
<1>3. CASE held(s) # {}
  <2>1. held(s) \in SUBSET Nat /\ n \in Nat /\ \A x \in held(s) : x <= n
    OBVIOUS
  <2>2. Max(held(s)) \in held(s)
    BY <1>3, <2>1, GreatestExists
  <2>3. Max(held(s)) \in 1..n
    BY <2>2
  <2>4. PointAt(t, n) = t[Max(held(s))].point /\ PointAt(s, n) = s[Max(held(s))].point
    BY <1>1, <1>3 DEF PointAt
  <2>5. QED
    BY <2>3, <2>4
<1>4. QED
  BY <1>2, <1>3

LEMMA MaxOfTwo ==
    ASSUME NEW a \in Int, NEW b \in Int
    PROVE  Max({a, b}) = IF a >= b THEN a ELSE b
BY DEF Max

LEMMA DecidedFromPrefix ==
    ASSUME BacktestAssumption, NEW p, NEW S, NEW s \in Seq(S), NEW n \in 1..Len(s)
    PROVE  SignalAt(p, SubSeq(s, 1, n), n) = SignalAt(p, s, n)
<1> DEFINE q == SubSeq(s, 1, n)
           m == Max({1, n + 1 - SnapshotWindow})
<1>1. q \in Seq(S) /\ Len(q) = n /\ \A i \in 1..n : q[i] = s[i]
  BY PrefixIs
<1>2. PointAt(q, n) = PointAt(s, n)
  BY <1>1, SamePoint
<1>3. m \in 1..n
  <2>1. SnapshotWindow \in Nat \ {0} /\ n \in Nat \ {0}
    BY DEF BacktestAssumption
  <2>2. 1 \in Int /\ n + 1 - SnapshotWindow \in Int
    BY <2>1
  <2>3. m = IF 1 >= n + 1 - SnapshotWindow THEN 1 ELSE n + 1 - SnapshotWindow
    BY <2>2, MaxOfTwo
  <2>4. QED
    BY <2>1, <2>3
<1>4. SubSeq(q, m, n) = SubSeq(s, m, n)
  BY <1>3, PartOfPrefix
<1>5. QED
  BY <1>2, <1>4 DEF SignalAt

-----------------------------------------------------------------------------
(* A trade from candle to candle *)

LEMMA DirectionOfSignal ==
    ASSUME NEW long, NEW points, NEW stop \in Int, NEW take \in Int
    PROVE  /\ Signal(long, points, stop, take).direction \in {"LONG", "SHORT"}
           /\ Signal(long, points, stop, take).stop \in Int
           /\ Signal(long, points, stop, take).take \in Int
BY DEF Signal

SignalIsTyped(signal) ==
    signal.direction \in {"LONG", "SHORT"} /\ signal.stop \in Int /\ signal.take \in Int

LEMMA DecisionIs ==
    ASSUME BacktestAssumption, NEW name \in StrategyNames, NEW s, Decision(name, s) # None
    PROVE  SignalIsTyped(Decision(name, s))
<1>1. CASE name = "oi_pump_price_move"
  <2>1. Decision(name, s) = OIPumpPriceMove(s)
    BY <1>1 DEF Decision
  <2>2. QED
    BY <2>1, DirectionOfSignal DEF OIPumpPriceMove, SignalIsTyped
<1>2. CASE name = "oi_momentum_scalper"
  <2>1. Decision(name, s) = OIMomentumScalper(s)
    BY <1>2 DEF Decision
  <2>2. QED
    BY <2>1, DirectionOfSignal DEF OIMomentumScalper, SignalIsTyped
<1>3. CASE name = "stop_hunt_sweep"
  <2>1. Decision(name, s) = StopHuntSweep(s)
    BY <1>3 DEF Decision
  <2>2. QED
    BY <2>1, DirectionOfSignal DEF StopHuntSweep, SignalIsTyped
<1>4. CASE name = "micro_stop_hunt_reclaim"
  <2>1. Decision(name, s) = MicroStopHuntReclaim(s)
    BY <1>4 DEF Decision
  <2>2. QED
    BY <2>1, DirectionOfSignal DEF MicroStopHuntReclaim, SignalIsTyped
<1>5. CASE name = "failed_breakout_fade"
  <2>1. Decision(name, s) = FailedBreakoutFade(s)
    BY <1>5 DEF Decision
  <2>2. QED
    BY <2>1, DirectionOfSignal DEF FailedBreakoutFade, SignalIsTyped
<1>6. CASE name = "trend_pullback_scalper"
  <2>1. Decision(name, s) = TrendPullbackScalper(s)
    BY <1>6 DEF Decision
  <2>2. QED
    BY <2>1, DirectionOfSignal DEF TrendPullbackScalper, SignalIsTyped
<1>7. CASE name = "density_strategy"
  <2>1. Decision(name, s) = DensityStrategy(s)
    BY <1>7 DEF Decision
  <2>2. DensityRules.stop \in Int /\ DensityRules.takeRR \in Int
    BY DEF BacktestAssumption
  <2>3. (DensityRules.stop * DensityRules.takeRR) \div 100 \in Int
    BY <2>2
  <2>4. QED
    BY <2>1, <2>2, <2>3, DirectionOfSignal DEF DensityStrategy, SignalIsTyped
<1>8. QED
  BY <1>1, <1>2, <1>3, <1>4, <1>5, <1>6, <1>7 DEF StrategyNames

LEMMA SignalAtIs ==
    ASSUME BacktestAssumption, NEW p \in BacktestSetups, NEW s, NEW n, SignalAt(p, s, n) # None
    PROVE  SignalIsTyped(SignalAt(p, s, n))
<1> DEFINE shown == SnapshotOf(SubSeq(s, Max({1, n + 1 - SnapshotWindow}), n), PointAt(s, n))
<1>1. SignalAt(p, s, n) = Decision(p.strategy, shown) /\ Decision(p.strategy, shown) # None
  BY DEF SignalAt
<1>2. p.strategy \in StrategyNames
  BY DEF BacktestAssumption
<1> HIDE DEF shown
<1>3. QED
  BY <1>1, <1>2, DecisionIs

Bar(c) == c.low \in Int /\ c.high \in Int /\ c.close \in Int

LEMMA EnterIs ==
    ASSUME NEW signal, SignalIsTyped(signal), NEW s, NEW n \in Nat, s[n].close \in Int
    PROVE  LET t == Enter(signal, s, n)
           IN  t \in Positions /\ t.at = n /\ t.bars = 0 /\ t.status = "OPEN"
<1> DEFINE entry == s[n].close
           way == IF signal.direction = "LONG" THEN 1 ELSE -1
           t == Enter(signal, s, n)
<1>1. entry \in Int /\ way \in Int /\ signal.stop \in Int /\ signal.take \in Int
  BY DEF SignalIsTyped
<1>2. t = [direction |-> signal.direction, entry |-> entry, at |-> n, bars |-> 0,
           best |-> entry, first |-> entry * (10000 - way * signal.stop),
           stop |-> entry * (10000 - way * signal.stop),
           take |-> entry * (10000 + way * signal.take),
           partial |-> FALSE, status |-> "OPEN", exit |-> 0, exitAt |-> 0]
  BY DEF Enter
<1> HIDE DEF entry, way, t
<1>3. /\ entry * (10000 - way * signal.stop) \in Int
      /\ entry * (10000 + way * signal.take) \in Int
  BY <1>1
<1>4. t \in Positions /\ t.at = n /\ t.bars = 0 /\ t.status = "OPEN"
  BY <1>1, <1>2, <1>3 DEF Positions, SignalIsTyped
<1>5. QED
  BY <1>4 DEF t

Counted(t, bars, best, partial) == [t EXCEPT !.bars = bars, !.best = best, !.partial = partial]

LEMMA CountedIs ==
    ASSUME NEW t \in Positions, NEW bars \in Nat, NEW best \in Int, NEW partial \in BOOLEAN
    PROVE  /\ Counted(t, bars, best, partial) \in Positions
           /\ Counted(t, bars, best, partial).bars = bars
           /\ Counted(t, bars, best, partial).at = t.at
           /\ Counted(t, bars, best, partial).status = t.status
BY DEF Positions, Counted

LEMMA TighterIs ==
    ASSUME NEW t, NEW a \in Int, NEW b \in Int
    PROVE  Tighter(t, a, b) \in Int
BY DEF Tighter

LEMMA MovedIs ==
    ASSUME NEW rules, rules.distance \in Int, NEW q \in Positions, NEW c
    PROVE  Moved(rules, q, c) \in Int
<1>1. Way(q) \in Int /\ q.stop \in Int /\ q.entry \in Int /\ q.best \in Int
  BY DEF Way, Positions
<1>2. PICK e \in Int : e = q.entry * 10000
  BY <1>1
<1>3. PICK d \in Int : d = q.best * (10000 - Way(q) * rules.distance)
  BY <1>1
<1> DEFINE even == IF Reached(q, c, rules.breakeven) THEN Tighter(q, q.stop, e) ELSE q.stop
           trail == Tighter(q, e, d)
<1>4. even \in Int /\ trail \in Int
  BY <1>1, TighterIs
<1>5. Moved(rules, q, c) = IF Reached(q, c, rules.trailing) THEN Tighter(q, even, trail) ELSE even
  BY <1>2, <1>3 DEF Moved
<1> HIDE DEF even, trail
<1>6. QED
  BY <1>4, <1>5, TighterIs

LEMMA OneBarIs ==
    ASSUME BacktestAssumption, NEW p \in BacktestSetups,
           NEW t \in Positions, t.status = "OPEN", NEW c, Bar(c)
    PROVE  LET u == OneBar(p, t, c)
           IN  /\ u \in Positions /\ u.at = t.at /\ u.bars = t.bars + 1
               /\ u.status # "OPEN" => u.exitAt = u.at + u.bars
<1> DEFINE u == OneBar(p, t, c)
           best == Tighter(t, t.best, Favourable(t, c))
           partial == t.partial \/ Reached(t, c, p.rules.partial)
           q == [t EXCEPT !.bars = @ + 1, !.best = best, !.partial = partial]
           moved == Moved(p.rules, q, c)
<1>1. c.low \in Int /\ c.high \in Int /\ c.close \in Int
  BY DEF Bar
<1>2. best \in Int
  BY <1>1 DEF Tighter, Favourable, Positions
<1>3. partial \in BOOLEAN
  BY DEF Reached, Positions
<1> HIDE DEF best, partial
<1>4. q \in Positions /\ q.bars = t.bars + 1 /\ q.at = t.at /\ q.status = "OPEN"
  <2>1. t.bars + 1 \in Nat
    BY DEF Positions
  <2>2. q = Counted(t, t.bars + 1, best, partial)
    BY DEF Counted
  <2> HIDE DEF q
  <2>3. QED
    BY <1>2, <1>3, <2>1, <2>2, CountedIs
<1>5. moved \in Int
  <2>1. p.rules.distance \in Int
    BY DEF BacktestAssumption
  <2> HIDE DEF q
  <2>2. QED
    BY <1>4, <2>1, MovedIs
<1>6. /\ [q EXCEPT !.stop = moved] \in Positions
      /\ \A status \in {"SL", "BE", "TP", "TIMEOUT"}, price \in Int :
            LET v == LeftAt(q, status, price)
            IN  /\ v \in Positions /\ v.at = q.at /\ v.bars = q.bars
                /\ v.status = status /\ v.exitAt = v.at + v.bars
  <2> HIDE DEF q, moved
  <2>1. [q EXCEPT !.stop = moved] \in Positions
    BY <1>4, <1>5 DEF Positions
  <2>2. ASSUME NEW status \in {"SL", "BE", "TP", "TIMEOUT"}, NEW price \in Int
        PROVE  LET v == LeftAt(q, status, price)
               IN  /\ v \in Positions /\ v.at = q.at /\ v.bars = q.bars
                   /\ v.status = status /\ v.exitAt = v.at + v.bars
    <3>1. q.at + q.bars \in Nat
      BY <1>4 DEF Positions
    <3>2. QED
      BY <1>4, <3>1 DEF Positions, LeftAt
  <2>3. QED
    BY <2>1, <2>2
<1>7. q.stop \in Int /\ q.take \in Int /\ c.close * 10000 \in Int
  BY <1>1, <1>4 DEF Positions
<1>8. \/ \E status \in {"SL", "BE", "TP", "TIMEOUT"}, price \in Int : u = LeftAt(q, status, price)
      \/ u = [q EXCEPT !.stop = moved]
  BY <1>7 DEF OneBar, best, partial
<1> HIDE DEF q, moved, u
<1>9. [q EXCEPT !.stop = moved].status = "OPEN" /\ [q EXCEPT !.stop = moved].at = q.at
      /\ [q EXCEPT !.stop = moved].bars = q.bars
  BY <1>4 DEF Positions
<1>10. /\ u \in Positions /\ u.at = t.at /\ u.bars = t.bars + 1
       /\ u.status # "OPEN" => u.exitAt = u.at + u.bars
  <2>1. CASE u = [q EXCEPT !.stop = moved]
    BY <1>4, <1>6, <1>9, <2>1
  <2>2. ASSUME NEW status \in {"SL", "BE", "TP", "TIMEOUT"}, NEW price \in Int,
               u = LeftAt(q, status, price)
        PROVE  u \in Positions /\ u.at = t.at /\ u.bars = t.bars + 1 /\ u.exitAt = u.at + u.bars
    BY <1>4, <1>6, <2>2
  <2>3. QED
    BY <1>8, <2>1, <2>2
<1>11. QED
  BY <1>10 DEF u

-----------------------------------------------------------------------------
(* The candles after an entry *)

RunOf(f, p, signal, s, i, n) ==
    f = [k \in i..n |-> IF k = i THEN Enter(signal, s, i)
                        ELSE IF f[k - 1].status = "OPEN" THEN OneBar(p, f[k - 1], s[k])
                        ELSE f[k - 1]]

LEMMA RunExists ==
    ASSUME NEW p, NEW signal, NEW s, NEW i \in Nat, NEW n \in Nat, i <= n
    PROVE  \E f : RunOf(f, p, signal, s, i, n)
<1> DEFINE G == {m \in i..n : \E f : RunOf(f, p, signal, s, i, m)}
<1>1. i \in G
  <2>1. RunOf([k \in i..i |-> Enter(signal, s, i)], p, signal, s, i, i)
    BY DEF RunOf
  <2>2. QED
    BY <2>1
<1>2. ASSUME NEW m \in i..(n - 1), m \in G PROVE m + 1 \in G
  <2>1. PICK f : RunOf(f, p, signal, s, i, m)
    BY <1>2
  <2> DEFINE g == [k \in i..(m + 1) |-> IF k = m + 1
                                         THEN IF f[m].status = "OPEN" THEN OneBar(p, f[m], s[m + 1])
                                              ELSE f[m]
                                         ELSE f[k]]
  <2>2. \A k \in i..m : g[k] = f[k]
    OBVIOUS
  <2>3. m \in i..m /\ m + 1 # i /\ m \in Int /\ m + 1 \in i..n
    OBVIOUS
  <2>4. \A k \in i..m : g[k] = IF k = i THEN Enter(signal, s, i)
                               ELSE IF g[k - 1].status = "OPEN" THEN OneBar(p, g[k - 1], s[k])
                               ELSE g[k - 1]
    <3> SUFFICES ASSUME NEW k \in i..m
                 PROVE  g[k] = IF k = i THEN Enter(signal, s, i)
                               ELSE IF g[k - 1].status = "OPEN" THEN OneBar(p, g[k - 1], s[k])
                               ELSE g[k - 1]
      OBVIOUS
    <3>1. k # i => k - 1 \in i..m
      OBVIOUS
    <3>2. f[k] = IF k = i THEN Enter(signal, s, i)
                 ELSE IF f[k - 1].status = "OPEN" THEN OneBar(p, f[k - 1], s[k]) ELSE f[k - 1]
      BY <2>1 DEF RunOf
    <3> HIDE DEF g
    <3>3. QED
      BY <2>2, <3>1, <3>2
  <2>5. g[m + 1] = IF g[m].status = "OPEN" THEN OneBar(p, g[m], s[m + 1]) ELSE g[m]
    BY <2>2, <2>3
  <2>6. DOMAIN g = i..(m + 1) /\ g = [k \in i..(m + 1) |-> g[k]]
    OBVIOUS
  <2>7. \A k \in i..(m + 1) : k \in i..m \/ k = m + 1
    BY <2>3
  <2> HIDE DEF g
  <2>8. (m + 1) - 1 = m
    BY <2>3
  <2>9. \A k \in i..(m + 1) :
          g[k] = IF k = i THEN Enter(signal, s, i)
                 ELSE IF g[k - 1].status = "OPEN" THEN OneBar(p, g[k - 1], s[k]) ELSE g[k - 1]
    BY <2>3, <2>4, <2>5, <2>7, <2>8
  <2>10. RunOf(g, p, signal, s, i, m + 1)
    BY <2>6, <2>9 DEF RunOf
  <2>11. QED
    BY <2>3, <2>10
<1> HIDE DEF G
<1>3. \A m \in i..n : m \in G
  BY <1>1, <1>2, Climb
<1>4. n \in G
  BY <1>3
<1>5. QED
  BY <1>4 DEF G

LEMMA SimulateIs ==
    ASSUME NEW p, NEW signal, NEW s, Len(s) \in Nat, NEW i \in 1..Len(s)
    PROVE  \E f : RunOf(f, p, signal, s, i, Len(s)) /\ Simulate(p, signal, s, i) = f[Len(s)]
<1> DEFINE run == CHOOSE f : f = [k \in i..Len(s) |->
                      IF k = i THEN Enter(signal, s, i)
                      ELSE IF f[k - 1].status = "OPEN" THEN OneBar(p, f[k - 1], s[k]) ELSE f[k - 1]]
<1>1. Simulate(p, signal, s, i) = run[Len(s)]
  BY DEF Simulate
<1>2. run = CHOOSE f : RunOf(f, p, signal, s, i, Len(s))
  BY DEF RunOf
<1> HIDE DEF run
<1>3. i \in Nat /\ i <= Len(s)
  OBVIOUS
<1>4. \E f : RunOf(f, p, signal, s, i, Len(s))
  BY <1>3, RunExists
<1>5. RunOf(run, p, signal, s, i, Len(s))
  BY <1>2, <1>4
<1>6. QED
  BY <1>1, <1>5

\* An open trade counts its candles; one with an end had it at that candle.
TradeAt(f, i, k) ==
    /\ f[k] \in Positions /\ f[k].at = i
    /\ f[k].status = "OPEN" => f[k].bars = k - i
    /\ f[k].status # "OPEN" => f[k].exitAt \in (i + 1)..k /\ f[f[k].exitAt].status # "OPEN"

LEMMA RunIs ==
    ASSUME BacktestAssumption, NEW p \in BacktestSetups, NEW signal, SignalIsTyped(signal),
           NEW s, NEW n \in Nat, \A k \in 1..n : Bar(s[k]), NEW i \in 1..n,
           NEW f, RunOf(f, p, signal, s, i, n)
    PROVE  \A k \in i..n : TradeAt(f, i, k)
<1> DEFINE G == {k \in i..n : TradeAt(f, i, k)}
<1>1. i \in Nat /\ n \in Nat /\ i <= n /\ i \in i..n
  OBVIOUS
<1>2. \A k \in i..n : f[k] = IF k = i THEN Enter(signal, s, i)
                            ELSE IF f[k - 1].status = "OPEN" THEN OneBar(p, f[k - 1], s[k])
                            ELSE f[k - 1]
  BY DEF RunOf
<1>3. i \in G
  <2>1. f[i] = Enter(signal, s, i)
    BY <1>1, <1>2
  <2>2. s[i].close \in Int
    BY DEF Bar
  <2>3. f[i] \in Positions /\ f[i].at = i /\ f[i].bars = 0 /\ f[i].status = "OPEN"
    BY <1>1, <2>1, <2>2, EnterIs
  <2>4. QED
    BY <1>1, <2>3 DEF TradeAt
<1>4. ASSUME NEW k \in i..(n - 1), k \in G PROVE k + 1 \in G
  <2>1. k + 1 \in i..n /\ k + 1 # i /\ (k + 1) - 1 = k /\ k \in i..n /\ k + 1 \in 1..n
    BY <1>1
  <2>2. TradeAt(f, i, k)
    BY <1>4
  <2>3. CASE f[k].status = "OPEN"
    <3>1. f[k + 1] = OneBar(p, f[k], s[k + 1])
      BY <1>2, <2>1, <2>3
    <3>2. Bar(s[k + 1])
      BY <2>1
    <3>3. /\ f[k + 1] \in Positions /\ f[k + 1].at = i /\ f[k + 1].bars = f[k].bars + 1
          /\ f[k + 1].status # "OPEN" => f[k + 1].exitAt = f[k + 1].at + f[k + 1].bars
      BY <2>2, <2>3, <3>1, <3>2, OneBarIs DEF TradeAt
    <3>4. f[k].bars = k - i /\ (k - i) + 1 = (k + 1) - i /\ i + ((k - i) + 1) = k + 1
      BY <1>1, <2>2, <2>3 DEF TradeAt
    <3>5. f[k + 1].status # "OPEN" => f[k + 1].exitAt = k + 1
      BY <3>3, <3>4
    <3>6. k + 1 \in (i + 1)..(k + 1)
      BY <2>1
    <3>7. QED
      BY <2>1, <3>3, <3>4, <3>5, <3>6 DEF TradeAt
  <2>4. CASE f[k].status # "OPEN"
    <3>1. f[k + 1] = f[k]
      BY <1>2, <2>1, <2>4
    <3>2. f[k].exitAt \in (i + 1)..k
      BY <2>2, <2>4 DEF TradeAt
    <3>3. f[k].exitAt \in (i + 1)..(k + 1)
      BY <2>1, <3>2
    <3>4. QED
      BY <2>1, <2>2, <2>4, <3>1, <3>3 DEF TradeAt
  <2>5. QED
    BY <2>3, <2>4
<1> HIDE DEF G
<1>5. \A k \in i..n : k \in G
  BY <1>1, <1>3, <1>4, Climb
<1>6. QED
  BY <1>5 DEF G

\* What has ended stays as it is.
Settles(f, i, n) == \A e \in i..n : f[e].status # "OPEN" => \A k \in e..n : f[k] = f[e]
LEMMA EndStays ==
    ASSUME NEW p, NEW signal, NEW s, NEW n \in Nat, NEW i \in 1..n, NEW f,
           RunOf(f, p, signal, s, i, n)
    PROVE  Settles(f, i, n)
<1> SUFFICES ASSUME NEW e \in i..n, f[e].status # "OPEN" PROVE \A k \in e..n : f[k] = f[e]
  BY DEF Settles
<1> DEFINE G == {k \in e..n : f[k] = f[e]}
<1>1. e \in Nat /\ e \in G /\ i \in Nat /\ i <= e
  OBVIOUS
<1>2. ASSUME NEW k \in e..(n - 1), k \in G PROVE k + 1 \in G
  <2>1. k + 1 \in i..n /\ k + 1 # i /\ (k + 1) - 1 = k /\ k + 1 \in e..n
    BY <1>1
  <2>2. f[k + 1] = IF f[k].status = "OPEN" THEN OneBar(p, f[k], s[k + 1]) ELSE f[k]
    BY <2>1 DEF RunOf
  <2>3. f[k] = f[e]
    BY <1>2
  <2>4. QED
    BY <2>1, <2>2, <2>3
<1> HIDE DEF G
<1>3. \A k \in e..n : k \in G
  BY <1>1, <1>2, Climb
<1>4. QED
  BY <1>3 DEF G

-----------------------------------------------------------------------------
(* The loop of the backtest and the live trader, index by index *)

LoopOf(f, p, s, w, n) ==
    f = [i \in w..n |-> IF i = w THEN <<>> ELSE Visit(p, s, f[i - 1], i)]

LEMMA LoopExists ==
    ASSUME NEW p, NEW s, NEW w \in Nat, NEW n \in Nat, w <= n
    PROVE  \E f : LoopOf(f, p, s, w, n)
<1> DEFINE G == {m \in w..n : \E f : LoopOf(f, p, s, w, m)}
<1>1. w \in G
  <2>1. LoopOf([i \in w..w |-> <<>>], p, s, w, w)
    BY DEF LoopOf
  <2>2. QED
    BY <2>1
<1>2. ASSUME NEW m \in w..(n - 1), m \in G PROVE m + 1 \in G
  <2>1. PICK f : LoopOf(f, p, s, w, m)
    BY <1>2
  <2> DEFINE g == [i \in w..(m + 1) |-> IF i = m + 1 THEN Visit(p, s, f[m], m + 1) ELSE f[i]]
  <2>2. \A i \in w..m : g[i] = f[i]
    OBVIOUS
  <2>3. m \in w..m /\ m + 1 # w /\ m \in Int /\ m + 1 \in w..n
    OBVIOUS
  <2>4. \A i \in w..m : g[i] = IF i = w THEN <<>> ELSE Visit(p, s, g[i - 1], i)
    <3> SUFFICES ASSUME NEW i \in w..m
                 PROVE  g[i] = IF i = w THEN <<>> ELSE Visit(p, s, g[i - 1], i)
      OBVIOUS
    <3>1. i # w => i - 1 \in w..m
      OBVIOUS
    <3>2. f[i] = IF i = w THEN <<>> ELSE Visit(p, s, f[i - 1], i)
      BY <2>1 DEF LoopOf
    <3> HIDE DEF g
    <3>3. QED
      BY <2>2, <3>1, <3>2
  <2>5. g[m + 1] = Visit(p, s, g[m], m + 1)
    BY <2>2, <2>3
  <2>6. g = [i \in w..(m + 1) |-> g[i]]
    OBVIOUS
  <2>7. \A i \in w..(m + 1) : i \in w..m \/ i = m + 1
    BY <2>3
  <2> HIDE DEF g
  <2>8. (m + 1) - 1 = m
    BY <2>3
  <2>9. \A i \in w..(m + 1) : g[i] = IF i = w THEN <<>> ELSE Visit(p, s, g[i - 1], i)
    BY <2>3, <2>4, <2>5, <2>7, <2>8
  <2>10. LoopOf(g, p, s, w, m + 1)
    BY <2>6, <2>9 DEF LoopOf
  <2>11. QED
    BY <2>3, <2>10
<1> HIDE DEF G
<1>3. \A m \in w..n : m \in G
  BY <1>1, <1>2, Climb
<1>4. n \in G
  BY <1>3
<1>5. QED
  BY <1>4 DEF G

LEMMA WarmupIs ==
    ASSUME MaxWarmup \in Nat \ {0}, NEW n \in Nat
    PROVE  /\ WarmupOf(n) \in Nat \ {0}
           /\ n <= WarmupOf(n) => n \in {0, 1}
<1>1. n \div 3 \in Nat /\ (n > 1 => n \div 3 < n)
  OBVIOUS
<1>2. Max({1, n \div 3}) \in {1, n \div 3} /\ Max({1, n \div 3}) >= 1
  BY <1>1, MaxOfTwo
<1>3. \A a, b \in Int : Min({a, b}) \in {a, b} /\ Min({a, b}) <= b
  <2> SUFFICES ASSUME NEW a \in Int, NEW b \in Int PROVE Min({a, b}) \in {a, b} /\ Min({a, b}) <= b
    OBVIOUS
  <2>1. \E x \in {a, b} : \A y \in {a, b} : x <= y
    OBVIOUS
  <2>2. Min({a, b}) \in {a, b} /\ \A y \in {a, b} : Min({a, b}) <= y
    BY <2>1 DEF Min
  <2>3. QED
    BY <2>2
<1> DEFINE third == Max({1, n \div 3})
<1>4. third \in Nat \ {0} /\ (n > 1 => third < n)
  BY <1>1, <1>2
<1>5. Min({MaxWarmup, third}) \in {MaxWarmup, third} /\ Min({MaxWarmup, third}) <= third
  BY <1>3, <1>4
<1>6. WarmupOf(n) = Min({MaxWarmup, third})
  BY DEF WarmupOf
<1> HIDE DEF third
<1>7. WarmupOf(n) \in Nat \ {0} /\ WarmupOf(n) <= third
  BY <1>4, <1>5, <1>6
<1>8. QED
  BY <1>4, <1>7

LEMMA RunOnCandlesIs ==
    ASSUME NEW p, NEW s, Len(s) \in Nat, NEW w \in Nat, w = WarmupOf(Len(s)), w < Len(s)
    PROVE  \E f : LoopOf(f, p, s, w, Len(s)) /\ RunOnCandles(p, s) = f[Len(s) - 1]
<1> DEFINE loop == CHOOSE f : f = [i \in w..Len(s) |->
                         IF i = w THEN <<>> ELSE Visit(p, s, f[i - 1], i)]
<1>1. RunOnCandles(p, s) = loop[Len(s) - 1]
  <2>1. ~(Len(s) <= w)
    OBVIOUS
  <2>2. QED
    BY <2>1 DEF RunOnCandles
<1>2. loop = CHOOSE f : LoopOf(f, p, s, w, Len(s))
  BY DEF LoopOf
<1> HIDE DEF loop
<1>3. \E f : LoopOf(f, p, s, w, Len(s))
  <2>1. \A n \in Nat : w <= n => \E f : LoopOf(f, p, s, w, n)
    BY LoopExists
  <2>2. w <= Len(s)
    OBVIOUS
  <2>3. QED
    BY <2>1, <2>2
<1>4. LoopOf(loop, p, s, w, Len(s))
  BY <1>2, <1>3
<1>5. QED
  BY <1>1, <1>4

Fresh == [closed |-> <<>>, position |-> None]

AfterOf(f, p, s, n) ==
    f = [k \in 0..n |-> IF k = 0 THEN Fresh
                        ELSE LiveBacktest!See(p, f[k - 1], SubSeq(s, 1, k))]

LEMMA AfterExists ==
    ASSUME NEW p, NEW s, NEW n \in Nat
    PROVE  \E f : AfterOf(f, p, s, n)
<1> DEFINE G == {m \in 0..n : \E f : AfterOf(f, p, s, m)}
<1>1. 0 \in G
  <2>1. AfterOf([k \in 0..0 |-> Fresh], p, s, 0)
    BY DEF AfterOf
  <2>2. QED
    BY <2>1
<1>2. ASSUME NEW m \in 0..(n - 1), m \in G PROVE m + 1 \in G
  <2>1. PICK f : AfterOf(f, p, s, m)
    BY <1>2
  <2> DEFINE next == LiveBacktest!See(p, f[m], SubSeq(s, 1, m + 1))
             g == [k \in 0..(m + 1) |-> IF k = m + 1 THEN next ELSE f[k]]
  <2>2. \A k \in 0..m : g[k] = f[k]
    OBVIOUS
  <2>3. m \in 0..m /\ m + 1 # 0 /\ m \in Int /\ m + 1 \in 0..n
    OBVIOUS
  <2>4. \A k \in 0..m : g[k] = IF k = 0 THEN Fresh
                               ELSE LiveBacktest!See(p, g[k - 1], SubSeq(s, 1, k))
    <3> SUFFICES ASSUME NEW k \in 0..m
                 PROVE  g[k] = IF k = 0 THEN Fresh
                               ELSE LiveBacktest!See(p, g[k - 1], SubSeq(s, 1, k))
      OBVIOUS
    <3>1. k # 0 => k - 1 \in 0..m
      OBVIOUS
    <3>2. f[k] = IF k = 0 THEN Fresh ELSE LiveBacktest!See(p, f[k - 1], SubSeq(s, 1, k))
      BY <2>1 DEF AfterOf
    <3> HIDE DEF g
    <3>3. QED
      BY <2>2, <3>1, <3>2
  <2>5. g[m + 1] = LiveBacktest!See(p, g[m], SubSeq(s, 1, m + 1))
    BY <2>2, <2>3
  <2>6. g = [k \in 0..(m + 1) |-> g[k]]
    OBVIOUS
  <2>7. \A k \in 0..(m + 1) : k \in 0..m \/ k = m + 1
    BY <2>3
  <2> HIDE DEF g
  <2>8. (m + 1) - 1 = m
    BY <2>3
  <2>9. \A k \in 0..(m + 1) : g[k] = IF k = 0 THEN Fresh
                                     ELSE LiveBacktest!See(p, g[k - 1], SubSeq(s, 1, k))
    BY <2>3, <2>4, <2>5, <2>7, <2>8
  <2>10. AfterOf(g, p, s, m + 1)
    BY <2>6, <2>9 DEF AfterOf
  <2>11. QED
    BY <2>3, <2>10
<1> HIDE DEF G
<1>3. \A m \in 0..n : m \in G
  BY <1>1, <1>2, Climb
<1>4. n \in G
  BY <1>3
<1>5. QED
  BY <1>4 DEF G

LEMMA LiveTradesAre ==
    ASSUME NEW p, NEW s, Len(s) \in Nat
    PROVE  \E f : AfterOf(f, p, s, Len(s)) /\ LiveBacktest!LiveTrades(p, s) = f[Len(s)].closed
<1> DEFINE after == CHOOSE f : f = [k \in 0..Len(s) |->
                        IF k = 0 THEN [closed |-> <<>>, position |-> None]
                        ELSE LiveBacktest!See(p, f[k - 1], SubSeq(s, 1, k))]
<1>1. LiveBacktest!LiveTrades(p, s) = after[Len(s)].closed
  BY DEF LiveBacktest!LiveTrades, LiveBacktest!Trader
<1>2. after = CHOOSE f : AfterOf(f, p, s, Len(s))
  BY DEF AfterOf, Fresh
<1> HIDE DEF after
<1>3. AfterOf(after, p, s, Len(s))
  BY <1>2, AfterExists
<1>4. QED
  BY <1>1, <1>3

Trader(c, x) == [closed |-> c, position |-> x]

\* A run with parameters p that starts after candle w.
Task(p, w) == [parameters |-> p, warmup |-> w]

LEMMA DecideIs ==
    ASSUME BacktestAssumption, NEW w \in Nat, NEW p, NEW S, NEW s \in Seq(S), NEW n \in 1..Len(s)
    PROVE  Decide(Task(p, w), SubSeq(s, 1, n)) =
              IF n <= w \/ SignalAt(p, s, n) = None THEN None
              ELSE Enter(SignalAt(p, s, n), s, n)
<1> DEFINE q == SubSeq(s, 1, n)
<1>1. q \in Seq(S) /\ Len(q) = n /\ q[n] = s[n]
  BY PrefixIs
<1>2. SignalAt(p, q, n) = SignalAt(p, s, n)
  BY DecidedFromPrefix
<1> HIDE DEF q
<1>3. \A signal : Enter(signal, q, n) = Enter(signal, s, n)
  BY <1>1 DEF Enter
<1>4. Decide(Task(p, w), q) = IF n <= w \/ SignalAt(p, s, n) = None THEN None
                     ELSE Enter(SignalAt(p, s, n), s, n)
  BY <1>1, <1>2, <1>3 DEF Decide, Task
<1>5. QED
  BY <1>4 DEF q

LEMMA SeeIs ==
    ASSUME BacktestAssumption, NEW w \in Nat, NEW p, NEW S, NEW s \in Seq(S), NEW n \in 1..Len(s),
           NEW c, NEW x, NEW next, next = LiveBacktest!See(Task(p, w), Trader(c, x), SubSeq(s, 1, n))
    PROVE  /\ x = None => next = Trader(c, Decide(Task(p, w), SubSeq(s, 1, n)))
           /\ x # None /\ OneBar(p, x, s[n]).status = "OPEN"
                 => next = Trader(c, OneBar(p, x, s[n]))
           /\ x # None /\ OneBar(p, x, s[n]).status \notin {"OPEN", "VOID"}
                 => next = Trader(Append(c, OneBar(p, x, s[n])), None)
<1> DEFINE q == SubSeq(s, 1, n)
           u == OneBar(p, x, s[n])
<1>1. Len(q) = n /\ q[n] = s[n] /\ q[Len(q)] = s[n]
  BY PrefixIs
<1>2. Trader(c, x).closed = c /\ Trader(c, x).position = x
  BY DEF Trader
<1>3. CASE x = None
  <2>1. next = [Trader(c, x) EXCEPT !.position = Decide(Task(p, w), q)]
    BY <1>2, <1>3 DEF LiveBacktest!See
  <2>2. QED
    BY <1>3, <2>1 DEF Trader
<1>4. CASE x # None
  <2>1. next = LiveBacktest!Manages(Task(p, w), Trader(c, x), u, q)
    BY <1>1, <1>2, <1>4 DEF LiveBacktest!See, ManageBar, Task
  <2>2. CASE u.status = "OPEN"
    <3>1. next = [Trader(c, x) EXCEPT !.position = u]
      BY <2>1, <2>2 DEF LiveBacktest!Manages
    <3>2. QED
      BY <1>4, <2>2, <3>1 DEF Trader
  <2>3. CASE u.status \notin {"OPEN", "VOID"}
    <3>1. next = [closed |-> Append(Trader(c, x).closed, u), position |-> None]
      BY <2>1, <2>3 DEF LiveBacktest!Manages
    <3>2. QED
      BY <1>2, <1>4, <2>3, <3>1 DEF Trader
  <2>4. QED
    BY <1>4, <2>2, <2>3
<1>5. QED
  BY <1>3, <1>4

\* Trades that have all ended by candle n.
Over(q, n) ==
    q \in Seq(Positions) /\ \A j \in 1..Len(q) : q[j].status # "OPEN" /\ q[j].exitAt <= n

LEMMA OverLater ==
    ASSUME NEW q, NEW n \in Nat, Over(q, n)
    PROVE  Over(q, n + 1)
<1> SUFFICES ASSUME NEW j \in 1..Len(q) PROVE q[j].exitAt <= n + 1
  BY DEF Over
<1>1. q[j] \in Positions /\ q[j].exitAt <= n
  BY DEF Over
<1>2. q[j].exitAt \in Nat
  BY <1>1 DEF Positions
<1>3. QED
  BY <1>1, <1>2

LEMMA OverAppend ==
    ASSUME NEW q, NEW n \in Nat, Over(q, n), NEW u \in Positions, u.status # "OPEN",
           u.exitAt <= n
    PROVE  Over(Append(q, u), n)
<1>1. q \in Seq(Positions)
  BY DEF Over
<1>2. /\ Append(q, u) \in Seq(Positions) /\ Len(Append(q, u)) = Len(q) + 1 /\ Len(q) \in Nat
      /\ \A j \in 1..Len(q) : Append(q, u)[j] = q[j]
      /\ Append(q, u)[Len(q) + 1] = u
  BY <1>1
<1>3. \A j \in 1..(Len(q) + 1) : j \in 1..Len(q) \/ j = Len(q) + 1
  BY <1>2
<1>4. QED
  BY <1>2, <1>3 DEF Over

\* The loop has the trades that the trader has closed, and the one that will become of
\* the position the trader has.
Alike(p, s, trader, made, n) ==
    \E c, x :
        /\ trader = Trader(c, x) /\ Over(c, n)
        /\ \/ x = None /\ made = c
           \/ \E i \in 1..n : \E f :
                 /\ SignalIsTyped(SignalAt(p, s, i))
                 /\ RunOf(f, p, SignalAt(p, s, i), s, i, Len(s))
                 /\ x = f[n] /\ x.status = "OPEN" /\ x # None
                 /\ made = Append(c, f[Len(s)])

LEMMA LastOfAppend ==
    ASSUME NEW S, NEW q \in Seq(S), NEW u \in S
    PROVE  /\ Append(q, u) # <<>> /\ Last(Append(q, u)) = u
           /\ Front(Append(q, u)) = q
<1>1. /\ Append(q, u) \in Seq(S) /\ Len(Append(q, u)) = Len(q) + 1 /\ Len(q) \in Nat
      /\ \A j \in 1..Len(q) : Append(q, u)[j] = q[j]
      /\ Append(q, u)[Len(q) + 1] = u
  OBVIOUS
<1>2. (Len(q) + 1) - 1 = Len(q)
  BY <1>1
<1>3. Front(Append(q, u)) = SubSeq(Append(q, u), 1, Len(q))
  BY <1>1, <1>2 DEF Front
<1>4. SubSeq(Append(q, u), 1, Len(q)) = q
  OBVIOUS
<1>5. QED
  BY <1>1, <1>3, <1>4 DEF Last

LEMMA BusyIs ==
    ASSUME NEW c, NEW n \in Nat, Over(c, n), NEW m \in Nat
    PROVE  /\ BusyUntil(c, m) \in Nat /\ BusyUntil(c, m) <= n
           /\ \A u \in Positions : BusyUntil(Append(c, u), m) = IF u.status = "OPEN" THEN m ELSE u.exitAt
<1>1. c \in Seq(Positions)
  BY DEF Over
<1>2. BusyUntil(c, m) \in Nat /\ BusyUntil(c, m) <= n
  <2>1. CASE c = <<>>
    BY <2>1 DEF BusyUntil
  <2>2. CASE c # <<>>
    <3>1. Len(c) \in 1..Len(c)
      BY <1>1, <2>2
    <3>2. c[Len(c)] \in Positions /\ c[Len(c)].status # "OPEN" /\ c[Len(c)].exitAt <= n
      BY <1>1, <3>1 DEF Over
    <3>3. c[Len(c)].exitAt \in Nat
      BY <3>2 DEF Positions
    <3>4. BusyUntil(c, m) = c[Len(c)].exitAt
      BY <2>2, <3>2 DEF BusyUntil, Last
    <3>5. QED
      BY <3>2, <3>3, <3>4
  <2>3. QED
    BY <2>1, <2>2
<1>3. ASSUME NEW u \in Positions
      PROVE  BusyUntil(Append(c, u), m) = IF u.status = "OPEN" THEN m ELSE u.exitAt
  BY <1>1, LastOfAppend DEF BusyUntil
<1>4. QED
  BY <1>2, <1>3

\* No position: the same signal opens the same trade, or none.
LEMMA AlikeEntry ==
    ASSUME BacktestAssumption, NEW w \in Nat \ {0}, NEW p \in BacktestSetups, NEW S, NEW s \in Seq(S),
           \A k \in 1..Len(s) : Bar(s[k]), NEW n \in w..(Len(s) - 1),
           NEW c, Over(c, n),
           NEW next, next = LiveBacktest!See(Task(p, w), Trader(c, None), SubSeq(s, 1, n + 1))
    PROVE  Alike(p, s, next, Visit(p, s, c, n + 1), n + 1)
<1> DEFINE i == n + 1
           signal == SignalAt(p, s, i)
<1>1. n \in Nat /\ w \in Nat /\ Len(s) \in Nat
  BY DEF BacktestAssumption
<1>2. i \in 1..Len(s) /\ i \in Nat /\ ~(i <= w)
  BY <1>1
<1>3. next = Trader(c, Decide(Task(p, w), SubSeq(s, 1, i)))
  BY <1>2, SeeIs
<1>4. Decide(Task(p, w), SubSeq(s, 1, i)) = IF signal = None THEN None ELSE Enter(signal, s, i)
  BY <1>2, DecideIs
<1>5. Over(c, i)
  BY <1>1, OverLater
<1>6. Visit(p, s, c, i) = IF signal = None THEN c ELSE Append(c, Simulate(p, signal, s, i))
  <2>1. BusyUntil(c, Len(s)) \in Nat /\ BusyUntil(c, Len(s)) <= n
    BY <1>1, BusyIs
  <2>2. ~(i <= BusyUntil(c, Len(s)))
    BY <1>1, <2>1
  <2>3. QED
    BY <2>2 DEF Visit
<1>7. CASE signal = None
  BY <1>3, <1>4, <1>5, <1>6, <1>7 DEF Alike
<1>8. CASE signal # None
  <2>1. SignalIsTyped(signal)
    BY <1>8, SignalAtIs
  <2>2. PICK f : RunOf(f, p, signal, s, i, Len(s)) /\ Simulate(p, signal, s, i) = f[Len(s)]
    BY <1>1, <1>2, SimulateIs
  <2>3. f[i] = Enter(signal, s, i)
    BY <1>2, <2>2 DEF RunOf
  <2>4. s[i].close \in Int
    BY <1>2 DEF Bar
  <2>5. Enter(signal, s, i) \in Positions /\ Enter(signal, s, i).status = "OPEN"
    BY <1>2, <2>1, <2>4, EnterIs
  <2>6. Enter(signal, s, i) # None
    BY <2>5 DEF BacktestAssumption
  <2>7. next = Trader(c, f[i]) /\ Visit(p, s, c, i) = Append(c, f[Len(s)])
    BY <1>3, <1>4, <1>6, <1>8, <2>2, <2>3
  <2>8. i \in 1..i
    BY <1>2
  <2>9. QED
    BY <1>5, <2>1, <2>2, <2>3, <2>5, <2>6, <2>7, <2>8 DEF Alike
<1>9. QED
  BY <1>7, <1>8

\* A position: the candle is skipped by the loop, and manages the position.
LEMMA AlikeHeld ==
    ASSUME BacktestAssumption, NEW w \in Nat \ {0}, NEW p \in BacktestSetups, NEW S, NEW s \in Seq(S),
           \A k \in 1..Len(s) : Bar(s[k]), NEW n \in w..(Len(s) - 1),
           NEW c, Over(c, n), NEW i \in 1..n, NEW f,
           SignalIsTyped(SignalAt(p, s, i)), RunOf(f, p, SignalAt(p, s, i), s, i, Len(s)),
           f[n].status = "OPEN", f[n] # None,
           NEW next, next = LiveBacktest!See(Task(p, w), Trader(c, f[n]), SubSeq(s, 1, n + 1))
    PROVE  /\ Alike(p, s, next, Append(c, f[Len(s)]), n + 1)
           /\ Visit(p, s, Append(c, f[Len(s)]), n + 1) = Append(c, f[Len(s)])
           /\ f[Len(s)] \in Positions
           /\ next = IF f[n + 1].status = "OPEN" THEN Trader(c, f[n + 1])
                     ELSE Trader(Append(c, f[n + 1]), None)
           /\ f[n + 1].status # "OPEN" => f[Len(s)] = f[n + 1]
<1> DEFINE N == Len(s)
           u == f[n + 1]
<1>1. n \in Nat /\ N \in Nat /\ i \in Nat /\ n + 1 <= N /\ i <= n
  BY DEF BacktestAssumption
<1>2. /\ n + 1 \in 1..N /\ n + 1 \in i..N /\ n + 1 # i /\ (n + 1) - 1 = n /\ n \in i..N
      /\ N \in i..N /\ i \in 1..N
  BY <1>1
<1>3. \A k \in i..N : TradeAt(f, i, k)
  BY <1>1, <1>2, RunIs
<1>4. u = OneBar(p, f[n], s[n + 1])
  <2>1. f[n + 1] = IF n + 1 = i THEN Enter(SignalAt(p, s, i), s, i)
                   ELSE IF f[(n + 1) - 1].status = "OPEN"
                   THEN OneBar(p, f[(n + 1) - 1], s[n + 1]) ELSE f[(n + 1) - 1]
    BY <1>2 DEF RunOf
  <2>2. QED
    BY <1>2, <2>1
<1>5. u \in Positions /\ f[N] \in Positions
  BY <1>2, <1>3 DEF TradeAt
<1>6. next = IF u.status = "OPEN" THEN Trader(c, u) ELSE Trader(Append(c, u), None)
  <2>1. u.status # "VOID"
    BY <1>5 DEF Positions
  <2>2. QED
    BY <1>2, <1>4, <2>1, SeeIs
<1>7. \A e \in i..N : f[e].status # "OPEN" => \A k \in e..N : f[k] = f[e]
  <2>1. RunOf(f, p, SignalAt(p, s, i), s, i, N) /\ N \in Nat /\ i \in 1..N
    BY <1>1, <1>2
  <2> DEFINE signal == SignalAt(p, s, i)
  <2>2. RunOf(f, p, signal, s, i, N) /\ N \in Nat /\ i \in 1..N
    BY <2>1
  <2> HIDE DEF N, signal
  <2>3. Settles(f, i, N)
    BY ONLY <2>2, EndStays
  <2>4. QED
    BY <2>3 DEF Settles
<1>8. f[N].status # "OPEN" => f[N].exitAt \in Nat /\ f[N].exitAt >= n + 1
  <2> SUFFICES ASSUME f[N].status # "OPEN" PROVE f[N].exitAt \in Nat /\ f[N].exitAt >= n + 1
    OBVIOUS
  <2>1. f[N].exitAt \in (i + 1)..N /\ f[f[N].exitAt].status # "OPEN"
    BY <1>2, <1>3 DEF TradeAt
  <2>2. PICK e \in i..N : e = f[N].exitAt
    BY <1>1, <2>1
  <2>3. ~(e <= n)
    <3> SUFFICES ASSUME e <= n PROVE FALSE
      OBVIOUS
    <3>1. n \in e..N
      BY <1>1, <2>2
    <3>2. f[n] = f[e]
      BY <1>7, <2>1, <2>2, <3>1
    <3>3. QED
      BY <2>1, <2>2, <3>2
  <2>4. QED
    BY <1>1, <2>2, <2>3
<1>9. Visit(p, s, Append(c, f[N]), n + 1) = Append(c, f[N])
  <2>1. BusyUntil(Append(c, f[N]), N) = IF f[N].status = "OPEN" THEN N ELSE f[N].exitAt
    BY <1>1, <1>5, BusyIs
  <2>2. n + 1 <= BusyUntil(Append(c, f[N]), N)
    BY <1>1, <1>8, <2>1
  <2>3. QED
    BY <2>2 DEF Visit
<1>10. Over(c, n + 1)
  BY <1>1, OverLater
<1>11. u.status # "OPEN" => f[N] = u
  <2>1. N \in (n + 1)..N
    BY <1>1
  <2>2. QED
    BY <1>2, <1>7, <2>1
<1>12. Alike(p, s, next, Append(c, f[N]), n + 1)
  <2>1. CASE u.status = "OPEN"
    <3>1. u # None
      BY <1>5 DEF BacktestAssumption
    <3>2. i \in 1..(n + 1)
      BY <1>1
    <3>3. next = Trader(c, u)
      BY <1>6, <2>1
    <3>4. QED
      BY <1>10, <2>1, <3>1, <3>2, <3>3 DEF Alike
  <2>2. CASE u.status # "OPEN"
    <3>1. u.exitAt <= n + 1
      <4>1. u.exitAt \in (i + 1)..(n + 1)
        BY <1>2, <1>3, <2>2 DEF TradeAt
      <4>2. QED
        BY <1>1, <4>1
    <3>2. Over(Append(c, u), n + 1)
      BY <1>1, <1>5, <1>10, <2>2, <3>1, OverAppend
    <3>3. next = Trader(Append(c, u), None)
      BY <1>6, <2>2
    <3>4. QED
      BY <1>11, <2>2, <3>2, <3>3 DEF Alike
  <2>3. QED
    BY <2>1, <2>2
<1>13. QED
  BY <1>5, <1>6, <1>9, <1>11, <1>12

\* Before the first index of the loop the trader only watches.
LEMMA Watching ==
    ASSUME BacktestAssumption, NEW w \in Nat, NEW p, NEW S, NEW s \in Seq(S), NEW A, AfterOf(A, Task(p, w), s, Len(s)),
           Len(s) >= w
    PROVE  A[w] = Fresh
<1> DEFINE G == {n \in 0..w : A[n] = Fresh}
<1>1. w \in Nat /\ Len(s) \in Nat /\ 0 \in 0..Len(s)
  BY DEF BacktestAssumption
<1>2. 0 \in G
  BY <1>1 DEF AfterOf
<1>3. ASSUME NEW n \in 0..(w - 1), n \in G PROVE n + 1 \in G
  <2>1. /\ n + 1 \in 1..Len(s) /\ n + 1 \in 0..Len(s) /\ n + 1 # 0 /\ (n + 1) - 1 = n
        /\ n + 1 <= w /\ n + 1 \in 0..w
    BY <1>1
  <2>2. A[n] = Trader(<<>>, None)
    BY <1>3 DEF Fresh, Trader
  <2>3. A[n + 1] = LiveBacktest!See(Task(p, w), A[n], SubSeq(s, 1, n + 1))
    BY <2>1 DEF AfterOf
  <2>4. A[n + 1] = Trader(<<>>, Decide(Task(p, w), SubSeq(s, 1, n + 1)))
    BY <2>1, <2>2, <2>3, SeeIs
  <2>5. Decide(Task(p, w), SubSeq(s, 1, n + 1)) = None
    BY <2>1, DecideIs
  <2>6. QED
    BY <2>1, <2>4, <2>5 DEF Fresh, Trader
<1> HIDE DEF G
<1>4. \A n \in 0..w : n \in G
  BY <1>1, <1>2, <1>3, Climb
<1>5. w \in G
  BY <1>1, <1>4
<1>6. QED
  BY <1>5 DEF G

LEMMA AlikeNext ==
    ASSUME BacktestAssumption, NEW w \in Nat \ {0}, NEW p \in BacktestSetups, NEW S, NEW s \in Seq(S),
           \A k \in 1..Len(s) : Bar(s[k]), NEW n \in w..(Len(s) - 1),
           NEW trader, NEW made, Alike(p, s, trader, made, n)
    PROVE  Alike(p, s, LiveBacktest!See(Task(p, w), trader, SubSeq(s, 1, n + 1)),
                 Visit(p, s, made, n + 1), n + 1)
<1> DEFINE next == LiveBacktest!See(Task(p, w), trader, SubSeq(s, 1, n + 1))
<1>1. PICK c, x :
        /\ trader = Trader(c, x) /\ Over(c, n)
        /\ \/ x = None /\ made = c
           \/ \E i \in 1..n : \E f :
                 /\ SignalIsTyped(SignalAt(p, s, i))
                 /\ RunOf(f, p, SignalAt(p, s, i), s, i, Len(s))
                 /\ x = f[n] /\ x.status = "OPEN" /\ x # None
                 /\ made = Append(c, f[Len(s)])
  BY DEF Alike
<1>2. CASE x = None /\ made = c
  BY <1>1, <1>2, AlikeEntry
<1>3. CASE \E i \in 1..n : \E f :
             /\ SignalIsTyped(SignalAt(p, s, i))
             /\ RunOf(f, p, SignalAt(p, s, i), s, i, Len(s))
             /\ x = f[n] /\ x.status = "OPEN" /\ x # None
             /\ made = Append(c, f[Len(s)])
  <2>1. PICK i, f :
             /\ i \in 1..n
             /\ SignalIsTyped(SignalAt(p, s, i))
             /\ RunOf(f, p, SignalAt(p, s, i), s, i, Len(s))
             /\ x = f[n] /\ x.status = "OPEN" /\ x # None
             /\ made = Append(c, f[Len(s)])
    BY <1>3
  <2>2. trader = Trader(c, f[n]) /\ f[n].status = "OPEN" /\ f[n] # None
    BY <1>1, <2>1
  <2>3. /\ Alike(p, s, next, Append(c, f[Len(s)]), n + 1)
        /\ Visit(p, s, Append(c, f[Len(s)]), n + 1) = Append(c, f[Len(s)])
    BY <1>1, <2>1, <2>2, AlikeHeld
  <2>4. QED
    BY <2>1, <2>3
<1>4. QED
  BY <1>1, <1>2, <1>3

LEMMA AlikeAll ==
    ASSUME BacktestAssumption, NEW w \in Nat \ {0}, NEW p \in BacktestSetups, NEW S, NEW s \in Seq(S),
           \A k \in 1..Len(s) : Bar(s[k]), Len(s) > w,
           NEW A, AfterOf(A, Task(p, w), s, Len(s)), NEW L, LoopOf(L, p, s, w, Len(s))
    PROVE  \A n \in w..Len(s) : Alike(p, s, A[n], L[n], n)
<1> DEFINE G == {n \in w..Len(s) : Alike(p, s, A[n], L[n], n)}
<1>1. w \in Nat \ {0} /\ Len(s) \in Nat /\ Len(s) >= w
  BY DEF BacktestAssumption
<1>2. w \in G
  <2>1. A[w] = Trader(<<>>, None)
    BY <1>1, Watching DEF Fresh, Trader
  <2>2. w \in w..Len(s)
    BY <1>1
  <2>3. L[w] = <<>>
    BY <2>2 DEF LoopOf
  <2>4. Over(<<>>, w)
    BY DEF Over
  <2>5. QED
    BY <2>1, <2>2, <2>3, <2>4 DEF Alike
<1>3. ASSUME NEW n \in w..(Len(s) - 1), n \in G PROVE n + 1 \in G
  <2>1. /\ n + 1 \in 0..Len(s) /\ n + 1 \in w..Len(s) /\ n + 1 # 0
        /\ n + 1 # w /\ (n + 1) - 1 = n
    BY <1>1
  <2>2. A[n + 1] = LiveBacktest!See(Task(p, w), A[n], SubSeq(s, 1, n + 1))
    BY <2>1 DEF AfterOf
  <2>3. L[n + 1] = Visit(p, s, L[n], n + 1)
    BY <2>1 DEF LoopOf
  <2>4. Alike(p, s, A[n], L[n], n)
    BY <1>3
  <2>5. QED
    BY <2>1, <2>2, <2>3, <2>4, AlikeNext
<1> HIDE DEF G
<1>4. \A n \in w..Len(s) : n \in G
  BY <1>1, <1>2, <1>3, Climb
<1>5. QED
  BY <1>4 DEF G

LEMMA EndedIs ==
    ASSUME NEW c, NEW n, Over(c, n)
    PROVE  /\ Ended(c) = c
           /\ \A u \in Positions : Ended(Append(c, u)) = IF u.status = "OPEN" THEN c ELSE Append(c, u)
<1>1. c \in Seq(Positions)
  BY DEF Over
<1>2. Ended(c) = c
  <2>1. CASE c = <<>>
    BY <2>1 DEF Ended
  <2>2. CASE c # <<>>
    <3>1. Len(c) \in 1..Len(c)
      BY <1>1, <2>2
    <3>2. Last(c).status # "OPEN"
      BY <3>1 DEF Over, Last
    <3>3. QED
      BY <2>2, <3>2 DEF Ended
  <2>3. QED
    BY <2>1, <2>2
<1>3. ASSUME NEW u \in Positions
      PROVE  Ended(Append(c, u)) = IF u.status = "OPEN" THEN c ELSE Append(c, u)
  BY <1>1, LastOfAppend DEF Ended
<1>4. QED
  BY <1>2, <1>3

\* The loop stops one candle before the last, which only can end the last trade.
LEMMA SameTrades ==
    ASSUME BacktestAssumption, NEW w \in Nat \ {0}, NEW p \in BacktestSetups, NEW S, NEW s \in Seq(S),
           \A k \in 1..Len(s) : Bar(s[k]), w = WarmupOf(Len(s)), Len(s) > w
    PROVE  Ended(RunOnCandles(p, s)) = LiveBacktest!LiveTrades(Task(p, w), s)
<1> DEFINE n == Len(s) - 1
<1>1. w \in Nat /\ w # 0 /\ Len(s) \in Nat /\ w < Len(s)
  OBVIOUS
<1>2. /\ n \in w..(Len(s) - 1) /\ n \in w..Len(s) /\ n + 1 = Len(s)
      /\ n + 1 \in 1..Len(s) /\ n \in Nat
  BY <1>1
<1>3. PICK L : LoopOf(L, p, s, w, Len(s)) /\ RunOnCandles(p, s) = L[n]
  BY <1>1, RunOnCandlesIs
<1>4. PICK A : AfterOf(A, Task(p, w), s, Len(s)) /\ LiveBacktest!LiveTrades(Task(p, w), s) = A[Len(s)].closed
  BY <1>1, LiveTradesAre
<1>5. Alike(p, s, A[n], L[n], n)
  BY <1>2, <1>3, <1>4, AlikeAll
<1>6. A[Len(s)] = LiveBacktest!See(Task(p, w), A[n], SubSeq(s, 1, n + 1))
  <2>1. Len(s) \in 0..Len(s) /\ Len(s) # 0 /\ Len(s) - 1 = n
    BY <1>1, <1>2
  <2>2. A[Len(s)] = LiveBacktest!See(Task(p, w), A[Len(s) - 1], SubSeq(s, 1, Len(s)))
    BY <1>4, <2>1 DEF AfterOf
  <2>3. QED
    BY <1>2, <2>2
<1> HIDE DEF n
<1>7. PICK c, x :
        /\ A[n] = Trader(c, x) /\ Over(c, n)
        /\ \/ x = None /\ L[n] = c
           \/ \E i \in 1..n : \E f :
                 /\ SignalIsTyped(SignalAt(p, s, i))
                 /\ RunOf(f, p, SignalAt(p, s, i), s, i, Len(s))
                 /\ x = f[n] /\ x.status = "OPEN" /\ x # None
                 /\ L[n] = Append(c, f[Len(s)])
  BY <1>5 DEF Alike
<1>8. CASE x = None /\ L[n] = c
  <2>1. A[Len(s)] = Trader(c, Decide(Task(p, w), SubSeq(s, 1, n + 1)))
    BY <1>2, <1>6, <1>7, <1>8, SeeIs
  <2>2. A[Len(s)].closed = c
    BY <2>1 DEF Trader
  <2>3. Ended(c) = c
    BY <1>7, EndedIs
  <2>4. QED
    BY <1>3, <1>4, <1>8, <2>2, <2>3
<1>9. CASE \E i \in 1..n : \E f :
             /\ SignalIsTyped(SignalAt(p, s, i))
             /\ RunOf(f, p, SignalAt(p, s, i), s, i, Len(s))
             /\ x = f[n] /\ x.status = "OPEN" /\ x # None
             /\ L[n] = Append(c, f[Len(s)])
  <2>1. PICK i, f :
             /\ i \in 1..n
             /\ SignalIsTyped(SignalAt(p, s, i))
             /\ RunOf(f, p, SignalAt(p, s, i), s, i, Len(s))
             /\ x = f[n] /\ x.status = "OPEN" /\ x # None
             /\ L[n] = Append(c, f[Len(s)])
    BY <1>9
  <2>2. A[n] = Trader(c, f[n]) /\ f[n].status = "OPEN" /\ f[n] # None
    BY <1>7, <2>1
  <2>3. /\ f[Len(s)] \in Positions
        /\ A[Len(s)] = IF f[n + 1].status = "OPEN" THEN Trader(c, f[n + 1])
                       ELSE Trader(Append(c, f[n + 1]), None)
    BY <1>2, <1>6, <1>7, <2>1, <2>2, AlikeHeld
  <2>4. A[Len(s)].closed = IF f[Len(s)].status = "OPEN" THEN c ELSE Append(c, f[Len(s)])
    BY <1>2, <2>3 DEF Trader
  <2>5. Ended(Append(c, f[Len(s)])) = IF f[Len(s)].status = "OPEN" THEN c
                                      ELSE Append(c, f[Len(s)])
    BY <1>7, <2>3, EndedIs
  <2>6. QED
    BY <1>3, <1>4, <2>1, <2>4, <2>5
<1>10. QED
  BY <1>7, <1>8, <1>9

\* A history of at most one candle: nothing is visited, and the trader only watches.
LEMMA TooShort ==
    ASSUME BacktestAssumption, NEW w \in Nat \ {0}, NEW p, NEW S, NEW s \in Seq(S),
           w = WarmupOf(Len(s)), Len(s) <= w
    PROVE  Ended(RunOnCandles(p, s)) = LiveBacktest!LiveTrades(Task(p, w), s)
<1>1. MaxWarmup \in Nat \ {0} /\ Len(s) \in Nat
  BY DEF BacktestAssumption
<1>2. PICK A : AfterOf(A, Task(p, w), s, Len(s)) /\ LiveBacktest!LiveTrades(Task(p, w), s) = A[Len(s)].closed
  BY <1>1, LiveTradesAre
<1>3. A[Len(s)] = Fresh
  <2>1. CASE Len(s) = 0
    <3>1. 0 \in 0..Len(s)
      BY <2>1
    <3>2. QED
      BY <1>2, <2>1, <3>1 DEF AfterOf
  <2>2. CASE Len(s) = 1
    <3>1. 0 \in 0..1 /\ 1 \in 0..1 /\ 1 # 0 /\ 1 - 1 = 0 /\ 1 \in 1..Len(s) /\ 1 <= w
      BY <2>2
    <3>2. A[0] = Trader(<<>>, None)
      BY <1>2, <2>2, <3>1 DEF AfterOf, Fresh, Trader
    <3>3. A[1] = LiveBacktest!See(Task(p, w), A[0], SubSeq(s, 1, 1))
      BY <1>2, <2>2, <3>1 DEF AfterOf
    <3>4. A[1] = Trader(<<>>, Decide(Task(p, w), SubSeq(s, 1, 1)))
      BY <3>1, <3>2, <3>3, SeeIs
    <3>5. Decide(Task(p, w), SubSeq(s, 1, 1)) = None
      BY <3>1, DecideIs
    <3>6. QED
      BY <2>2, <3>4, <3>5 DEF Fresh, Trader
  <2>3. Len(s) \in {0, 1}
    BY <1>1, WarmupIs
  <2>4. QED
    BY <2>1, <2>2, <2>3
<1>4. RunOnCandles(p, s) = <<>>
  BY DEF RunOnCandles
<1>5. QED
  BY <1>2, <1>3, <1>4 DEF Fresh, Ended

-----------------------------------------------------------------------------
(* The theorems *)

CandlesStored == setup \in BacktestSetups /\ candles \in Seq(CandleShapes)
             /\ Len(candles) \in Len(StoredCandles)..MaxBars

LEMMA StoredInit ==
    ASSUME BacktestAssumption PROVE BacktestInit => CandlesStored
BY DEF BacktestAssumption, BacktestInit, CandlesStored

LEMMA StoredNext ==
    ASSUME BacktestAssumption PROVE CandlesStored /\ [BacktestNext]_backtestVars => CandlesStored'
<1> SUFFICES ASSUME CandlesStored, [BacktestNext]_backtestVars PROVE CandlesStored'
  OBVIOUS
<1>1. CASE BacktestNext
  <2>1. PICK candle \in CandleShapes : StoreCandle(candle)
    BY <1>1 DEF BacktestNext
  <2>2. /\ candles \in Seq(CandleShapes) /\ Len(candles) < MaxBars
        /\ candles' = Append(candles, candle) /\ setup' = setup
    BY <2>1 DEF CandlesStored, StoreCandle
  <2>3. candles' \in Seq(CandleShapes) /\ Len(candles') = Len(candles) + 1
    BY <2>2
  <2>4. /\ Len(StoredCandles) \in Nat /\ MaxBars \in Nat
        /\ Len(candles) \in Len(StoredCandles)..MaxBars
    BY DEF BacktestAssumption, CandlesStored
  <2>5. Len(candles') \in Len(StoredCandles)..MaxBars
    BY <2>2, <2>3, <2>4
  <2>6. QED
    BY <2>2, <2>3, <2>5 DEF CandlesStored
<1>2. CASE UNCHANGED backtestVars
  BY <1>2 DEF CandlesStored, backtestVars
<1>3. QED
  BY <1>1, <1>2

LEMMA Invariance == ASSUME BacktestAssumption PROVE BacktestSpec => []CandlesStored
<1>1. BacktestInit => CandlesStored
  BY StoredInit
<1>2. CandlesStored /\ [BacktestNext]_backtestVars => CandlesStored'
  BY StoredNext
<1>3. QED
  BY <1>1, <1>2, PTL DEF BacktestSpec

\* The set-up of a backtest stays, and its history only grows.
THEOREM BacktestTypeCorrect == ASSUME BacktestAssumption PROVE BacktestSpec => []BacktestTypeOK
<1>1. CandlesStored => BacktestTypeOK
  BY DEF CandlesStored, BacktestTypeOK
<1>2. QED
  BY <1>1, Invariance, PTL

(***************************************************************************)
(* Whatever candles are stored and whatever strategy, windows and exit     *)
(* rules they are run with: the closed trades of run_on_candles are those  *)
(* of a trader who is told where to start and shown one candle after the   *)
(* other, so no decision or exit has read a candle that was not there yet, *)
(* and only candles that move the start can change a trade that has closed.*)
(***************************************************************************)
THEOREM NothingIsAhead == ASSUME BacktestAssumption PROVE BacktestSpec => []BacktestIsLive
<1>1. CandlesStored => BacktestIsLive
  <2> SUFFICES ASSUME CandlesStored PROVE BacktestIsLive
    OBVIOUS
  <2>1. setup \in BacktestSetups /\ candles \in Seq(CandleShapes)
    BY DEF CandlesStored
  <2> DEFINE w == WarmupOf(Len(candles))
  <2>2. w \in Nat \ {0} /\ Len(candles) \in Nat
    <3>1. Len(candles) \in Nat /\ MaxWarmup \in Nat \ {0}
      BY <2>1 DEF BacktestAssumption
    <3>2. QED
      BY <3>1, WarmupIs
  <2>3. \A k \in 1..Len(candles) : Bar(candles[k])
    <3>1. \A k \in 1..Len(candles) : candles[k] \in CandleShapes
      BY <2>1
    <3>2. \A c \in CandleShapes : Bar(c)
      BY DEF BacktestAssumption, Bar
    <3>3. QED
      BY <3>1, <3>2
  <2>4. TaskOn(setup, candles) = Task(setup, w)
    BY DEF TaskOn, Task
  <2> HIDE DEF w
  <2>5. w = WarmupOf(Len(candles))
    BY DEF w
  <2>6. CASE Len(candles) > w
    <3>1. Ended(RunOnCandles(setup, candles)) = LiveBacktest!LiveTrades(Task(setup, w), candles)
      BY <2>1, <2>2, <2>3, <2>5, <2>6, SameTrades
    <3>2. QED
      BY <2>4, <3>1 DEF BacktestIsLive
  <2>7. CASE Len(candles) <= w
    <3>1. Ended(RunOnCandles(setup, candles)) = LiveBacktest!LiveTrades(Task(setup, w), candles)
      BY <2>1, <2>2, <2>5, <2>7, TooShort
    <3>2. QED
      BY <2>4, <3>1 DEF BacktestIsLive
  <2>8. QED
    BY <2>2, <2>6, <2>7
<1>2. QED
  BY <1>1, Invariance, PTL

-----------------------------------------------------------------------------
(* ---------------------------- the shared equity ----------------------------- *)

\* Functions that are defined by what follows on what exist, and keep their type.
Climbing(f, base, n, next) == f = [i \in 0..n |-> IF i = 0 THEN base ELSE next[i][f[i - 1]]]

LEMMA Recursion ==
    ASSUME NEW T, NEW base \in T, NEW n \in Nat, NEW next \in [1..n -> [T -> T]]
    PROVE  \E f \in [0..n -> T] : Climbing(f, base, n, next)
<1> DEFINE Upto(m, f) == f = [i \in 0..m |-> IF i = 0 THEN base ELSE next[i][f[i - 1]]]
           G == {m \in 0..n : \E f \in [0..m -> T] : Upto(m, f)}
<1>1. 0 \in G
  <2> DEFINE f == [i \in 0..0 |-> base]
  <2>1. f \in [0..0 -> T]
    OBVIOUS
  <2>2. Upto(0, f)
    <3>1. \A i \in 0..0 : i = 0
      OBVIOUS
    <3>2. [i \in 0..0 |-> IF i = 0 THEN base ELSE next[i][f[i - 1]]] = [i \in 0..0 |-> base]
      BY <3>1
    <3>3. QED
      BY <3>2
  <2>3. 0 \in 0..n
    OBVIOUS
  <2> HIDE DEF f
  <2>4. QED
    BY <2>1, <2>2, <2>3
<1>2. ASSUME NEW m \in 0..(n - 1), m \in G PROVE m + 1 \in G
  <2>1. PICK f \in [0..m -> T] : Upto(m, f)
    BY <1>2
  <2> DEFINE g == [i \in 0..(m + 1) |-> IF i = m + 1 THEN next[m + 1][f[m]] ELSE f[i]]
  <2>2. m \in 0..m /\ m + 1 \in 1..n /\ m + 1 # 0 /\ m \in Int /\ m + 1 \in 0..n /\ (m + 1) - 1 = m
    OBVIOUS
  <2>3. next[m + 1][f[m]] \in T
    BY <2>2
  <2>4. g \in [0..(m + 1) -> T]
    <3>1. \A i \in 0..(m + 1) : i # m + 1 => i \in 0..m
      BY <2>2
    <3>2. QED
      BY <2>3, <3>1
  <2>5. (\A i \in 0..m : g[i] = f[i]) /\ g[m + 1] = next[m + 1][f[m]]
    BY <2>2
  <2>6. g = [i \in 0..(m + 1) |-> g[i]]
    BY <2>4
  <2> HIDE DEF g
  <2>7. \A i \in 0..m : g[i] = IF i = 0 THEN base ELSE next[i][g[i - 1]]
    <3> SUFFICES ASSUME NEW i \in 0..m PROVE g[i] = IF i = 0 THEN base ELSE next[i][g[i - 1]]
      OBVIOUS
    <3>1. i # 0 => i - 1 \in 0..m
      OBVIOUS
    <3>2. f[i] = IF i = 0 THEN base ELSE next[i][f[i - 1]]
      BY <2>1
    <3>3. QED
      BY <2>5, <3>1, <3>2
  <2>8. \A i \in 0..(m + 1) : i \in 0..m \/ i = m + 1
    BY <2>2
  <2>9. \A i \in 0..(m + 1) : g[i] = IF i = 0 THEN base ELSE next[i][g[i - 1]]
    <3>1. g[m + 1] = next[m + 1][g[m]]
      BY <2>2, <2>5
    <3>2. QED
      BY <2>2, <2>7, <2>8, <3>1
  <2>10. Upto(m + 1, g)
    BY <2>6, <2>9
  <2>11. QED
    BY <2>2, <2>4, <2>10
<1> HIDE DEF G
<1>3. \A m \in 0..n : m \in G
  BY <1>1, <1>2, Climb
<1>4. n \in 0..n
  OBVIOUS
<1>5. QED
  BY <1>3, <1>4 DEF G, Climbing

-----------------------------------------------------------------------------
(* Sums *)

LEMMA TotalIs ==
    ASSUME NEW s \in Seq(Int)
    PROVE  \E f :
              /\ \A i \in 0..Len(s) : f[i] \in Int
              /\ f[0] = 0 /\ \A i \in 1..Len(s) : f[i] = f[i - 1] + s[i]
              /\ TotalOf(s) = f[Len(s)]
<1> DEFINE n == Len(s)
           next == [i \in 1..n |-> [x \in Int |-> x + s[i]]]
           Sums(f) == f = [i \in 0..n |-> IF i = 0 THEN 0 ELSE f[i - 1] + s[i]]
           sums == CHOOSE f : Sums(f)
<1>1. n \in Nat /\ \A i \in 1..n : s[i] \in Int
  OBVIOUS
<1>2. next \in [1..n -> [Int -> Int]]
  BY <1>1
<1>3. TotalOf(s) = sums[n]
  BY DEF TotalOf
<1>4. \E f : Sums(f)
  <2>1. PICK f \in [0..n -> Int] : Climbing(f, 0, n, next)
    <3> HIDE DEF next, n
    <3>1. 0 \in Int
      OBVIOUS
    <3>2. QED
      BY <1>1, <1>2, <3>1, Recursion
  <2>2. \A i \in 0..n : (IF i = 0 THEN 0 ELSE next[i][f[i - 1]]) = IF i = 0 THEN 0 ELSE f[i - 1] + s[i]
    <3> SUFFICES ASSUME NEW i \in 0..n, i # 0 PROVE next[i][f[i - 1]] = f[i - 1] + s[i]
      OBVIOUS
    <3>1. i \in 1..n /\ i - 1 \in 0..n
      BY <1>1
    <3>2. f[i - 1] \in Int
      BY <3>1
    <3>3. QED
      BY <3>1, <3>2
  <2> HIDE DEF next
  <2>3. Sums(f)
    BY <2>1, <2>2 DEF Climbing
  <2>4. QED
    BY <2>3
<1> HIDE DEF next
<1>5. Sums(sums)
  BY <1>4
<1> HIDE DEF sums
<1>6. sums[0] = 0 /\ \A i \in 1..n : sums[i] = sums[i - 1] + s[i]
  <2>1. \A i \in 0..n : sums[i] = IF i = 0 THEN 0 ELSE sums[i - 1] + s[i]
    BY <1>5
  <2>2. 0 \in 0..n /\ \A i \in 1..n : i \in 0..n /\ i # 0
    BY <1>1
  <2>3. QED
    BY <2>1, <2>2
<1>7. \A i \in 0..n : sums[i] \in Int
  <2> DEFINE G == {i \in 0..n : sums[i] \in Int}
  <2>1. 0 \in G
    BY <1>1, <1>6
  <2>2. ASSUME NEW i \in 0..(n - 1), i \in G PROVE i + 1 \in G
    <3>1. i + 1 \in 1..n /\ (i + 1) - 1 = i /\ i + 1 \in 0..n
      BY <1>1
    <3>2. QED
      BY <1>1, <1>6, <2>2, <3>1
  <2> HIDE DEF G
  <2>3. \A i \in 0..n : i \in G
    BY <1>1, <2>1, <2>2, Climb
  <2>4. QED
    BY <2>3 DEF G
<1>8. QED
  BY <1>3, <1>6, <1>7

LEMMA TotalOfNone == ASSUME NEW s \in Seq(Int), Len(s) = 0 PROVE TotalOf(s) = 0
BY TotalIs

LEMMA TotalType == ASSUME NEW s \in Seq(Int) PROVE TotalOf(s) \in Int
<1>1. PICK f : TotalOf(s) = f[Len(s)] /\ \A i \in 0..Len(s) : f[i] \in Int
  BY TotalIs
<1>2. Len(s) \in 0..Len(s)
  <2>1. Len(s) \in Nat
    OBVIOUS
  <2>2. QED
    BY <2>1
<1>3. QED
  BY <1>1, <1>2

\* The total of two parts.
LEMMA TotalOfParts ==
    ASSUME NEW s \in Seq(Int), NEW t \in Seq(Int), NEW u \in Seq(Int),
           Len(u) = Len(s) + Len(t), \A i \in 1..Len(s) : u[i] = s[i],
           \A i \in 1..Len(t) : u[Len(s) + i] = t[i]
    PROVE  TotalOf(u) = TotalOf(s) + TotalOf(t)
<1>1. PICK a \in Nat : a = Len(s)
  OBVIOUS
<1>2. PICK b \in Nat : b = Len(t)
  OBVIOUS
<1>3. PICK f :
         (\A i \in 0..a : f[i] \in Int) /\ f[0] = 0 /\ (\A i \in 1..a : f[i] = f[i - 1] + s[i]) /\ TotalOf(s) = f[a]
  BY <1>1, TotalIs
<1>4. PICK g :
         (\A i \in 0..b : g[i] \in Int) /\ g[0] = 0 /\ (\A i \in 1..b : g[i] = g[i - 1] + t[i]) /\ TotalOf(t) = g[b]
  BY <1>2, TotalIs
<1>5. PICK h :
         (\A i \in 0..(a + b) : h[i] \in Int) /\ h[0] = 0 /\ (\A i \in 1..(a + b) : h[i] = h[i - 1] + u[i]) /\ TotalOf(u) = h[a + b]
  BY <1>1, <1>2, TotalIs
<1>6. (\A i \in 1..a : u[i] = s[i]) /\ (\A i \in 1..b : u[a + i] = t[i])
  BY <1>1, <1>2
<1>7. h[a] = f[a]
  <2> DEFINE G == {i \in 0..a : h[i] = f[i]}
  <2>1. 0 \in G
    BY <1>3, <1>5
  <2>2. ASSUME NEW i \in 0..(a - 1), i \in G PROVE i + 1 \in G
    <3>1. i + 1 \in 1..a /\ i + 1 \in 1..(a + b) /\ (i + 1) - 1 = i /\ i + 1 \in 0..a
      OBVIOUS
    <3>2. h[i + 1] = h[i] + u[i + 1] /\ f[i + 1] = f[i] + s[i + 1] /\ u[i + 1] = s[i + 1]
      BY <1>3, <1>5, <1>6, <3>1
    <3>3. QED
      BY <2>2, <3>1, <3>2
  <2> HIDE DEF G
  <2>3. \A i \in 0..a : i \in G
    BY <2>1, <2>2, Climb
  <2>4. a \in 0..a
    OBVIOUS
  <2>5. QED
    BY <2>3, <2>4 DEF G
<1>8. h[a + b] = f[a] + g[b]
  <2> DEFINE G == {i \in 0..b : h[a + i] = f[a] + g[i]}
  <2>1. 0 \in G
    <3>1. a + 0 = a /\ f[a] \in Int
      BY <1>3, a \in 0..a
    <3>2. QED
      BY <1>4, <1>7, <3>1
  <2>2. ASSUME NEW i \in 0..(b - 1), i \in G PROVE i + 1 \in G
    <3>1. /\ i + 1 \in 1..b /\ i \in 0..b /\ a + (i + 1) \in 1..(a + b) /\ (i + 1) - 1 = i
          /\ i + 1 \in 0..b /\ (a + (i + 1)) - 1 = a + i
      OBVIOUS
    <3>2. h[a + (i + 1)] = h[a + i] + u[a + (i + 1)] /\ g[i + 1] = g[i] + t[i + 1]
          /\ u[a + (i + 1)] = t[i + 1]
      BY <1>4, <1>5, <1>6, <3>1
    <3>3. t[i + 1] \in Int
      BY <1>2, <3>1
    <3>4. g[i] \in Int /\ f[a] \in Int
      BY <1>3, <1>4, <3>1, a \in 0..a
    <3>5. h[a + i] = f[a] + g[i]
      BY <2>2
    <3>6. h[a + (i + 1)] = f[a] + g[i + 1]
      BY <3>1, <3>2, <3>3, <3>4, <3>5, a \in 0..a
    <3>7. QED
      BY <3>1, <3>6
  <2> HIDE DEF G
  <2>3. \A i \in 0..b : i \in G
    BY <2>1, <2>2, Climb
  <2>4. b \in 0..b
    OBVIOUS
  <2>5. QED
    BY <2>3, <2>4 DEF G
<1>9. QED
  BY <1>3, <1>4, <1>5, <1>8

LEMMA TotalOfOne == ASSUME NEW x \in Int PROVE TotalOf(<<x>>) = x
<1>1. <<x>> \in Seq(Int) /\ Len(<<x>>) = 1 /\ <<x>>[1] = x
  OBVIOUS
<1>2. PICK f : (\A i \in 0..1 : f[i] \in Int) /\ f[0] = 0 /\ (\A i \in 1..1 : f[i] = f[i - 1] + <<x>>[i])
                                /\ TotalOf(<<x>>) = f[1]
  BY <1>1, TotalIs
<1>3. 1 \in 1..1 /\ 1 - 1 = 0
  OBVIOUS
<1>4. f[1] = f[0] + <<x>>[1]
  BY <1>2, <1>3
<1>5. QED
  BY <1>1, <1>2, <1>4

\* Smaller terms, smaller total.
LEMMA TotalGrows ==
    ASSUME NEW s \in Seq(Int), NEW t \in Seq(Int), Len(s) = Len(t),
           \A i \in 1..Len(s) : s[i] <= t[i]
    PROVE  TotalOf(s) <= TotalOf(t)
<1>1. PICK a \in Nat : a = Len(s)
  OBVIOUS
<1>2. PICK f :
         (\A i \in 0..a : f[i] \in Int) /\ f[0] = 0 /\ (\A i \in 1..a : f[i] = f[i - 1] + s[i]) /\ TotalOf(s) = f[a]
  BY <1>1, TotalIs
<1>3. PICK g :
         (\A i \in 0..a : g[i] \in Int) /\ g[0] = 0 /\ (\A i \in 1..a : g[i] = g[i - 1] + t[i]) /\ TotalOf(t) = g[a]
  BY <1>1, TotalIs
<1> DEFINE G == {i \in 0..a : f[i] <= g[i]}
<1>4. 0 \in G
  BY <1>2, <1>3
<1>5. ASSUME NEW i \in 0..(a - 1), i \in G PROVE i + 1 \in G
  <2>1. i + 1 \in 1..a /\ (i + 1) - 1 = i /\ i + 1 \in 0..a /\ i \in 0..a
    OBVIOUS
  <2>2. f[i + 1] = f[i] + s[i + 1] /\ g[i + 1] = g[i] + t[i + 1] /\ s[i + 1] <= t[i + 1]
    BY <1>1, <1>2, <1>3, <2>1
  <2>3. s[i + 1] \in Int /\ t[i + 1] \in Int
    BY <1>1, <2>1
  <2>4. f[i] \in Int /\ g[i] \in Int
    BY <1>2, <1>3, <2>1
  <2>5. f[i] <= g[i]
    BY <1>5
  <2>6. f[i + 1] <= g[i + 1]
    BY <2>1, <2>2, <2>3, <2>4, <2>5
  <2>7. QED
    BY <2>1, <2>6
<1> HIDE DEF G
<1>6. \A i \in 0..a : i \in G
  BY <1>4, <1>5, Climb
<1>7. a \in 0..a
  OBVIOUS
<1>8. QED
  BY <1>2, <1>3, <1>6, <1>7 DEF G

LEMMA TotalOfZeros ==
    ASSUME NEW s \in Seq(Int), \A i \in 1..Len(s) : s[i] = 0
    PROVE  TotalOf(s) = 0
<1>1. PICK f :
         (\A i \in 0..Len(s) : f[i] \in Int) /\ f[0] = 0 /\ (\A i \in 1..Len(s) : f[i] = f[i - 1] + s[i]) /\ TotalOf(s) = f[Len(s)]
  BY TotalIs
<1>2. PICK a \in Nat : a = Len(s)
  OBVIOUS
<1> DEFINE G == {i \in 0..a : f[i] = 0}
<1>3. 0 \in G
  BY <1>1
<1>4. ASSUME NEW i \in 0..(a - 1), i \in G PROVE i + 1 \in G
  <2>1. i + 1 \in 1..a /\ (i + 1) - 1 = i /\ i + 1 \in 0..a
    OBVIOUS
  <2>2. QED
    BY <1>1, <1>2, <1>4, <2>1
<1> HIDE DEF G
<1>5. \A i \in 0..a : i \in G
  BY <1>3, <1>4, Climb
<1>6. a \in 0..a
  OBVIOUS
<1>7. QED
  BY <1>1, <1>2, <1>5, <1>6 DEF G

LEMMA TotalOfOnes ==
    ASSUME NEW s \in Seq(Int), \A i \in 1..Len(s) : s[i] = 1
    PROVE  TotalOf(s) = Len(s)
<1>1. PICK f :
         (\A i \in 0..Len(s) : f[i] \in Int) /\ f[0] = 0 /\ (\A i \in 1..Len(s) : f[i] = f[i - 1] + s[i]) /\ TotalOf(s) = f[Len(s)]
  BY TotalIs
<1>2. PICK a \in Nat : a = Len(s)
  OBVIOUS
<1> DEFINE G == {i \in 0..a : f[i] = i}
<1>3. 0 \in G
  BY <1>1
<1>4. ASSUME NEW i \in 0..(a - 1), i \in G PROVE i + 1 \in G
  <2>1. i + 1 \in 1..a /\ (i + 1) - 1 = i /\ i + 1 \in 0..a
    OBVIOUS
  <2>2. QED
    BY <1>1, <1>2, <1>4, <2>1
<1> HIDE DEF G
<1>5. \A i \in 0..a : i \in G
  BY <1>3, <1>4, Climb
<1>6. a \in 0..a
  OBVIOUS
<1>7. QED
  BY <1>1, <1>2, <1>5, <1>6 DEF G

\* u is s with x put in after the first b.
PutIn(u, s, b, x) ==
    /\ Len(u) = Len(s) + 1
    /\ \A k \in 1..Len(s) + 1 : u[k] = IF k <= b THEN s[k] ELSE IF k = b + 1 THEN x ELSE s[k - 1]

PutAt(u, s, b, x) ==
    /\ Len(u) = Len(s) + 1
    /\ \A i \in 1..b : u[i] = s[i]
    /\ u[b + 1] = x
    /\ \A i \in (b + 1)..Len(s) : u[i + 1] = s[i]

LEMMA PutInIs ==
    ASSUME NEW s, NEW u, NEW x, NEW b, PutIn(u, s, b, x), Len(s) \in Nat, b \in 0..Len(s)
    PROVE  PutAt(u, s, b, x)
<1>1. Len(u) = Len(s) + 1 /\ \A k \in 1..(Len(s) + 1) :
         u[k] = IF k <= b THEN s[k] ELSE IF k = b + 1 THEN x ELSE s[k - 1]
  BY DEF PutIn
<1>2. \A i \in 1..b : i \in 1..(Len(s) + 1) /\ i <= b
  OBVIOUS
<1>3. b + 1 \in 1..(Len(s) + 1) /\ ~(b + 1 <= b)
  OBVIOUS
<1>4. ASSUME NEW i \in (b + 1)..Len(s) PROVE u[i + 1] = s[i]
  <2>1. i + 1 \in 1..(Len(s) + 1) /\ ~(i + 1 <= b) /\ i + 1 # b + 1 /\ (i + 1) - 1 = i
    OBVIOUS
  <2>2. QED
    BY <1>1, <2>1
<1>5. QED
  BY <1>1, <1>2, <1>3, <1>4 DEF PutAt

LEMMA TotalOfMore ==
    ASSUME NEW s \in Seq(Int), NEW u \in Seq(Int), NEW x \in Int, NEW b \in 0..Len(s),
           PutIn(u, s, b, x)
    PROVE  TotalOf(u) = TotalOf(s) + x
<1>1. PICK a \in Nat : a = Len(s)
  OBVIOUS
<1>2. PICK f :
         (\A i \in 0..a : f[i] \in Int) /\ f[0] = 0 /\ (\A i \in 1..a : f[i] = f[i - 1] + s[i]) /\ TotalOf(s) = f[a]
  BY <1>1, TotalIs
<1>3. b \in 0..a /\ b \in Nat /\ \A i \in 1..a : s[i] \in Int
  BY <1>1
<1>4. /\ Len(u) = a + 1 /\ u[b + 1] = x /\ \A i \in 1..b : u[i] = s[i]
      /\ \A i \in (b + 1)..a : u[i + 1] = s[i]
  <2>1. Len(s) \in Nat /\ b \in 0..Len(s) /\ PutIn(u, s, b, x)
    OBVIOUS
  <2>2. /\ Len(u) = Len(s) + 1
        /\ \A i \in 1..b : u[i] = s[i]
        /\ u[b + 1] = x
        /\ \A i \in (b + 1)..Len(s) : u[i + 1] = s[i]
    <3>1. PutAt(u, s, b, x)
      BY <2>1, PutInIs
    <3>2. QED
      BY <3>1 DEF PutAt
  <2>3. QED
    BY <1>1, <2>2
<1>5. PICK h :
         (\A i \in 0..(a + 1) : h[i] \in Int) /\ h[0] = 0 /\ (\A i \in 1..(a + 1) : h[i] = h[i - 1] + u[i]) /\ TotalOf(u) = h[a + 1]
  BY <1>4, TotalIs
<1>6. h[b] = f[b]
  <2> DEFINE G == {i \in 0..b : h[i] = f[i]}
  <2>1. 0 \in G
    BY <1>2, <1>3, <1>5
  <2>2. ASSUME NEW i \in 0..(b - 1), i \in G PROVE i + 1 \in G
    <3>1. i + 1 \in 1..a /\ i + 1 \in 1..(a + 1) /\ i + 1 \in 1..b /\ (i + 1) - 1 = i
          /\ i + 1 \in 0..b
      BY <1>3
    <3>2. h[i + 1] = h[i] + u[i + 1] /\ f[i + 1] = f[i] + s[i + 1] /\ u[i + 1] = s[i + 1]
      BY <1>2, <1>4, <1>5, <3>1
    <3>3. QED
      BY <2>2, <3>1, <3>2
  <2> HIDE DEF G
  <2>3. \A i \in 0..b : i \in G
    BY <1>3, <2>1, <2>2, Climb
  <2>4. b \in 0..b
    BY <1>3
  <2>5. QED
    BY <2>3, <2>4 DEF G
<1> DEFINE H == {i \in b..a : h[i + 1] = f[i] + x}
<1>7. b \in H
  <2>1. b + 1 \in 1..(a + 1) /\ (b + 1) - 1 = b /\ b \in b..a
    BY <1>3
  <2>2. h[b + 1] = h[b] + u[b + 1]
    BY <1>5, <2>1
  <2>3. QED
    BY <1>4, <1>6, <2>1, <2>2
<1>8. ASSUME NEW i \in b..(a - 1), i \in H PROVE i + 1 \in H
  <2>1. /\ i + 1 \in b..a /\ i + 1 \in 1..a /\ (i + 1) - 1 = i /\ i + 1 \in (b + 1)..a
        /\ (i + 1) + 1 \in 1..(a + 1) /\ ((i + 1) + 1) - 1 = i + 1 /\ i \in 0..a
    BY <1>3
  <2>2. h[(i + 1) + 1] = h[i + 1] + u[(i + 1) + 1]
    BY <1>5, <2>1
  <2>3. u[(i + 1) + 1] = s[i + 1] /\ s[i + 1] \in Int /\ f[i + 1] = f[i] + s[i + 1]
    BY <1>2, <1>3, <1>4, <2>1
  <2>4. h[i + 1] = f[i] + x
    BY <1>8
  <2>5. f[i] \in Int
    BY <1>2, <2>1
  <2>6. h[(i + 1) + 1] = (f[i] + x) + s[i + 1]
    BY <2>2, <2>3, <2>4
  <2>7. h[(i + 1) + 1] = f[i + 1] + x
    BY <2>1, <2>3, <2>5, <2>6
  <2>8. QED
    BY <2>1, <2>7
<1> HIDE DEF H
<1>9. \A i \in b..a : i \in H
  BY <1>3, <1>7, <1>8, Climb
<1>10. a \in b..a
  BY <1>3
<1>11. QED
  BY <1>2, <1>5, <1>9, <1>10 DEF H

-----------------------------------------------------------------------------
(* Sorting *)

\* A set of numbers with all smaller ones is counted by its greatest.
LEMMA CountIs ==
    ASSUME NEW n \in Nat, NEW P \in SUBSET (1..n), \A k \in P : \A j \in 1..k : j \in P
    PROVE  Cardinality(P) \in 0..n /\ P = 1..Cardinality(P)
<1> DEFINE B == {k \in 1..(n + 1) : k \notin P}
<1>1. B \in SUBSET Nat /\ n + 1 \in B
  OBVIOUS
<1>2. PICK m \in B : \A k \in B : m <= k
  BY <1>1, LeastNumber
<1>3. m \in 1..(n + 1) /\ m \notin P
  OBVIOUS
<1>4. \A k \in 1..(m - 1) : k \in P
  <2> SUFFICES ASSUME NEW k \in 1..(m - 1), k \notin P PROVE FALSE
    OBVIOUS
  <2>1. k \in 1..(n + 1) /\ ~(m <= k)
    BY <1>3
  <2>2. QED
    BY <1>2, <2>1
<1>5. \A k \in P : k \in 1..(m - 1)
  <2> SUFFICES ASSUME NEW k \in P PROVE k \in 1..(m - 1)
    OBVIOUS
  <2>1. k \in 1..n /\ m \notin 1..k
    BY <1>3
  <2>2. QED
    BY <1>3, <2>1
<1> DEFINE c == m - 1
<1>6. P = 1..c /\ c \in 0..n /\ c \in Nat
  <2>1. P = 1..c
    BY <1>4, <1>5
  <2>2. c \in 0..n /\ c \in Nat
    BY <1>3
  <2>3. QED
    BY <2>1, <2>2
<1> HIDE DEF c
<1>7. Cardinality(1..c) = c
  <2>1. 1 \in Int /\ c \in Int
    BY <1>6
  <2>2. Cardinality(1..c) = IF 1 > c THEN 0 ELSE c - 1 + 1
    BY <2>1, FS_Interval
  <2>3. QED
    BY <1>6, <2>2
<1>8. QED
  BY <1>6, <1>7

Rising(s, field) == \A i, j \in 1..Len(s) : i <= j => s[i][field] <= s[j][field]
Weighted(s, w) == [j \in DOMAIN s |-> w[s[j]]]

LEMMA WeightedIs ==
    ASSUME NEW V, NEW s \in Seq(V), NEW w \in [V -> Int]
    PROVE  /\ Weighted(s, w) \in Seq(Int) /\ Len(Weighted(s, w)) = Len(s)
           /\ \A j \in 1..Len(s) : Weighted(s, w)[j] = w[s[j]] /\ s[j] \in V
<1>1. PICK n \in Nat : n = Len(s)
  OBVIOUS
<1>2. DOMAIN s = 1..n /\ \A j \in 1..n : s[j] \in V
  BY <1>1
<1>3. \A j \in 1..n : w[s[j]] \in Int
  BY <1>2
<1>4. Weighted(s, w) = [j \in 1..n |-> w[s[j]]]
  BY <1>2 DEF Weighted
<1>5. Weighted(s, w) \in [1..n -> Int]
  BY <1>3, <1>4
<1>6. Weighted(s, w) \in Seq(Int) /\ Len(Weighted(s, w)) = n
  BY <1>5
<1>7. QED
  BY <1>1, <1>2, <1>4, <1>6

LEMMA InsertedIs ==
    ASSUME NEW V, NEW field, \A v \in V : v[field] \in Int,
           NEW s \in Seq(V), NEW x \in V, Rising(s, field)
    PROVE  /\ Inserted(s, x, field) \in Seq(V)
           /\ Rising(Inserted(s, x, field), field)
           /\ \E b \in 0..Len(s) :
                 /\ PutIn(Inserted(s, x, field), s, b, x)
                 /\ (\A k \in 1..Len(s) : s[k][field] <= x[field]) => b = Len(s)
<1>1. PICK n \in Nat : n = Len(s)
  OBVIOUS
<1>2. DOMAIN s = 1..n /\ \A k \in 1..n : s[k] \in V /\ s[k][field] \in Int
  BY <1>1
<1>3. x[field] \in Int
  OBVIOUS
<1> DEFINE P == {k \in 1..n : s[k][field] <= x[field]}
           b == Cardinality(P)
           u == Inserted(s, x, field)
<1>4. P \in SUBSET (1..n)
  OBVIOUS
<1>5. ASSUME NEW k \in P, NEW j \in 1..k PROVE j \in P
  <2>1. j \in 1..n /\ k \in 1..n /\ j <= k
    BY <1>4
  <2>2. s[j][field] <= s[k][field]
    BY <1>1, <2>1 DEF Rising
  <2>3. s[k][field] <= x[field]
    OBVIOUS
  <2>4. s[j][field] <= x[field]
    BY <1>2, <1>3, <2>1, <2>2, <2>3
  <2>5. QED
    BY <2>1, <2>4
<1>6. b \in 0..n /\ P = 1..b
  <2> HIDE DEF P
  <2>1. QED
    BY <1>4, <1>5, CountIs
<1>7. u = [k \in 1..(n + 1) |-> IF k <= b THEN s[k] ELSE IF k = b + 1 THEN x ELSE s[k - 1]]
  BY <1>1, <1>2 DEF Inserted
<1>8. /\ \A k \in 1..b : s[k][field] <= x[field]
      /\ \A k \in (b + 1)..n : s[k][field] > x[field]
  <2>1. \A k \in 1..b : k \in P
    BY <1>6
  <2>2. ASSUME NEW k \in (b + 1)..n PROVE s[k][field] > x[field]
    <3>1. k \in 1..n /\ k \notin 1..b
      BY <1>6
    <3>2. ~(s[k][field] <= x[field])
      BY <1>6, <3>1
    <3>3. QED
      BY <1>2, <1>3, <3>1, <3>2
  <2>3. QED
    BY <2>1, <2>2
<1> HIDE DEF P, b, u
<1>9. \A k \in 1..(n + 1) : /\ u[k] = IF k <= b THEN s[k] ELSE IF k = b + 1 THEN x ELSE s[k - 1]
                            /\ u[k] \in V
  <2> SUFFICES ASSUME NEW k \in 1..(n + 1)
               PROVE  /\ u[k] = IF k <= b THEN s[k] ELSE IF k = b + 1 THEN x ELSE s[k - 1]
                      /\ u[k] \in V
    OBVIOUS
  <2>1. u[k] = IF k <= b THEN s[k] ELSE IF k = b + 1 THEN x ELSE s[k - 1]
    BY <1>7
  <2>2. k <= b => k \in 1..n
    BY <1>6
  <2>3. ~(k <= b) /\ k # b + 1 => k - 1 \in 1..n
    BY <1>6
  <2>4. QED
    BY <1>2, <2>1, <2>2, <2>3
<1>10. u \in [1..(n + 1) -> V]
  BY <1>7, <1>9
<1>11. u \in Seq(V) /\ Len(u) = n + 1
  BY <1>10
<1>12. PutIn(u, s, b, x)
  BY <1>1, <1>9, <1>11 DEF PutIn
<1>13. /\ \A k \in 1..b : k \in 1..n /\ u[k] = s[k]
       /\ u[b + 1] = x
       /\ \A k \in (b + 1)..n : k \in 1..n /\ u[k + 1] = s[k]
  <2>1. Len(s) \in Nat /\ b \in 0..Len(s)
    BY <1>1, <1>6
  <2>2. /\ Len(u) = Len(s) + 1
        /\ \A k \in 1..b : u[k] = s[k]
        /\ u[b + 1] = x
        /\ \A k \in (b + 1)..Len(s) : u[k + 1] = s[k]
    <3>1. PutAt(u, s, b, x)
      BY <1>12, <2>1, PutInIs
    <3>2. QED
      BY <3>1 DEF PutAt
  <2>3. QED
    BY <1>1, <1>6, <2>2
<1>14. \A k \in 1..(n + 1) : \/ k \in 1..b
                            \/ k = b + 1
                            \/ (k - 1 \in (b + 1)..n /\ (k - 1) + 1 = k)
  BY <1>6
<1>15. ASSUME NEW i \in 1..(n + 1), NEW j \in 1..(n + 1), i <= j
       PROVE  u[i][field] <= u[j][field]
  <2>1. CASE i \in 1..b /\ j \in 1..b
    <3>1. i \in 1..n /\ j \in 1..n /\ u[i] = s[i] /\ u[j] = s[j]
      BY <1>13, <2>1
    <3>2. QED
      BY <1>1, <1>15, <3>1 DEF Rising
  <2>2. CASE i \in 1..b /\ j = b + 1
    BY <1>8, <1>13, <2>2
  <2>3. CASE i \in 1..b /\ j - 1 \in (b + 1)..n /\ (j - 1) + 1 = j
    <3>1. i \in 1..n /\ j - 1 \in 1..n /\ u[i] = s[i] /\ u[j] = s[j - 1]
      BY <1>13, <2>3
    <3>2. s[i][field] <= x[field] /\ x[field] < s[j - 1][field]
      BY <1>8, <2>3
    <3>3. s[i][field] \in Int /\ s[j - 1][field] \in Int
      BY <1>2, <3>1
    <3>4. QED
      BY <1>3, <3>1, <3>2, <3>3
  <2>4. CASE i = b + 1 /\ j = b + 1
    BY <1>3, <1>13, <2>4
  <2>5. CASE i = b + 1 /\ j - 1 \in (b + 1)..n /\ (j - 1) + 1 = j
    <3>1. j - 1 \in 1..n /\ u[i] = x /\ u[j] = s[j - 1]
      BY <1>13, <2>5
    <3>2. x[field] < s[j - 1][field]
      BY <1>8, <2>5
    <3>3. s[j - 1][field] \in Int
      BY <1>2, <3>1
    <3>4. QED
      BY <1>3, <3>1, <3>2, <3>3
  <2>6. CASE /\ i - 1 \in (b + 1)..n /\ (i - 1) + 1 = i
             /\ j - 1 \in (b + 1)..n /\ (j - 1) + 1 = j
    <3>1. i - 1 \in 1..n /\ j - 1 \in 1..n /\ u[i] = s[i - 1] /\ u[j] = s[j - 1]
      BY <1>13, <2>6
    <3>2. i - 1 <= j - 1
      BY <1>15
    <3>3. QED
      BY <1>1, <3>1, <3>2 DEF Rising
  <2>7. QED
    BY <1>6, <1>14, <1>15, <2>1, <2>2, <2>3, <2>4, <2>5, <2>6
<1>16. Rising(u, field)
  BY <1>11, <1>15 DEF Rising
<1>17. (\A k \in 1..n : s[k][field] <= x[field]) => b = n
  <2> SUFFICES ASSUME \A k \in 1..n : s[k][field] <= x[field], b # n PROVE FALSE
    OBVIOUS
  <2>1. b + 1 \in (b + 1)..n /\ b + 1 \in 1..n
    BY <1>6
  <2>2. x[field] < s[b + 1][field] /\ s[b + 1][field] <= x[field] /\ s[b + 1][field] \in Int
    BY <1>2, <1>8, <2>1
  <2>3. QED
    BY <1>3, <2>2
<1>18. QED
  BY <1>1, <1>6, <1>11, <1>12, <1>16, <1>17 DEF u

LEMMA FirstIs ==
    ASSUME NEW V, NEW s \in Seq(V), NEW n \in 0..Len(s)
    PROVE  /\ SubSeq(s, 1, n) \in Seq(V) /\ Len(SubSeq(s, 1, n)) = n
           /\ \A i \in 1..n : SubSeq(s, 1, n)[i] = s[i]
<1>1. PICK m \in Nat : m = Len(s)
  OBVIOUS
<1>2. \A i \in 1..m : s[i] \in V
  BY <1>1
<1>3. SubSeq(s, 1, n) = [i \in 1..n |-> s[i]]
  <2>1. n \in Nat /\ 1 \in Int
    BY <1>1
  <2>2. SubSeq(s, 1, n) = [i \in 1..(1 + n - 1) |-> s[i + 1 - 1]]
    BY <2>1
  <2>3. 1 + n - 1 = n /\ \A i \in 1..n : i + 1 - 1 = i
    BY <2>1
  <2>4. QED
    BY <2>2, <2>3
<1>4. \A i \in 1..n : i \in 1..m
  BY <1>1
<1>5. [i \in 1..n |-> s[i]] \in [1..n -> V] /\ n \in Nat
  BY <1>1, <1>2, <1>4
<1>6. QED
  BY <1>3, <1>5

\* Weights of a part, and of two parts.
LEMMA WeightOfMore ==
    ASSUME NEW V, NEW s \in Seq(V), NEW u \in Seq(V), NEW x \in V, NEW b \in 0..Len(s),
           PutIn(u, s, b, x), NEW w \in [V -> Int]
    PROVE  TotalOf(Weighted(u, w)) = TotalOf(Weighted(s, w)) + w[x]
<1>1. /\ Weighted(s, w) \in Seq(Int) /\ Len(Weighted(s, w)) = Len(s)
      /\ \A j \in 1..Len(s) : Weighted(s, w)[j] = w[s[j]]
  BY WeightedIs
<1>2. /\ Weighted(u, w) \in Seq(Int) /\ Len(Weighted(u, w)) = Len(u)
      /\ \A j \in 1..Len(u) : Weighted(u, w)[j] = w[u[j]]
  BY WeightedIs
<1>3. Len(u) = Len(s) + 1
  BY DEF PutIn
<1>4. PICK n \in Nat : n = Len(s)
  OBVIOUS
<1>5. b \in 0..n
  BY <1>4
<1>6. \A k \in 1..(n + 1) : u[k] = IF k <= b THEN s[k] ELSE IF k = b + 1 THEN x ELSE s[k - 1]
  BY <1>4 DEF PutIn
<1> DEFINE p == Weighted(s, w)
           q == Weighted(u, w)
<1>7. ASSUME NEW k \in 1..(n + 1)
      PROVE  q[k] = IF k <= b THEN p[k] ELSE IF k = b + 1 THEN w[x] ELSE p[k - 1]
  <2>1. q[k] = w[u[k]]
    BY <1>2, <1>3, <1>4
  <2>2. u[k] = IF k <= b THEN s[k] ELSE IF k = b + 1 THEN x ELSE s[k - 1]
    BY <1>6
  <2>3. CASE k <= b
    <3>1. k \in 1..n
      BY <1>5, <2>3
    <3>2. p[k] = w[s[k]]
      BY <1>1, <1>4, <3>1
    <3>3. QED
      BY <2>1, <2>2, <2>3, <3>2
  <2>4. CASE ~(k <= b) /\ k = b + 1
    BY <2>1, <2>2, <2>4
  <2>5. CASE ~(k <= b) /\ k # b + 1
    <3>1. k - 1 \in 1..n
      BY <1>5, <2>5
    <3>2. p[k - 1] = w[s[k - 1]]
      BY <1>1, <1>4, <3>1
    <3>3. QED
      BY <2>1, <2>2, <2>5, <3>2
  <2>6. QED
    BY <2>3, <2>4, <2>5
<1>8. p \in Seq(Int) /\ q \in Seq(Int) /\ Len(p) = n /\ Len(q) = n + 1
  BY <1>1, <1>2, <1>3, <1>4
<1>9. w[x] \in Int
  OBVIOUS
<1> HIDE DEF p, q
<1>10. PutIn(q, p, b, w[x]) /\ b \in 0..Len(p)
  BY <1>5, <1>7, <1>8 DEF PutIn
<1>11. TotalOf(q) = TotalOf(p) + w[x]
  BY <1>8, <1>9, <1>10, TotalOfMore
<1>12. QED
  BY <1>11 DEF p, q

LEMMA WeightOfParts ==
    ASSUME NEW V, NEW s \in Seq(V), NEW t \in Seq(V), NEW w \in [V -> Int]
    PROVE  TotalOf(Weighted(s \o t, w)) = TotalOf(Weighted(s, w)) + TotalOf(Weighted(t, w))
<1>1. /\ Weighted(s, w) \in Seq(Int) /\ Len(Weighted(s, w)) = Len(s)
      /\ \A j \in 1..Len(s) : Weighted(s, w)[j] = w[s[j]]
  BY WeightedIs
<1>2. /\ Weighted(t, w) \in Seq(Int) /\ Len(Weighted(t, w)) = Len(t)
      /\ \A j \in 1..Len(t) : Weighted(t, w)[j] = w[t[j]]
  BY WeightedIs
<1> DEFINE u == s \o t
<1>3. u \in Seq(V) /\ Len(u) = Len(s) + Len(t)
  OBVIOUS
<1> HIDE DEF u
<1>4. /\ Weighted(u, w) \in Seq(Int) /\ Len(Weighted(u, w)) = Len(u)
      /\ \A j \in 1..Len(u) : Weighted(u, w)[j] = w[u[j]]
  <2>1. u \in Seq(V)
    BY <1>3
  <2>2. /\ Weighted(u, w) \in Seq(Int) /\ Len(Weighted(u, w)) = Len(u)
        /\ \A j \in 1..Len(u) : Weighted(u, w)[j] = w[u[j]] /\ u[j] \in V
    BY <2>1, WeightedIs
  <2>3. QED
    BY <2>2
<1>5. PICK m \in Nat : m = Len(s)
  OBVIOUS
<1>6. PICK n \in Nat : n = Len(t)
  OBVIOUS
<1>7. (\A j \in 1..m : u[j] = s[j]) /\ (\A j \in 1..n : u[m + j] = t[j])
  BY <1>5, <1>6 DEF u
<1>8. \A j \in 1..m : Weighted(u, w)[j] = Weighted(s, w)[j]
  <2>1. \A j \in 1..m : j \in 1..Len(u) /\ j \in 1..Len(s)
    BY <1>3, <1>5, <1>6
  <2>2. QED
    BY <1>1, <1>4, <1>7, <2>1
<1>9. \A j \in 1..n : Weighted(u, w)[m + j] = Weighted(t, w)[j]
  <2>1. \A j \in 1..n : m + j \in 1..Len(u) /\ j \in 1..Len(t)
    BY <1>3, <1>5, <1>6
  <2>2. QED
    BY <1>2, <1>4, <1>7, <2>1
<1>10. TotalOf(Weighted(u, w)) = TotalOf(Weighted(s, w)) + TotalOf(Weighted(t, w))
  <2> DEFINE p == Weighted(s, w)
             q == Weighted(t, w)
             r == Weighted(u, w)
  <2>1. /\ p \in Seq(Int) /\ q \in Seq(Int) /\ r \in Seq(Int)
        /\ Len(p) = m /\ Len(q) = n /\ Len(r) = m + n
    BY <1>1, <1>2, <1>3, <1>4, <1>5, <1>6
  <2>2. (\A j \in 1..m : r[j] = p[j]) /\ (\A j \in 1..n : r[m + j] = q[j])
    BY <1>8, <1>9
  <2> HIDE DEF p, q, r
  <2>3. /\ Len(r) = Len(p) + Len(q) /\ \A j \in 1..Len(p) : r[j] = p[j]
        /\ \A j \in 1..Len(q) : r[Len(p) + j] = q[j]
    BY <2>1, <2>2
  <2>4. TotalOf(r) = TotalOf(p) + TotalOf(q)
    BY <2>1, <2>3, TotalOfParts
  <2>5. QED
    BY <2>4 DEF p, q, r
<1>11. QED
  BY <1>10 DEF u

\* One more at the end is one put in after all.
LEMMA FirstAndNext ==
    ASSUME NEW V, NEW s \in Seq(V), NEW n \in 0..(Len(s) - 1)
    PROVE  PutIn(SubSeq(s, 1, n + 1), SubSeq(s, 1, n), n, s[n + 1])
<1>1. PICK m \in Nat : m = Len(s)
  OBVIOUS
<1>2. n \in 0..Len(s) /\ n + 1 \in 0..Len(s) /\ n \in Nat
  BY <1>1
<1>3. Len(SubSeq(s, 1, n)) = n /\ \A i \in 1..n : SubSeq(s, 1, n)[i] = s[i]
  BY <1>2, FirstIs
<1>4. /\ Len(SubSeq(s, 1, n + 1)) = n + 1
      /\ \A i \in 1..(n + 1) : SubSeq(s, 1, n + 1)[i] = s[i]
  BY <1>2, FirstIs
<1>5. \A k \in 1..(n + 1) : k \in 1..n \/ (k = n + 1 /\ ~(k <= n))
  BY <1>2
<1>6. QED
  BY <1>2, <1>3, <1>4, <1>5 DEF PutIn

\* The first n of s in order: as many, of the same total weight, and s itself if it is in order.
SortOf(t, s, n, V, field) ==
    /\ t \in Seq(V) /\ Len(t) = n /\ Rising(t, field)
    /\ \A w \in [V -> Int] : TotalOf(Weighted(t, w)) = TotalOf(Weighted(SubSeq(s, 1, n), w))
    /\ Rising(s, field) => t = SubSeq(s, 1, n)

LEMMA WeightOfNone ==
    ASSUME NEW V, NEW s \in Seq(V), Len(s) = 0, NEW w \in [V -> Int]
    PROVE  TotalOf(Weighted(s, w)) = 0
<1>1. Weighted(s, w) \in Seq(Int) /\ Len(Weighted(s, w)) = Len(s)
  BY WeightedIs
<1>2. QED
  BY <1>1, TotalOfNone

LEMMA SortOfNext ==
    ASSUME NEW V, NEW field, \A v \in V : v[field] \in Int, NEW s \in Seq(V),
           NEW n \in 0..(Len(s) - 1), NEW t, SortOf(t, s, n, V, field),
           NEW x, x = s[n + 1], NEW u, u = Inserted(t, x, field)
    PROVE  SortOf(u, s, n + 1, V, field)
<1>1. PICK m \in Nat : m = Len(s)
  OBVIOUS
<1>2. n + 1 \in 1..m /\ n \in 0..m /\ n + 1 \in 0..m /\ n \in Nat
  BY <1>1
<1>3. x \in V
  BY <1>1, <1>2
<1>4. t \in Seq(V) /\ Len(t) = n /\ Rising(t, field)
  BY DEF SortOf
<1>5. /\ u \in Seq(V) /\ Rising(u, field)
      /\ \E b \in 0..Len(t) : /\ PutIn(u, t, b, x)
                              /\ (\A k \in 1..Len(t) : t[k][field] <= x[field]) => b = Len(t)
  BY <1>3, <1>4, InsertedIs
<1>6. PICK b : /\ b \in 0..Len(t) /\ PutIn(u, t, b, x)
               /\ (\A k \in 1..Len(t) : t[k][field] <= x[field]) => b = Len(t)
  BY <1>5
<1>7. Len(u) = n + 1
  BY <1>4, <1>6 DEF PutIn
<1>8. /\ SubSeq(s, 1, n) \in Seq(V) /\ Len(SubSeq(s, 1, n)) = n
      /\ \A i \in 1..n : SubSeq(s, 1, n)[i] = s[i]
  BY <1>1, <1>2, FirstIs
<1>9. /\ SubSeq(s, 1, n + 1) \in Seq(V) /\ Len(SubSeq(s, 1, n + 1)) = n + 1
      /\ \A i \in 1..(n + 1) : SubSeq(s, 1, n + 1)[i] = s[i]
  BY <1>1, <1>2, FirstIs
<1>10. PutIn(SubSeq(s, 1, n + 1), SubSeq(s, 1, n), n, x)
  BY FirstAndNext
<1>11. ASSUME NEW w \in [V -> Int]
       PROVE  TotalOf(Weighted(u, w)) = TotalOf(Weighted(SubSeq(s, 1, n + 1), w))
  <2>1. TotalOf(Weighted(u, w)) = TotalOf(Weighted(t, w)) + w[x]
    <3>1. /\ t \in Seq(V) /\ u \in Seq(V) /\ x \in V /\ b \in 0..Len(t) /\ PutIn(u, t, b, x)
      BY <1>3, <1>4, <1>5, <1>6
    <3>2. QED
      BY <3>1, WeightOfMore
  <2>2. n \in 0..Len(SubSeq(s, 1, n))
    BY <1>2, <1>8
  <2>3. TotalOf(Weighted(SubSeq(s, 1, n + 1), w)) = TotalOf(Weighted(SubSeq(s, 1, n), w)) + w[x]
    <3> DEFINE p == SubSeq(s, 1, n)
               q == SubSeq(s, 1, n + 1)
    <3>1. p \in Seq(V) /\ q \in Seq(V) /\ x \in V /\ n \in 0..Len(p) /\ PutIn(q, p, n, x)
      BY <1>3, <1>8, <1>9, <1>10, <2>2
    <3> HIDE DEF p, q
    <3>2. TotalOf(Weighted(q, w)) = TotalOf(Weighted(p, w)) + w[x]
      BY <3>1, WeightOfMore
    <3>3. QED
      BY <3>2 DEF p, q
  <2>4. TotalOf(Weighted(t, w)) = TotalOf(Weighted(SubSeq(s, 1, n), w))
    BY DEF SortOf
  <2>5. QED
    BY <2>1, <2>3, <2>4
<1>12. ASSUME Rising(s, field) PROVE u = SubSeq(s, 1, n + 1)
  <2>1. t = SubSeq(s, 1, n)
    BY <1>12 DEF SortOf
  <2>2. \A k \in 1..n : t[k][field] <= x[field]
    <3> SUFFICES ASSUME NEW k \in 1..n PROVE t[k][field] <= x[field]
      OBVIOUS
    <3>1. k \in 1..Len(s) /\ n + 1 \in 1..Len(s) /\ k <= n + 1
      BY <1>1, <1>2
    <3>2. t[k] = s[k]
      BY <1>8, <2>1
    <3>3. QED
      BY <1>12, <3>1, <3>2 DEF Rising
  <2>3. b = n
    BY <1>4, <1>6, <2>2
  <2>4. PutAt(u, t, n, x)
    BY <1>2, <1>4, <1>6, <2>3, PutInIs
  <2>5. \A k \in 1..(n + 1) : u[k] = SubSeq(s, 1, n + 1)[k]
    <3> SUFFICES ASSUME NEW k \in 1..(n + 1) PROVE u[k] = s[k]
      BY <1>9
    <3>1. CASE k \in 1..n
      BY <1>8, <2>1, <2>4, <3>1 DEF PutAt
    <3>2. CASE k = n + 1
      BY <2>4, <3>2 DEF PutAt
    <3>3. k \in 1..n \/ k = n + 1
      BY <1>2
    <3>4. QED
      BY <3>1, <3>2, <3>3
  <2>6. QED
    BY <1>5, <1>7, <1>9, <2>5, SeqEqual
<1>13. QED
  BY <1>5, <1>7, <1>11, <1>12 DEF SortOf

LEMMA SortedIs ==
    ASSUME NEW V, NEW field, \A v \in V : v[field] \in Int, NEW s \in Seq(V)
    PROVE  /\ SortedBy(field, s) \in Seq(V) /\ Len(SortedBy(field, s)) = Len(s)
           /\ Rising(SortedBy(field, s), field)
           /\ \A w \in [V -> Int] :
                 TotalOf(Weighted(SortedBy(field, s), w)) = TotalOf(Weighted(s, w))
           /\ Rising(s, field) => SortedBy(field, s) = s
<1>1. PICK n \in Nat : n = Len(s)
  OBVIOUS
<1>2. \A i \in 1..n : s[i] \in V
  BY <1>1
<1> DEFINE T == {t \in Seq(V) : Rising(t, field)}
           next == [i \in 1..n |-> [t \in T |-> Inserted(t, s[i], field)]]
           Sorts(f) == f = [i \in 0..n |-> IF i = 0 THEN <<>> ELSE Inserted(f[i - 1], s[i], field)]
           sorted == CHOOSE f : Sorts(f)
<1>3. SortedBy(field, s) = sorted[n]
  BY <1>1 DEF SortedBy
<1>4. <<>> \in T
  <2>1. <<>> \in Seq(V) /\ Len(<<>>) = 0
    OBVIOUS
  <2>2. Rising(<<>>, field)
    BY <2>1 DEF Rising
  <2>3. QED
    BY <2>1, <2>2
<1>5. next \in [1..n -> [T -> T]]
  <2>1. ASSUME NEW i \in 1..n, NEW t \in T PROVE Inserted(t, s[i], field) \in T
    <3>1. t \in Seq(V) /\ Rising(t, field) /\ s[i] \in V
      BY <1>2
    <3>2. Inserted(t, s[i], field) \in Seq(V) /\ Rising(Inserted(t, s[i], field), field)
      BY <3>1, InsertedIs
    <3>3. QED
      BY <3>2
  <2> HIDE DEF T
  <2>2. QED
    BY <2>1
<1>6. \E f : Sorts(f)
  <2> HIDE DEF next, T
  <2>1. PICK f \in [0..n -> T] : Climbing(f, <<>>, n, next)
    BY <1>4, <1>5, Recursion
  <2>2. ASSUME NEW i \in 0..n
        PROVE  (IF i = 0 THEN <<>> ELSE next[i][f[i - 1]])
                 = IF i = 0 THEN <<>> ELSE Inserted(f[i - 1], s[i], field)
    <3> SUFFICES ASSUME i # 0 PROVE next[i][f[i - 1]] = Inserted(f[i - 1], s[i], field)
      OBVIOUS
    <3>1. i \in 1..n /\ i - 1 \in 0..n
      OBVIOUS
    <3>2. f[i - 1] \in T
      BY <3>1
    <3>3. QED
      BY <3>1, <3>2 DEF next
  <2>3. Sorts(f)
    BY <2>1, <2>2 DEF Climbing
  <2>4. QED
    BY <2>3
<1> HIDE DEF next, T
<1>7. Sorts(sorted)
  BY <1>6
<1> HIDE DEF sorted
<1>8. sorted[0] = <<>> /\ \A i \in 1..n : sorted[i] = Inserted(sorted[i - 1], s[i], field)
  <2>1. \A i \in 0..n : sorted[i] = IF i = 0 THEN <<>> ELSE Inserted(sorted[i - 1], s[i], field)
    BY <1>7
  <2>2. 0 \in 0..n /\ \A i \in 1..n : i \in 0..n /\ i # 0
    OBVIOUS
  <2>3. QED
    BY <2>1, <2>2
<1> HIDE DEF Sorts
<1> DEFINE G == {i \in 0..n : SortOf(sorted[i], s, i, V, field)}
<1>9. 0 \in G
  <2>1. <<>> \in Seq(V) /\ Len(<<>>) = 0 /\ Rising(<<>>, field)
    BY <1>4 DEF T
  <2>2. 0 \in 0..Len(s)
    BY <1>1
  <2>3. SubSeq(s, 1, 0) \in Seq(V) /\ Len(SubSeq(s, 1, 0)) = 0
    BY <2>2, FirstIs
  <2>4. SubSeq(s, 1, 0) = <<>>
    BY <2>3
  <2>5. SortOf(<<>>, s, 0, V, field)
    BY <2>1, <2>4 DEF SortOf
  <2>6. QED
    BY <1>8, <2>5
<1>10. ASSUME NEW i \in 0..(n - 1), i \in G PROVE i + 1 \in G
  <2>1. i + 1 \in 1..n /\ (i + 1) - 1 = i /\ i + 1 \in 0..n /\ i \in 0..(Len(s) - 1)
    BY <1>1
  <2>2. sorted[i + 1] = Inserted(sorted[i], s[i + 1], field)
    BY <1>8, <2>1
  <2>3. SortOf(sorted[i], s, i, V, field)
    BY <1>10
  <2>4. SortOf(sorted[i + 1], s, i + 1, V, field)
    BY <2>1, <2>2, <2>3, SortOfNext
  <2>5. QED
    BY <2>1, <2>4
<1> HIDE DEF G
<1>11. \A i \in 0..n : i \in G
  BY <1>9, <1>10, Climb
<1>12. SortOf(sorted[n], s, n, V, field)
  <2>1. n \in 0..n
    OBVIOUS
  <2>2. QED
    BY <1>11, <2>1 DEF G
<1>13. SubSeq(s, 1, n) = s
  <2>1. n \in 0..Len(s)
    BY <1>1
  <2>2. /\ SubSeq(s, 1, n) \in Seq(V) /\ Len(SubSeq(s, 1, n)) = n
        /\ \A i \in 1..n : SubSeq(s, 1, n)[i] = s[i]
    BY <2>1, FirstIs
  <2>3. QED
    BY <1>1, <2>2, SeqEqual
<1>14. QED
  BY <1>1, <1>3, <1>12, <1>13 DEF SortOf

-----------------------------------------------------------------------------
(* The results, the notionals and what runs beside a trade, as weights *)

Deals == {t \in [entry : Int, exit : Int, notional : Int, equity : Int, pnl : Int] :
             t.entry <= t.exit /\ t.notional > 0}
Results == [u \in Deals |-> u.pnl]
Notionals == [u \in Deals |-> u.notional]
Ones(t) == [u \in Deals |-> IF Beside(u, t) THEN 1 ELSE 0]
Loads(t) == [u \in Deals |-> IF Beside(u, t) THEN u.notional ELSE 0]
Weight(s, w) == TotalOf(Weighted(s, w))

LEMMA DealIs ==
    ASSUME NEW t \in Deals
    PROVE  /\ t.entry \in Int /\ t.exit \in Int /\ t.notional \in Int /\ t.equity \in Int
           /\ t.pnl \in Int /\ t.entry <= t.exit /\ t.notional > 0
BY DEF Deals

LEMMA FieldsOfDeals == \A v \in Deals : v["exit"] \in Int /\ v["exit"] = v.exit
BY DealIs

LEMMA WeightsAre ==
    ASSUME NEW t
    PROVE  /\ Results \in [Deals -> Int] /\ Notionals \in [Deals -> Int]
           /\ Ones(t) \in [Deals -> Int] /\ Loads(t) \in [Deals -> Int]
BY DealIs DEF Results, Notionals, Ones, Loads

LEMMA WeightType ==
    ASSUME NEW s \in Seq(Deals), NEW w \in [Deals -> Int]
    PROVE  Weight(s, w) \in Int
<1>1. Weighted(s, w) \in Seq(Int)
  BY WeightedIs
<1>2. QED
  BY <1>1, TotalType DEF Weight

LEMMA TotalsAreWeights ==
    ASSUME NEW s \in Seq(Deals), NEW t
    PROVE  /\ ResultOf(s) = Weight(s, Results)
           /\ NotionalOf(s) = Weight(s, Notionals)
           /\ TotalOf([j \in DOMAIN s |-> IF Beside(s[j], t) THEN 1 ELSE 0]) = Weight(s, Ones(t))
           /\ TotalOf([j \in DOMAIN s |-> IF Beside(s[j], t) THEN s[j].notional ELSE 0])
                 = Weight(s, Loads(t))
<1>1. \A i \in DOMAIN s : s[i] \in Deals
  OBVIOUS
<1>2. [i \in DOMAIN s |-> s[i].pnl] = [i \in DOMAIN s |-> Results[s[i]]]
  BY <1>1 DEF Results
<1>3. [i \in DOMAIN s |-> s[i].notional] = [i \in DOMAIN s |-> Notionals[s[i]]]
  BY <1>1 DEF Notionals
<1>4. [i \in DOMAIN s |-> IF Beside(s[i], t) THEN 1 ELSE 0] = [i \in DOMAIN s |-> Ones(t)[s[i]]]
  BY <1>1 DEF Ones
<1>5. [i \in DOMAIN s |-> IF Beside(s[i], t) THEN s[i].notional ELSE 0]
         = [i \in DOMAIN s |-> Loads(t)[s[i]]]
  BY <1>1 DEF Loads
<1>6. QED
  BY <1>2, <1>3, <1>4, <1>5 DEF ResultOf, NotionalOf, Weight, Weighted

LEMMA WeightOfTwo ==
    ASSUME NEW s \in Seq(Deals), NEW t \in Seq(Deals), NEW w \in [Deals -> Int]
    PROVE  s \o t \in Seq(Deals) /\ Weight(s \o t, w) = Weight(s, w) + Weight(t, w)
<1>1. s \o t \in Seq(Deals)
  OBVIOUS
<1>2. QED
  BY <1>1, WeightOfParts DEF Weight

LEMMA WeightsOfNone ==
    ASSUME NEW s \in Seq(Deals), NEW w \in [Deals -> Int], \A i \in 1..Len(s) : w[s[i]] = 0
    PROVE  Weight(s, w) = 0
<1>1. /\ Weighted(s, w) \in Seq(Int) /\ Len(Weighted(s, w)) = Len(s)
      /\ \A j \in 1..Len(s) : Weighted(s, w)[j] = w[s[j]] /\ s[j] \in Deals
  BY WeightedIs
<1>2. \A i \in 1..Len(Weighted(s, w)) : Weighted(s, w)[i] = 0
  BY <1>1
<1>3. QED
  BY <1>1, <1>2, TotalOfZeros DEF Weight

LEMMA HeavierWeights ==
    ASSUME NEW s \in Seq(Deals), NEW v \in [Deals -> Int], NEW w \in [Deals -> Int],
           \A u \in Deals : v[u] <= w[u]
    PROVE  Weight(s, v) <= Weight(s, w)
<1>1. /\ Weighted(s, w) \in Seq(Int) /\ Len(Weighted(s, w)) = Len(s)
      /\ \A j \in 1..Len(s) : Weighted(s, w)[j] = w[s[j]] /\ s[j] \in Deals
  BY WeightedIs
<1>2. /\ Weighted(s, v) \in Seq(Int) /\ Len(Weighted(s, v)) = Len(s)
      /\ \A j \in 1..Len(s) : Weighted(s, v)[j] = v[s[j]] /\ s[j] \in Deals
  BY WeightedIs
<1> DEFINE p == Weighted(s, v)
           q == Weighted(s, w)
<1>3. /\ p \in Seq(Int) /\ q \in Seq(Int) /\ Len(p) = Len(q)
      /\ \A i \in 1..Len(p) : p[i] <= q[i]
  BY <1>1, <1>2
<1> HIDE DEF p, q
<1>4. TotalOf(p) <= TotalOf(q)
  BY <1>3, TotalGrows
<1>5. QED
  BY <1>4 DEF p, q, Weight

LEMMA FewerThanAll ==
    ASSUME NEW s \in Seq(Deals), NEW t
    PROVE  Weight(s, Ones(t)) <= Len(s) /\ Weight(s, Loads(t)) <= Weight(s, Notionals)
<1> DEFINE each == [u \in Deals |-> 1]
<1>1. each \in [Deals -> Int]
  OBVIOUS
<1>2. \A u \in Deals : Ones(t)[u] <= each[u] /\ Loads(t)[u] <= Notionals[u]
  BY DealIs DEF Ones, Loads, Notionals
<1>3. /\ Weighted(s, each) \in Seq(Int) /\ Len(Weighted(s, each)) = Len(s)
      /\ \A j \in 1..Len(s) : Weighted(s, each)[j] = each[s[j]] /\ s[j] \in Deals
  BY <1>1, WeightedIs
<1>4. \A j \in 1..Len(Weighted(s, each)) : Weighted(s, each)[j] = 1
  BY <1>3
<1> HIDE DEF each
<1>5. Weight(s, each) = Len(s)
  BY <1>3, <1>4, TotalOfOnes DEF Weight
<1>6. Weight(s, Ones(t)) <= Weight(s, each)
  BY <1>1, <1>2, WeightsAre, HeavierWeights
<1>7. Weight(s, Loads(t)) <= Weight(s, Notionals)
  BY <1>2, WeightsAre, HeavierWeights
<1>8. QED
  BY <1>5, <1>6, <1>7

LEMMA RestIs ==
    ASSUME NEW S, NEW s \in Seq(S), NEW n \in 0..Len(s)
    PROVE  /\ SubSeq(s, n + 1, Len(s)) \in Seq(S) /\ Len(SubSeq(s, n + 1, Len(s))) = Len(s) - n
           /\ \A i \in 1..(Len(s) - n) :
                 n + i \in 1..Len(s) /\ SubSeq(s, n + 1, Len(s))[i] = s[n + i]
<1>1. Len(s) \in Nat /\ n \in Nat /\ n <= Len(s)
  OBVIOUS
<1>2. \A i \in (n + 1)..Len(s) : s[i] \in S
  BY <1>1
<1>3. SubSeq(s, n + 1, Len(s)) \in Seq(S) /\ Len(SubSeq(s, n + 1, Len(s))) = Len(s) - n
  BY <1>1, <1>2
<1>4. \A i \in 1..(Len(s) - n) :
         n + i \in 1..Len(s) /\ SubSeq(s, n + 1, Len(s))[i] = s[n + i]
  BY <1>1
<1>5. QED
  BY <1>3, <1>4

LEMMA ConcatIs ==
    ASSUME NEW S, NEW s \in Seq(S), NEW t \in Seq(S)
    PROVE  /\ s \o t \in Seq(S) /\ Len(s \o t) = Len(s) + Len(t)
           /\ \A i \in 1..Len(s) : (s \o t)[i] = s[i]
           /\ \A i \in 1..Len(t) : (s \o t)[Len(s) + i] = t[i]
<1>1. Len(s) \in Nat /\ Len(t) \in Nat
  OBVIOUS
<1>2. s \o t \in Seq(S) /\ Len(s \o t) = Len(s) + Len(t)
  OBVIOUS
<1>3. \A i \in 1..Len(s) : (s \o t)[i] = s[i]
  BY <1>1
<1>4. ASSUME NEW i \in 1..Len(t) PROVE (s \o t)[Len(s) + i] = t[i]
  <2>1. /\ Len(s) + i \in 1..(Len(s) + Len(t)) /\ ~(Len(s) + i <= Len(s))
        /\ (Len(s) + i) - Len(s) = i
    BY <1>1
  <2>2. QED
    BY <2>1
<1>5. QED
  BY <1>2, <1>3, <1>4

LEMMA PartsAreWhole ==
    ASSUME NEW S, NEW q \in Seq(S), NEW n \in 0..Len(q)
    PROVE  SubSeq(q, 1, n) \o SubSeq(q, n + 1, Len(q)) = q
<1> DEFINE first == SubSeq(q, 1, n)
           rest == SubSeq(q, n + 1, Len(q))
<1>1. PICK m \in Nat : m = Len(q)
  OBVIOUS
<1>2. n \in Nat /\ n <= m
  BY <1>1
<1>3. first \in Seq(S) /\ Len(first) = n /\ \A i \in 1..n : first[i] = q[i]
  BY FirstIs
<1>4. /\ rest \in Seq(S) /\ Len(rest) = m - n
      /\ \A i \in 1..(m - n) : rest[i] = q[n + i]
  BY <1>1, RestIs
<1> HIDE DEF first, rest
<1>5. /\ first \o rest \in Seq(S) /\ Len(first \o rest) = Len(first) + Len(rest)
      /\ \A i \in 1..Len(first) : (first \o rest)[i] = first[i]
      /\ \A i \in 1..Len(rest) : (first \o rest)[Len(first) + i] = rest[i]
  <2>1. first \in Seq(S) /\ rest \in Seq(S)
    BY <1>3, <1>4
  <2>2. QED
    BY <2>1, ConcatIs
<1>6. Len(first \o rest) = m
  BY <1>2, <1>3, <1>4, <1>5
<1>7. ASSUME NEW i \in 1..m PROVE (first \o rest)[i] = q[i]
  <2>1. CASE i \in 1..n
    BY <1>3, <1>5, <2>1
  <2>2. CASE i - n \in 1..(m - n) /\ n + (i - n) = i
    <3>1. (first \o rest)[n + (i - n)] = rest[i - n]
      BY <1>3, <1>4, <1>5, <2>2
    <3>2. QED
      BY <1>4, <2>2, <3>1
  <2>3. i \in 1..n \/ (i - n \in 1..(m - n) /\ n + (i - n) = i)
    BY <1>2
  <2>4. QED
    BY <2>1, <2>2, <2>3
<1>8. first \o rest = q
  BY <1>1, <1>5, <1>6, <1>7, SeqEqual
<1>9. QED
  BY <1>8 DEF first, rest

(* Payments *)

Accounts == [equity : Int, open : Seq(Deals), trades : Seq(Deals), stopped : BOOLEAN]

\* Account b is a after the first n of its open trades, which leave in the order q, are paid.
AfterPaying(a, b, q, n) ==
    /\ b \in Accounts /\ q \in Seq(Deals) /\ Len(q) = Len(a.open) /\ Rising(q, "exit")
    /\ b.equity = a.equity + ResultOf(SubSeq(q, 1, n))
    /\ b.open = SubSeq(q, n + 1, Len(q))
    /\ b.trades = a.trades \o SubSeq(q, 1, n)
    /\ b.stopped = a.stopped
    /\ \A w \in [Deals -> Int] : Weight(q, w) = Weight(a.open, w)

LEMMA PayIs ==
    ASSUME NEW a \in Accounts, NEW n \in 0..Len(a.open)
    PROVE  AfterPaying(a, Pay(a, n), ByExit(a.open), n)
<1> DEFINE q == ByExit(a.open)
           b == Pay(a, n)
<1>1. /\ a.equity \in Int /\ a.open \in Seq(Deals) /\ a.trades \in Seq(Deals)
      /\ a.stopped \in BOOLEAN
      /\ a = [equity |-> a.equity, open |-> a.open, trades |-> a.trades, stopped |-> a.stopped]
  BY DEF Accounts
<1>2. \A v \in Deals : v["exit"] \in Int
  BY FieldsOfDeals
<1>3. /\ q \in Seq(Deals) /\ Len(q) = Len(a.open) /\ Rising(q, "exit")
      /\ \A w \in [Deals -> Int] : Weight(q, w) = Weight(a.open, w)
  <2> DEFINE s == a.open
  <2>1. s \in Seq(Deals)
    BY <1>1
  <2> HIDE DEF s
  <2>2. /\ SortedBy("exit", s) \in Seq(Deals) /\ Len(SortedBy("exit", s)) = Len(s)
        /\ Rising(SortedBy("exit", s), "exit")
        /\ \A w \in [Deals -> Int] :
              TotalOf(Weighted(SortedBy("exit", s), w)) = TotalOf(Weighted(s, w))
        /\ Rising(s, "exit") => SortedBy("exit", s) = s
    BY <1>2, <2>1, SortedIs
  <2>3. QED
    BY <2>2 DEF s, ByExit, Weight
<1>4. b = [a EXCEPT !.equity = @ + ResultOf(SubSeq(q, 1, n)),
                    !.open = SubSeq(q, n + 1, Len(q)),
                    !.trades = @ \o SubSeq(q, 1, n)]
  BY DEF Pay
<1> HIDE DEF q
<1>5. SubSeq(q, 1, n) \in Seq(Deals) /\ SubSeq(q, n + 1, Len(q)) \in Seq(Deals)
  <2>1. n \in 0..Len(q)
    BY <1>3
  <2>2. QED
    BY <1>3, <2>1, FirstIs, RestIs
<1>6. ResultOf(SubSeq(q, 1, n)) \in Int
  BY <1>5, TotalsAreWeights, WeightsAre, WeightType
<1>7. a.trades \o SubSeq(q, 1, n) \in Seq(Deals)
  BY <1>1, <1>5
<1> HIDE DEF b
<1>8. b = [equity |-> a.equity + ResultOf(SubSeq(q, 1, n)), open |-> SubSeq(q, n + 1, Len(q)),
           trades |-> a.trades \o SubSeq(q, 1, n), stopped |-> a.stopped]
  BY <1>1, <1>4
<1>9. b \in Accounts
  BY <1>1, <1>5, <1>6, <1>7, <1>8 DEF Accounts
<1>10. /\ b.equity = a.equity + ResultOf(SubSeq(q, 1, n)) /\ b.open = SubSeq(q, n + 1, Len(q))
       /\ b.trades = a.trades \o SubSeq(q, 1, n) /\ b.stopped = a.stopped
  BY <1>8
<1>11. AfterPaying(a, b, q, n)
  BY <1>3, <1>9, <1>10 DEF AfterPaying
<1>12. QED
  BY <1>11 DEF q, b

\* What is true of all open trades stays true of them in the order they leave.
LEMMA QueueKeeps ==
    ASSUME NEW S \in SUBSET Deals, NEW s \in Seq(S)
    PROVE  ByExit(s) \in Seq(S)
<1>1. \A v \in S : v["exit"] \in Int
  BY FieldsOfDeals
<1>2. QED
  BY <1>1, SortedIs DEF ByExit

\* Paying changes no total over what is closed and open.
LEMMA MovedWeights ==
    ASSUME NEW a \in Accounts, NEW b, NEW q, NEW n \in 0..Len(a.open), AfterPaying(a, b, q, n),
           NEW w \in [Deals -> Int]
    PROVE  Weight(b.trades, w) + Weight(b.open, w) = Weight(a.trades, w) + Weight(a.open, w)
<1> DEFINE first == SubSeq(q, 1, n)
           rest == SubSeq(q, n + 1, Len(q))
<1>1. q \in Seq(Deals) /\ n \in 0..Len(q) /\ n \in Nat
  BY DEF AfterPaying
<1>2. first \in Seq(Deals) /\ Len(first) = n /\ \A i \in 1..n : first[i] = q[i]
  BY <1>1, FirstIs
<1>3. /\ rest \in Seq(Deals) /\ Len(rest) = Len(q) - n
      /\ \A i \in 1..(Len(q) - n) : rest[i] = q[n + i]
  BY <1>1, RestIs
<1>4. a.trades \in Seq(Deals) /\ a.open \in Seq(Deals)
  BY DEF Accounts
<1>5. b.trades = a.trades \o first /\ b.open = rest /\ Weight(q, w) = Weight(a.open, w)
  BY DEF AfterPaying
<1> HIDE DEF first, rest
<1>6. first \o rest = q
  BY <1>1, PartsAreWhole DEF first, rest
<1>7. Weight(a.trades \o first, w) = Weight(a.trades, w) + Weight(first, w)
  BY <1>2, <1>4, WeightOfTwo
<1>8. Weight(q, w) = Weight(first, w) + Weight(rest, w)
  BY <1>2, <1>3, <1>6, WeightOfTwo
<1>9. Weight(a.trades, w) \in Int /\ Weight(first, w) \in Int /\ Weight(rest, w) \in Int
  BY <1>2, <1>3, <1>4, WeightType
<1>10. QED
  BY <1>5, <1>7, <1>8, <1>9

(* The ledger of an account *)

Later(u, t) == u.exit > t.entry \/ (u.exit = t.entry /\ u.entry = t.entry)

\* The equity t was sized on is what the first of the closed trades, at most n, left.
SizedFrom(t, trades, n, start) ==
    \E k \in 0..n :
        /\ t.equity = start + Weight(SubSeq(trades, 1, k), Results)
        /\ \A j \in 1..k : trades[j].exit <= t.entry
        /\ \A j \in (k + 1)..Len(trades) : Later(trades[j], t)

Fits(t, a) ==
    /\ Weight(a.trades, Ones(t)) + Weight(a.open, Ones(t)) < MaxConcurrent
    /\ Weight(a.trades, Loads(t)) + Weight(a.open, Loads(t)) + t.notional <= t.equity * MaxGross

\* What is true of an open trade of account a, whose last candidate entered at now.
Running(t, a, start, now) ==
    /\ t.entry <= now /\ now <= t.exit /\ (t.exit = now => t.entry = now)
    /\ \A j \in 1..Len(a.trades) : a.trades[j].exit <= t.exit
    /\ SizedFrom(t, a.trades, Len(a.trades), start) /\ Fits(t, a)

Closed(i, a, start, now) ==
    /\ a.trades[i].entry <= now
    /\ SizedFrom(a.trades[i], a.trades, i - 1, start) /\ Fits(a.trades[i], a)

\* All its trades are in W.
Ledger(a, W, start, now) ==
    /\ a \in Accounts
    /\ a.equity = start + Weight(a.trades, Results)
    /\ Rising(a.trades, "exit")
    /\ \A i \in 1..Len(a.trades) : a.trades[i] \in W /\ Closed(i, a, start, now)
    /\ \A i \in 1..Len(a.open) : a.open[i] \in W /\ Running(a.open[i], a, start, now)

LEMMA AccountIs ==
    ASSUME NEW a \in Accounts
    PROVE  /\ a.equity \in Int /\ a.open \in Seq(Deals) /\ a.trades \in Seq(Deals)
           /\ a.stopped \in BOOLEAN /\ Len(a.open) \in Nat /\ Len(a.trades) \in Nat
<1>1. a.equity \in Int /\ a.open \in Seq(Deals) /\ a.trades \in Seq(Deals) /\ a.stopped \in BOOLEAN
  BY DEF Accounts
<1>2. QED
  BY <1>1

\* More closed trades that are later than t: it is still sized from the first of them.
LEMMA StillSized ==
    ASSUME NEW s \in Seq(Deals), NEW r \in Seq(Deals), NEW t, NEW start,
           NEW n \in 0..Len(s), SizedFrom(t, s, n, start),
           NEW m \in Nat, n <= m, \A j \in 1..Len(r) : Later(r[j], t)
    PROVE  SizedFrom(t, s \o r, m, start)
<1>1. PICK k \in 0..n :
        /\ t.equity = start + Weight(SubSeq(s, 1, k), Results)
        /\ \A j \in 1..k : s[j].exit <= t.entry
        /\ \A j \in (k + 1)..Len(s) : Later(s[j], t)
  BY DEF SizedFrom
<1>2. PICK a \in Nat : a = Len(s)
  OBVIOUS
<1>3. PICK b \in Nat : b = Len(r)
  OBVIOUS
<1> DEFINE u == s \o r
<1>4. /\ u \in Seq(Deals) /\ Len(u) = a + b
      /\ \A i \in 1..a : u[i] = s[i]
      /\ \A i \in 1..b : u[a + i] = r[i]
  BY <1>2, <1>3, ConcatIs
<1> HIDE DEF u
<1>5. n \in Nat /\ n <= a /\ k \in Nat /\ k <= n /\ k \in 0..Len(s) /\ k \in 0..Len(u) /\ k \in 0..m
  BY <1>2, <1>3, <1>4
<1>6. /\ SubSeq(s, 1, k) \in Seq(Deals) /\ Len(SubSeq(s, 1, k)) = k
      /\ \A i \in 1..k : SubSeq(s, 1, k)[i] = s[i]
  BY <1>5, FirstIs
<1>7. /\ SubSeq(u, 1, k) \in Seq(Deals) /\ Len(SubSeq(u, 1, k)) = k
      /\ \A i \in 1..k : SubSeq(u, 1, k)[i] = u[i]
  BY <1>4, <1>5, FirstIs
<1>8. \A i \in 1..k : u[i] = s[i]
  BY <1>4, <1>5
<1>9. SubSeq(u, 1, k) = SubSeq(s, 1, k)
  BY <1>6, <1>7, <1>8, SeqEqual
<1>10. ASSUME NEW j \in (k + 1)..Len(u) PROVE Later(u[j], t)
  <2>1. CASE j \in 1..a
    <3>1. j \in (k + 1)..Len(s) /\ u[j] = s[j]
      BY <1>2, <1>4, <1>5, <2>1
    <3>2. QED
      BY <1>1, <3>1
  <2>2. CASE j - a \in 1..b /\ a + (j - a) = j
    <3>1. u[j] = r[j - a]
      BY <1>4, <2>2
    <3>2. QED
      BY <1>3, <2>2, <3>1
  <2>3. j \in 1..a \/ (j - a \in 1..b /\ a + (j - a) = j)
    BY <1>4, <1>5
  <2>4. QED
    BY <2>1, <2>2, <2>3
<1>11. \A j \in 1..k : u[j].exit <= t.entry
  BY <1>1, <1>8
<1>12. SizedFrom(t, u, m, start)
  BY <1>1, <1>5, <1>9, <1>10, <1>11 DEF SizedFrom
<1>13. QED
  BY <1>12 DEF u

LEMMA StillFits ==
    ASSUME NEW a \in Accounts, NEW b, NEW q, NEW n \in 0..Len(a.open), AfterPaying(a, b, q, n),
           NEW t, Fits(t, a)
    PROVE  Fits(t, b)
<1>1. Ones(t) \in [Deals -> Int] /\ Loads(t) \in [Deals -> Int]
  BY WeightsAre
<1>2. Weight(b.trades, Ones(t)) + Weight(b.open, Ones(t)) = Weight(a.trades, Ones(t)) + Weight(a.open, Ones(t))
  BY <1>1, MovedWeights
<1>3. Weight(b.trades, Loads(t)) + Weight(b.open, Loads(t)) = Weight(a.trades, Loads(t)) + Weight(a.open, Loads(t))
  BY <1>1, MovedWeights
<1>4. QED
  BY <1>2, <1>3 DEF Fits

\* Any trade that was open is later than those that were entered.
LEMMA OpenIsLater ==
    ASSUME NEW u \in Deals, NEW t \in Deals, NEW now \in Int,
           now <= u.exit, u.exit = now => u.entry = now, t.entry <= now, u.entry <= now
    PROVE  Later(u, t)
BY DealIs DEF Later

\* The closed trades of b are those of a and the first n of q, the open ones the rest.
Paid(a, b, q, n) ==
    /\ Len(b.open) = Len(a.open) - n
    /\ \A i \in 1..Len(b.open) : b.open[i] = q[n + i]
    /\ Len(b.trades) = Len(a.trades) + n
    /\ \A i \in 1..Len(a.trades) : b.trades[i] = a.trades[i]
    /\ \A i \in 1..n : b.trades[Len(a.trades) + i] = q[i]

LEMMA LedgerPaid ==
    ASSUME NEW a, NEW W \in SUBSET Deals, NEW start \in Int, NEW now \in Int,
           Ledger(a, W, start, now),
           NEW n \in 0..Len(a.open), NEW b, NEW q, q = ByExit(a.open), AfterPaying(a, b, q, n)
    PROVE  Ledger(b, W, start, now) /\ Paid(a, b, q, n)
<1> DEFINE first == SubSeq(q, 1, n)
           Good == {t \in W : Running(t, a, start, now)}
<1>1. /\ a \in Accounts /\ a.equity = start + Weight(a.trades, Results)
      /\ Rising(a.trades, "exit")
      /\ \A i \in 1..Len(a.trades) : a.trades[i] \in W /\ Closed(i, a, start, now)
      /\ \A i \in 1..Len(a.open) : a.open[i] \in W /\ Running(a.open[i], a, start, now)
  BY DEF Ledger
<1>2. a.equity \in Int /\ a.open \in Seq(Deals) /\ a.trades \in Seq(Deals)
  BY <1>1, AccountIs
<1>3. PICK c \in Nat : c = Len(a.trades)
  BY <1>2
<1>4. PICK o \in Nat : o = Len(a.open)
  BY <1>2
<1>5. /\ b \in Accounts /\ q \in Seq(Deals) /\ Len(q) = o /\ Rising(q, "exit")
      /\ b.equity = a.equity + ResultOf(first) /\ b.open = SubSeq(q, n + 1, Len(q))
      /\ b.trades = a.trades \o first
  BY <1>4 DEF AfterPaying
<1>6. \A i \in 1..o : q[i] \in Good
  <2>1. a.open \in Seq(Good)
    <3>1. \A i \in 1..o : a.open[i] \in Good
      BY <1>1, <1>4
    <3>2. a.open = [i \in 1..o |-> a.open[i]]
      <4>1. a.open \in Seq(Deals)
        BY <1>2
      <4>2. QED
        BY ONLY <1>4, <4>1
    <3> HIDE DEF Good
    <3>3. a.open \in [1..o -> Good]
      BY <3>1, <3>2
    <3>4. QED
      BY <3>3
  <2>2. Good \in SUBSET Deals
    OBVIOUS
  <2> HIDE DEF Good
  <2>3. q \in Seq(Good)
    BY <2>1, <2>2, QueueKeeps
  <2>4. QED
    BY <1>5, <2>3
<1>7. \A i \in 1..o : q[i] \in W /\ q[i] \in Deals /\ Running(q[i], a, start, now)
  BY <1>6
<1> HIDE DEF Good
<1>8. n \in 0..Len(q) /\ n \in Nat /\ n <= o
  BY <1>4, <1>5
<1>9. first \in Seq(Deals) /\ Len(first) = n /\ \A i \in 1..n : first[i] = q[i]
  BY <1>5, <1>8, FirstIs
<1>10. /\ b.open \in Seq(Deals) /\ Len(b.open) = o - n
       /\ \A i \in 1..(o - n) : b.open[i] = q[n + i] /\ n + i \in 1..o
  BY <1>5, <1>8, RestIs
<1> HIDE DEF first
<1>11. /\ b.trades \in Seq(Deals) /\ Len(b.trades) = c + n
       /\ \A i \in 1..c : b.trades[i] = a.trades[i]
       /\ \A i \in 1..n : b.trades[c + i] = q[i]
  <2> DEFINE s == a.trades
  <2>1. s \in Seq(Deals) /\ first \in Seq(Deals)
    BY <1>2, <1>9
  <2>0. Len(s) = c
    BY <1>3
  <2> HIDE DEF s
  <2>2. /\ s \o first \in Seq(Deals) /\ Len(s \o first) = Len(s) + Len(first)
        /\ \A i \in 1..Len(s) : (s \o first)[i] = s[i]
        /\ \A i \in 1..Len(first) : (s \o first)[Len(s) + i] = first[i]
    BY <2>1, ConcatIs
  <2>3. b.trades = s \o first
    BY <1>5 DEF s
  <2>4. /\ b.trades \in Seq(Deals) /\ Len(b.trades) = c + n
        /\ \A i \in 1..c : b.trades[i] = s[i]
        /\ \A i \in 1..n : b.trades[c + i] = q[i]
    BY <1>9, <2>0, <2>1, <2>2, <2>3
  <2>5. QED
    BY <2>4 DEF s
<1>12. \A i \in 1..o : \A t \in Deals : t.entry <= now => Later(q[i], t)
  BY <1>7, OpenIsLater DEF Running
<1>13. b.equity = start + Weight(b.trades, Results)
  <2>1. ResultOf(first) = Weight(first, Results)
    BY <1>9, TotalsAreWeights
  <2>2. Weight(b.trades, Results) = Weight(a.trades, Results) + Weight(first, Results)
    <3>1. a.trades \in Seq(Deals) /\ first \in Seq(Deals) /\ Results \in [Deals -> Int]
      BY <1>2, <1>9, WeightsAre
    <3>2. Weight(a.trades \o first, Results) = Weight(a.trades, Results) + Weight(first, Results)
      BY <3>1, WeightOfTwo
    <3>3. QED
      BY <1>5, <3>2
  <2>3. Weight(a.trades, Results) \in Int /\ Weight(first, Results) \in Int
    BY <1>2, <1>9, WeightsAre, WeightType
  <2>4. QED
    BY <1>1, <1>5, <2>1, <2>2, <2>3
<1>14. \A i \in 1..(c + n) : i \in 1..c \/ (i - c \in 1..n /\ c + (i - c) = i /\ i - c \in 1..o)
  BY <1>8
<1>15. ASSUME NEW i \in 1..(c + n), NEW j \in 1..(c + n), i <= j
       PROVE  b.trades[i]["exit"] <= b.trades[j]["exit"]
  <2>1. CASE i \in 1..c /\ j \in 1..c
    <3>1. a.trades[i]["exit"] <= a.trades[j]["exit"]
      BY <1>1, <1>3, <1>15, <2>1 DEF Rising
    <3>2. QED
      BY <1>11, <2>1, <3>1
  <2>2. CASE i \in 1..c /\ j - c \in 1..n /\ c + (j - c) = j /\ j - c \in 1..o
    <3>1. a.trades[i].exit <= q[j - c].exit
      BY <1>3, <1>7, <2>2 DEF Running
    <3>2. b.trades[i] = a.trades[i] /\ b.trades[j] = q[j - c]
      BY <1>11, <2>2
    <3>3. QED
      BY <3>1, <3>2
  <2>3. CASE /\ i - c \in 1..n /\ c + (i - c) = i /\ i - c \in 1..o
             /\ j - c \in 1..n /\ c + (j - c) = j /\ j - c \in 1..o
    <3>1. b.trades[i] = q[i - c] /\ b.trades[j] = q[j - c]
      BY <1>11, <2>3
    <3>2. i - c <= j - c
      BY <1>15
    <3>3. q[i - c]["exit"] <= q[j - c]["exit"]
      BY <1>5, <2>3, <3>2 DEF Rising
    <3>4. QED
      BY <3>1, <3>3
  <2>4. ~(i - c \in 1..n /\ j \in 1..c)
    BY <1>15
  <2>5. QED
    BY <1>14, <2>1, <2>2, <2>3, <2>4
<1>16. Rising(b.trades, "exit")
  BY <1>11, <1>15 DEF Rising
<1>17. \A t : Fits(t, a) => Fits(t, b)
  BY <1>1, StillFits
<1>18. ASSUME NEW t \in Deals, t.entry <= now, NEW m \in 0..c, NEW k \in Nat, m <= k,
              SizedFrom(t, a.trades, m, start)
       PROVE  SizedFrom(t, b.trades, k, start)
  <2>1. \A j \in 1..Len(first) : Later(first[j], t)
    <3>1. \A j \in 1..n : j \in 1..o
      BY <1>8
    <3>2. QED
      BY <1>9, <1>12, <1>18, <3>1
  <2>2. m \in 0..Len(a.trades)
    BY <1>3
  <2>3. SizedFrom(t, a.trades \o first, k, start)
    BY <1>2, <1>9, <1>18, <2>1, <2>2, StillSized
  <2>4. QED
    BY <1>5, <2>3
<1>19. ASSUME NEW i \in 1..Len(b.trades)
       PROVE  b.trades[i] \in W /\ Closed(i, b, start, now)
  <2>1. CASE i \in 1..c
    <3>1. a.trades[i] \in W /\ Closed(i, a, start, now) /\ b.trades[i] = a.trades[i]
      BY <1>1, <1>3, <1>11, <2>1
    <3>2. i - 1 \in 0..c /\ i - 1 \in Nat
      BY <2>1
    <3>3. a.trades[i] \in Deals /\ a.trades[i].entry <= now
      BY <3>1 DEF Closed
    <3>4. SizedFrom(a.trades[i], a.trades, i - 1, start) /\ Fits(a.trades[i], a)
      BY <3>1 DEF Closed
    <3>5. SizedFrom(a.trades[i], b.trades, i - 1, start)
      BY <1>18, <3>2, <3>3, <3>4
    <3>6. QED
      BY <1>17, <3>1, <3>3, <3>4, <3>5 DEF Closed
  <2>2. CASE i - c \in 1..n /\ c + (i - c) = i /\ i - c \in 1..o
    <3> DEFINE t == q[i - c]
    <3>1. t \in W /\ t \in Deals /\ Running(t, a, start, now) /\ b.trades[i] = t
      BY <1>7, <1>11, <2>2
    <3> HIDE DEF t
    <3>2. SizedFrom(t, a.trades, c, start) /\ Fits(t, a) /\ t.entry <= now
      BY <1>3, <3>1 DEF Running
    <3>3. c \in 0..c /\ c <= i - 1 /\ i - 1 \in Nat
      BY <2>2
    <3>4. SizedFrom(t, b.trades, i - 1, start)
      BY <1>18, <3>1, <3>2, <3>3
    <3>5. QED
      BY <1>17, <3>1, <3>2, <3>4 DEF Closed
  <2>3. QED
    BY <1>11, <1>14, <2>1, <2>2
<1>20. ASSUME NEW i \in 1..Len(b.open)
       PROVE  b.open[i] \in W /\ Running(b.open[i], b, start, now)
  <2>1. i \in 1..(o - n)
    BY <1>10
  <2> DEFINE t == q[n + i]
  <2>2. t \in W /\ t \in Deals /\ Running(t, a, start, now) /\ b.open[i] = t
    BY <1>7, <1>10, <2>1
  <2> HIDE DEF t
  <2>3. SizedFrom(t, a.trades, c, start) /\ Fits(t, a) /\ t.entry <= now
    BY <1>3, <2>2 DEF Running
  <2>4. c \in 0..c /\ c <= c + n /\ c + n \in Nat
    BY <1>8
  <2>5. SizedFrom(t, b.trades, c + n, start)
    BY <1>18, <2>2, <2>3, <2>4
  <2>6. ASSUME NEW j \in 1..(c + n) PROVE b.trades[j].exit <= t.exit
    <3>1. CASE j \in 1..c
      <4>1. a.trades[j].exit <= t.exit
        BY <1>3, <2>2, <3>1 DEF Running
      <4>2. QED
        BY <1>11, <3>1, <4>1
    <3>2. CASE j - c \in 1..n /\ c + (j - c) = j /\ j - c \in 1..o
      <4>1. j - c <= n + i /\ n + i \in 1..o
        BY <1>8, <2>1, <3>2
      <4>2. q[j - c]["exit"] <= q[n + i]["exit"]
        BY <1>5, <3>2, <4>1 DEF Rising
      <4>3. QED
        BY <1>11, <3>2, <4>2 DEF t
    <3>3. QED
      BY <1>14, <3>1, <3>2
  <2>7. QED
    BY <1>11, <1>17, <2>2, <2>3, <2>5, <2>6 DEF Running
<1>21. Ledger(b, W, start, now)
  BY <1>5, <1>13, <1>16, <1>19, <1>20 DEF Ledger
<1>22. Len(b.open) = Len(a.open) - n /\ (\A i \in 1..Len(b.open) : b.open[i] = q[n + i])
  BY <1>4, <1>10
<1>23. QED
  BY <1>3, <1>11, <1>21, <1>22 DEF Paid

(* One candidate *)

Candidates == {c \in [entry : Int, exit : Int, stop : Int, pnl : Int] : c.entry <= c.exit}
Within(low, high) == {t \in Deals : low < t.entry /\ t.exit < high}

\* All that has left had left by now.
Sound(a, W, start, now) ==
    Ledger(a, W, start, now) /\ \A j \in 1..Len(a.trades) : a.trades[j].exit <= now

LEMMA CandidateIs ==
    ASSUME NEW c \in Candidates
    PROVE  /\ c.entry \in Int /\ c.exit \in Int /\ c.stop \in Int /\ c.pnl \in Int
           /\ c.entry <= c.exit
BY DEF Candidates

LEMMA SettleIs ==
    ASSUME NEW a \in Accounts, NEW until \in Int, NEW q, q = ByExit(a.open)
    PROVE  \E n \in 0..Len(a.open) :
              /\ AfterPaying(a, Settle(a, until), q, n)
              /\ \A i \in 1..n : q[i].exit <= until
              /\ \A i \in (n + 1)..Len(a.open) : q[i].exit > until
<1>1. PICK o \in Nat : o = Len(a.open)
  BY AccountIs
<1>2. q \in Seq(Deals) /\ Len(q) = o /\ Rising(q, "exit")
  <2>1. 0 \in 0..Len(a.open)
    BY <1>1
  <2>2. AfterPaying(a, Pay(a, 0), q, 0)
    BY <2>1, PayIs
  <2>3. QED
    BY <1>1, <2>2 DEF AfterPaying
<1>3. DOMAIN q = 1..o /\ \A i \in 1..o : q[i] \in Deals /\ q[i].exit \in Int /\ q[i]["exit"] = q[i].exit
  BY <1>2, DealIs
<1> DEFINE P == {k \in 1..o : q[k].exit <= until}
           n == Cardinality(P)
<1>4. P \in SUBSET (1..o)
  OBVIOUS
<1>5. ASSUME NEW k \in P, NEW j \in 1..k PROVE j \in P
  <2>1. k \in 1..o /\ j \in 1..o /\ j <= k /\ q[k].exit <= until
    BY <1>4
  <2>2. q[j]["exit"] <= q[k]["exit"]
    BY <1>2, <2>1 DEF Rising
  <2>3. q[j].exit <= until
    BY <1>3, <2>1, <2>2
  <2>4. QED
    BY <2>1, <2>3
<1>6. n \in 0..o /\ P = 1..n
  <2> HIDE DEF P
  <2>1. QED
    BY <1>4, <1>5, CountIs
<1>7. Settle(a, until) = Pay(a, n)
  BY <1>3 DEF Settle
<1>8. ASSUME NEW i \in (n + 1)..o PROVE q[i].exit > until
  <2>1. i \in 1..o /\ i \notin 1..n
    BY <1>6
  <2>2. ~(q[i].exit <= until)
    BY <1>6, <2>1
  <2>3. QED
    BY <1>3, <2>1, <2>2
<1>9. \A i \in 1..n : q[i].exit <= until
  BY <1>6
<1> HIDE DEF P, n
<1>10. n \in 0..Len(a.open)
  BY <1>1, <1>6
<1>11. AfterPaying(a, Pay(a, n), q, n)
  BY <1>10, PayIs
<1>12. QED
  BY <1>1, <1>7, <1>8, <1>9, <1>10, <1>11

LEMMA SettleKeeps ==
    ASSUME NEW a, NEW W \in SUBSET Deals, NEW start \in Int, NEW before \in Int, NEW now \in Int,
           before <= now, Sound(a, W, start, before), NEW b, b = Settle(a, now)
    PROVE  /\ Sound(b, W, start, now) /\ b.stopped = a.stopped
           /\ \A i \in 1..Len(b.open) : b.open[i].exit > now
<1> DEFINE q == ByExit(a.open)
<1>1. Ledger(a, W, start, before) /\ \A j \in 1..Len(a.trades) : a.trades[j].exit <= before
  BY DEF Sound
<1>2. a \in Accounts
  BY <1>1 DEF Ledger
<1>3. PICK n \in 0..Len(a.open) :
              /\ AfterPaying(a, b, q, n)
              /\ \A i \in 1..n : q[i].exit <= now
              /\ \A i \in (n + 1)..Len(a.open) : q[i].exit > now
  BY <1>2, SettleIs
<1>4. PICK o \in Nat : o = Len(a.open)
  BY <1>2, AccountIs
<1>5. PICK c \in Nat : c = Len(a.trades)
  BY <1>2, AccountIs
<1>6. n \in Nat /\ n <= o
  BY <1>4
<1>7. /\ Ledger(b, W, start, before)
      /\ Len(b.open) = Len(a.open) - n
      /\ \A i \in 1..Len(b.open) : b.open[i] = q[n + i]
      /\ Len(b.trades) = Len(a.trades) + n
      /\ \A i \in 1..Len(a.trades) : b.trades[i] = a.trades[i]
      /\ \A i \in 1..n : b.trades[Len(a.trades) + i] = q[i]
  <2>1. Ledger(b, W, start, before) /\ Paid(a, b, q, n)
    BY <1>1, <1>3, LedgerPaid
  <2>2. QED
    BY <2>1 DEF Paid
<1> HIDE DEF q
<1>8. b \in Accounts
  BY <1>7 DEF Ledger
<1>9. b.open \in Seq(Deals) /\ b.trades \in Seq(Deals) /\ Len(b.open) = o - n /\ Len(b.trades) = c + n
  BY <1>4, <1>5, <1>7, <1>8, AccountIs
<1>10. \A i \in 1..Len(b.open) : b.open[i].exit > now
  <2>1. \A i \in 1..(o - n) : n + i \in (n + 1)..o
    BY <1>6
  <2>2. QED
    BY <1>3, <1>4, <1>7, <1>9, <2>1
<1>11. ASSUME NEW j \in 1..Len(b.trades) PROVE b.trades[j].exit <= now
  <2>1. j \in 1..c \/ (j - c \in 1..n /\ c + (j - c) = j)
    BY <1>6, <1>9
  <2>2. CASE j \in 1..c
    <3>1. a.trades[j].exit <= before /\ b.trades[j] = a.trades[j]
      BY <1>1, <1>5, <1>7, <2>2
    <3>2. b.trades[j].exit \in Int
      BY <1>9, DealIs
    <3>3. QED
      BY <3>1, <3>2
  <2>3. CASE j - c \in 1..n /\ c + (j - c) = j
    <3>1. b.trades[j] = q[j - c]
      BY <1>5, <1>7, <2>3
    <3>2. QED
      BY <1>3, <2>3, <3>1
  <2>4. QED
    BY <2>1, <2>2, <2>3
<1>12. /\ b.equity = start + Weight(b.trades, Results) /\ Rising(b.trades, "exit")
       /\ \A i \in 1..Len(b.trades) : b.trades[i] \in W /\ Closed(i, b, start, before)
       /\ \A i \in 1..Len(b.open) : b.open[i] \in W /\ Running(b.open[i], b, start, before)
  BY <1>7 DEF Ledger
<1>13. ASSUME NEW i \in 1..Len(b.trades) PROVE Closed(i, b, start, now)
  <2>1. b.trades[i].entry <= before /\ b.trades[i].entry \in Int
    BY <1>9, <1>12, DealIs DEF Closed
  <2>2. b.trades[i].entry <= now
    BY <2>1
  <2>3. QED
    BY <1>12, <2>2 DEF Closed
<1>14. ASSUME NEW i \in 1..Len(b.open) PROVE Running(b.open[i], b, start, now)
  <2>1. b.open[i].entry \in Int /\ b.open[i].exit \in Int /\ b.open[i].entry <= before
    BY <1>9, <1>12, DealIs DEF Running
  <2>2. b.open[i].entry <= now /\ now <= b.open[i].exit /\ b.open[i].exit # now
    BY <1>10, <2>1
  <2>3. QED
    BY <1>12, <2>2 DEF Running
<1>15. Ledger(b, W, start, now)
  BY <1>8, <1>12, <1>13, <1>14 DEF Ledger
<1>16. b.stopped = a.stopped
  BY <1>3 DEF AfterPaying
<1>17. QED
  BY <1>10, <1>11, <1>15, <1>16 DEF Sound

LEMMA LeastOfThree ==
    ASSUME NEW x \in Int, NEW y \in Int, NEW z \in Int
    PROVE  Min({x, y, z}) \in Int /\ Min({x, y, z}) <= z
<1>1. \E m \in {x, y, z} : \A k \in {x, y, z} : m <= k
  OBVIOUS
<1>2. Min({x, y, z}) \in {x, y, z} /\ \A k \in {x, y, z} : Min({x, y, z}) <= k
  BY <1>1 DEF Min
<1>3. QED
  BY <1>2

LEMMA MostOfTwo ==
    ASSUME NEW z \in Int
    PROVE  Max({0, z}) \in Int /\ (Max({0, z}) > 0 => Max({0, z}) = z)
<1>1. \E m \in {0, z} : \A k \in {0, z} : m >= k
  OBVIOUS
<1>2. Max({0, z}) \in {0, z} /\ \A k \in {0, z} : Max({0, z}) >= k
  BY <1>1 DEF Max
<1>3. QED
  BY <1>2

\* The notional fits under what the gross limit leaves.
LEMMA NotionalFits ==
    ASSUME PortfolioAssumption, NEW a \in Accounts, NEW c \in Candidates, c.stop > 0
    PROVE  /\ Notional(a, c) \in Int
           /\ Notional(a, c) > 0 => Notional(a, c) + NotionalOf(a.open) <= a.equity * MaxGross
<1>1. a.equity \in Int /\ a.open \in Seq(Deals)
  BY AccountIs
<1>2. c.stop \in Int
  BY CandidateIs
<1>3. RiskPct \in Int /\ MaxLeverage \in Int /\ MaxGross \in Int
  BY DEF PortfolioAssumption
<1>4. PICK r \in Int : r = a.equity * RiskPct
  BY <1>1, <1>3
<1>5. PICK l \in Int : l = a.equity * MaxLeverage
  BY <1>1, <1>3
<1>6. PICK g \in Int : g = a.equity * MaxGross
  BY <1>1, <1>3
<1>7. NotionalOf(a.open) \in Int
  BY <1>1, TotalsAreWeights, WeightsAre, WeightType
<1>8. PICK h \in Int : h = g - NotionalOf(a.open)
  BY <1>6, <1>7
<1>9. PICK x \in Int : x = r \div c.stop
  BY <1>2, <1>4
<1>10. Max({0, h}) \in Int /\ (Max({0, h}) > 0 => Max({0, h}) = h)
  BY MostOfTwo
<1>11. PICK z \in Int : z = Max({0, h}) /\ (z > 0 => z = h)
  BY <1>10
<1>12. Notional(a, c) = Min({x, l, z})
  BY <1>4, <1>5, <1>6, <1>8, <1>9, <1>11 DEF Notional
<1>13. Min({x, l, z}) \in Int /\ Min({x, l, z}) <= z
  BY LeastOfThree
<1>14. PICK m \in Int : m = Notional(a, c) /\ m <= z
  BY <1>12, <1>13
<1>15. m > 0 => m + NotionalOf(a.open) <= g
  BY <1>7, <1>8, <1>11, <1>14
<1>16. QED
  BY <1>6, <1>14, <1>15

\* The trade that candidate c becomes.
DealOf(c, notional, equity) ==
    [entry |-> c.entry, exit |-> c.exit, notional |-> notional, equity |-> equity,
     pnl |-> (notional * c.pnl) \div 100]

LEMMA DealOfIs ==
    ASSUME NEW c \in Candidates, NEW notional \in Int, notional > 0, NEW equity \in Int,
           NEW t, t = DealOf(c, notional, equity)
    PROVE  t \in Deals /\ t.entry = c.entry /\ t.exit = c.exit /\ t.notional = notional /\ t.equity = equity
<1>1. c.entry \in Int /\ c.exit \in Int /\ c.pnl \in Int /\ c.entry <= c.exit
  BY CandidateIs
<1>2. PICK p \in Int : p = notional * c.pnl
  BY <1>1
<1>3. p \div 100 \in Int
  BY <1>2
<1>4. t = [entry |-> c.entry, exit |-> c.exit, notional |-> notional, equity |-> equity,
           pnl |-> p \div 100]
  BY <1>2 DEF DealOf
<1>5. QED
  BY <1>1, <1>3, <1>4 DEF Deals

\* Account b is a with t open.
Grown(a, b, t) ==
    /\ b \in Accounts /\ b.trades = a.trades /\ b.equity = a.equity
    /\ b.open = Append(a.open, t)

LEMMA WithTradeIs ==
    ASSUME NEW a \in Accounts, NEW c \in Candidates, NEW notional \in Int, notional > 0,
           NEW equity \in Int, NEW b, b = WithTrade(a, c, notional, equity),
           NEW t, t = DealOf(c, notional, equity)
    PROVE  Grown(a, b, t)
<1>1. t \in Deals
  BY DealOfIs
<1>2. b = [a EXCEPT !.open = Append(@, t)]
  BY DEF WithTrade, DealOf
<1>3. Append(a.open, t) \in Seq(Deals)
  BY <1>1, AccountIs
<1>4. a = [equity |-> a.equity, open |-> a.open, trades |-> a.trades, stopped |-> a.stopped]
  BY DEF Accounts
<1>5. b = [equity |-> a.equity, open |-> Append(a.open, t), trades |-> a.trades, stopped |-> a.stopped]
  BY <1>2, <1>4
<1>6. QED
  BY <1>3, <1>5, AccountIs DEF Accounts, Grown

LEMMA AddedWeight ==
    ASSUME NEW s \in Seq(Deals), NEW t \in Deals, NEW w \in [Deals -> Int]
    PROVE  Append(s, t) \in Seq(Deals) /\ Weight(Append(s, t), w) = Weight(s, w) + w[t]
<1> DEFINE u == Append(s, t)
<1>1. PICK n \in Nat : n = Len(s)
  OBVIOUS
<1>2. /\ u \in Seq(Deals) /\ Len(u) = n + 1 /\ u[n + 1] = t
      /\ \A i \in 1..n : u[i] = s[i]
  BY <1>1
<1> HIDE DEF u
<1>3. \A k \in 1..(n + 1) : k \in 1..n \/ (k = n + 1 /\ ~(k <= n))
  BY <1>1
<1>4. PutIn(u, s, n, t) /\ n \in 0..Len(s)
  BY <1>1, <1>2, <1>3 DEF PutIn
<1>5. TotalOf(Weighted(u, w)) = TotalOf(Weighted(s, w)) + w[t]
  BY <1>2, <1>4, WeightOfMore
<1>6. u \in Seq(Deals) /\ Weight(u, w) = Weight(s, w) + w[t]
  BY <1>2, <1>5 DEF Weight
<1>7. QED
  BY <1>6 DEF u

LEMMA TradeKeeps ==
    ASSUME NEW a, NEW low, NEW high, NEW W, W = Within(low, high),
           NEW start \in Int, NEW now \in Int, Sound(a, W, start, now),
           \A i \in 1..Len(a.open) : a.open[i].exit > now,
           NEW c \in Candidates, c.entry = now, low < c.entry, c.exit < high,
           Len(a.open) < MaxConcurrent, MaxConcurrent \in Int, MaxGross \in Int,
           NEW notional \in Int, notional > 0,
           notional + NotionalOf(a.open) <= a.equity * MaxGross,
           NEW b, b = WithTrade(a, c, notional, a.equity)
    PROVE  Sound(b, W, start, now)
<1>1. /\ Ledger(a, W, start, now) /\ \A j \in 1..Len(a.trades) : a.trades[j].exit <= now
  BY DEF Sound
<1>2. /\ a \in Accounts /\ a.equity = start + Weight(a.trades, Results)
      /\ Rising(a.trades, "exit")
      /\ \A i \in 1..Len(a.trades) : a.trades[i] \in W /\ Closed(i, a, start, now)
      /\ \A i \in 1..Len(a.open) : a.open[i] \in W /\ Running(a.open[i], a, start, now)
  BY <1>1 DEF Ledger
<1>3. a.equity \in Int /\ a.open \in Seq(Deals) /\ a.trades \in Seq(Deals)
  BY <1>2, AccountIs
<1>4. PICK o \in Nat : o = Len(a.open)
  BY <1>3
<1>5. PICK n \in Nat : n = Len(a.trades)
  BY <1>3
<1>6. PICK t : t = DealOf(c, notional, a.equity)
  OBVIOUS
<1>7. t \in Deals /\ t.entry = now /\ t.exit = c.exit /\ t.notional = notional /\ t.equity = a.equity
  BY <1>3, <1>6, DealOfIs
<1>8. now <= t.exit
  BY <1>7, CandidateIs
<1>9. t \in W
  BY <1>7 DEF Within
<1>10. /\ b \in Accounts /\ b.trades = a.trades /\ b.equity = a.equity
       /\ b.open = Append(a.open, t)
  <2>1. PICK e \in Int : e = a.equity
    BY <1>3
  <2>2. b = WithTrade(a, c, notional, e) /\ t = DealOf(c, notional, e)
    BY <1>6, <2>1
  <2>3. a \in Accounts /\ c \in Candidates /\ notional \in Int /\ notional > 0
    BY <1>2
  <2>4. Grown(a, b, t)
    BY <2>2, <2>3, WithTradeIs
  <2>5. QED
    BY <2>4 DEF Grown
<1>11. /\ Len(b.open) = o + 1 /\ b.open[o + 1] = t
       /\ \A i \in 1..o : b.open[i] = a.open[i]
  BY <1>3, <1>4, <1>7, <1>10
<1>12. \A i \in 1..(o + 1) : i \in 1..o \/ i = o + 1
  BY <1>4
<1>13. \A w \in [Deals -> Int] : Weight(b.open, w) = Weight(a.open, w) + w[t]
  <2> TAKE w \in [Deals -> Int]
  <2>1. Weight(Append(a.open, t), w) = Weight(a.open, w) + w[t]
    BY <1>3, <1>7, AddedWeight
  <2>2. QED
    BY <1>10, <2>1
\* The new trade runs beside none that was entered before.
<1>14. ASSUME NEW u \in Deals, u.entry <= now, Fits(u, a) PROVE Fits(u, b)
  <2>1. ~Beside(t, u)
    BY <1>7, DealIs, <1>14 DEF Beside
  <2>2. Ones(u)[t] = 0 /\ Loads(u)[t] = 0
    BY <1>7, <2>1 DEF Ones, Loads
  <2>3. Ones(u) \in [Deals -> Int] /\ Loads(u) \in [Deals -> Int]
    BY WeightsAre
  <2>4. Weight(a.open, Ones(u)) \in Int /\ Weight(a.open, Loads(u)) \in Int
    BY <1>3, <2>3, WeightType
  <2>5. Weight(b.open, Ones(u)) = Weight(a.open, Ones(u))
    BY <1>13, <2>2, <2>3, <2>4
  <2>6. Weight(b.open, Loads(u)) = Weight(a.open, Loads(u))
    BY <1>13, <2>2, <2>3, <2>4
  <2>7. QED
    BY <1>10, <1>14, <2>5, <2>6 DEF Fits
<1>15. Fits(t, b)
  <2>1. Ones(t) \in [Deals -> Int] /\ Loads(t) \in [Deals -> Int]
    BY WeightsAre
  <2>2. \A j \in 1..Len(a.trades) : Ones(t)[a.trades[j]] = 0 /\ Loads(t)[a.trades[j]] = 0
    <3> SUFFICES ASSUME NEW j \in 1..Len(a.trades)
                 PROVE  Ones(t)[a.trades[j]] = 0 /\ Loads(t)[a.trades[j]] = 0
      OBVIOUS
    <3>1. a.trades[j] \in Deals /\ a.trades[j].exit <= now
      BY <1>1, <1>3
    <3>2. ~Beside(a.trades[j], t)
      BY <1>7, <3>1, DealIs DEF Beside
    <3>3. QED
      BY <3>1, <3>2 DEF Ones, Loads
  <2>3. Weight(a.trades, Ones(t)) = 0
    BY <1>3, <2>1, <2>2, WeightsOfNone
  <2>4. Weight(a.trades, Loads(t)) = 0
    BY <1>3, <2>1, <2>2, WeightsOfNone
  <2>5. Ones(t)[t] = 0 /\ Loads(t)[t] = 0
    <3>1. ~Beside(t, t)
      BY <1>7, DealIs DEF Beside
    <3>2. QED
      BY <1>7, <3>1 DEF Ones, Loads
  <2>6. Weight(a.open, Ones(t)) <= o /\ Weight(a.open, Loads(t)) <= Weight(a.open, Notionals)
    BY <1>3, <1>4, FewerThanAll
  <2>7. NotionalOf(a.open) = Weight(a.open, Notionals)
    BY <1>3, TotalsAreWeights
  <2>8. /\ Weight(a.open, Ones(t)) \in Int /\ Weight(a.open, Loads(t)) \in Int
        /\ Weight(a.open, Notionals) \in Int
    BY <1>3, <2>1, WeightsAre, WeightType
  <2>9. Weight(b.open, Ones(t)) = Weight(a.open, Ones(t))
    BY <1>13, <2>1, <2>5, <2>8
  <2>10. Weight(b.open, Loads(t)) = Weight(a.open, Loads(t))
    BY <1>13, <2>1, <2>5, <2>8
  <2>11. Weight(b.trades, Ones(t)) + Weight(b.open, Ones(t)) < MaxConcurrent
    BY <1>4, <1>10, <2>3, <2>6, <2>8, <2>9
  <2>12. PICK g \in Int : g = a.equity * MaxGross
    BY <1>3
  <2>13. Weight(b.trades, Loads(t)) + Weight(b.open, Loads(t)) + t.notional <= g
    BY <1>7, <1>10, <2>4, <2>6, <2>7, <2>8, <2>10, <2>12
  <2>14. QED
    BY <1>7, <2>11, <2>12, <2>13 DEF Fits
<1>16. SizedFrom(t, b.trades, Len(b.trades), start)
  <2>1. n \in 0..Len(b.trades) /\ Len(b.trades) = n
    BY <1>5, <1>10
  <2>2. SubSeq(b.trades, 1, n) = b.trades
    <3>1. n \in 0..Len(a.trades)
      BY <1>5
    <3>2. /\ SubSeq(a.trades, 1, n) \in Seq(Deals) /\ Len(SubSeq(a.trades, 1, n)) = n
          /\ \A i \in 1..n : SubSeq(a.trades, 1, n)[i] = a.trades[i]
      BY <1>3, <3>1, FirstIs
    <3>3. SubSeq(a.trades, 1, n) = a.trades
      BY <1>3, <1>5, <3>2, SeqEqual
    <3>4. QED
      BY <1>10, <3>3
  <2>3. t.equity = start + Weight(SubSeq(b.trades, 1, n), Results)
    BY <1>2, <1>7, <1>10, <2>2
  <2>4. \A j \in 1..n : b.trades[j].exit <= t.entry
    BY <1>1, <1>5, <1>7, <1>10
  <2>5. \A j \in (n + 1)..Len(b.trades) : Later(b.trades[j], t)
    BY <2>1
  <2>6. QED
    BY <2>1, <2>3, <2>4, <2>5 DEF SizedFrom
<1>17. Running(t, b, start, now)
  <2>1. \A j \in 1..Len(b.trades) : b.trades[j].exit <= t.exit
    <3>1. t.exit \in Int /\ \A j \in 1..n : a.trades[j].exit <= now /\ a.trades[j].exit \in Int
      BY <1>1, <1>3, <1>5, <1>7, DealIs
    <3>2. QED
      BY <1>5, <1>8, <1>10, <3>1
  <2>2. t.entry <= now /\ now <= t.exit /\ (t.exit = now => t.entry = now)
    BY <1>7, <1>8
  <2>3. QED
    BY <1>15, <1>16, <2>1, <2>2 DEF Running
<1>18. ASSUME NEW i \in 1..Len(b.open) PROVE b.open[i] \in W /\ Running(b.open[i], b, start, now)
  <2>1. CASE i \in 1..o
    <3> DEFINE u == a.open[i]
    <3>0. b.open[i] = u /\ u \in Deals
      BY <1>3, <1>4, <1>11, <2>1
    <3>1. u \in W /\ Running(u, a, start, now)
      BY <1>2, <1>4, <2>1
    <3> HIDE DEF u
    <3>2. u.entry <= now /\ Fits(u, a)
      BY <3>1 DEF Running
    <3>3. Fits(u, b)
      BY <1>14, <3>0, <3>2
    <3>4. QED
      BY <1>10, <3>0, <3>1, <3>3 DEF Running
  <2>2. CASE i = o + 1
    BY <1>9, <1>11, <1>17, <2>2
  <2>3. QED
    BY <1>11, <1>12, <2>1, <2>2
<1>19. ASSUME NEW i \in 1..Len(b.trades) PROVE b.trades[i] \in W /\ Closed(i, b, start, now)
  <2> DEFINE u == a.trades[i]
  <2>1. u \in W /\ Closed(i, a, start, now) /\ b.trades[i] = u /\ u \in Deals
    BY <1>2, <1>3, <1>10
  <2>2. u.entry <= now /\ Fits(u, a)
    BY <2>1 DEF Closed
  <2> HIDE DEF u
  <2>3. Fits(u, b)
    BY <1>14, <2>1, <2>2
  <2>4. QED
    BY <1>10, <2>1, <2>3 DEF Closed, u
<1>20. Ledger(b, W, start, now)
  BY <1>2, <1>10, <1>18, <1>19 DEF Ledger
<1>21. QED
  BY <1>1, <1>10, <1>20 DEF Sound

\* What a candidate may do to an account.
AsBefore(a, b) ==
    b \in Accounts /\ b.equity = a.equity /\ b.open = a.open /\ b.trades = a.trades
Traded(a, b, c) ==
    \E notional \in Int :
        /\ notional > 0 /\ notional + NotionalOf(a.open) <= a.equity * MaxGross
        /\ Len(a.open) < MaxConcurrent /\ b = WithTrade(a, c, notional, a.equity)

LEMMA SizedIs ==
    ASSUME PortfolioAssumption, NEW a \in Accounts, NEW c \in Candidates,
           NEW b, b = Sized(a, c, Notional(a, c), a.equity)
    PROVE  AsBefore(a, b) \/ Traded(a, b, c)
<1>1. Len(a.open) \in Int /\ MaxConcurrent \in Int /\ c.stop \in Int /\ a.equity \in Int
  BY AccountIs, CandidateIs DEF PortfolioAssumption
<1>2. CASE b = a
  BY <1>2 DEF AsBefore
<1>3. CASE b = [a EXCEPT !.stopped = TRUE]
  <2>1. a = [equity |-> a.equity, open |-> a.open, trades |-> a.trades, stopped |-> a.stopped]
    BY DEF Accounts
  <2>2. b = [equity |-> a.equity, open |-> a.open, trades |-> a.trades, stopped |-> TRUE]
    BY <1>3, <2>1
  <2>3. b.equity = a.equity /\ b.open = a.open /\ b.trades = a.trades
    BY <2>2
  <2>4. b \in Accounts
    BY <2>2, AccountIs DEF Accounts
  <2>5. QED
    BY <2>3, <2>4 DEF AsBefore
<1>4. CASE Len(a.open) >= MaxConcurrent \/ c.stop <= 0
  BY <1>2, <1>4 DEF Sized
<1>5. CASE ~(Len(a.open) >= MaxConcurrent \/ c.stop <= 0)
  <2>1. Len(a.open) < MaxConcurrent /\ c.stop > 0
    BY <1>1, <1>5
  <2>2. PICK notional : notional = Notional(a, c)
    OBVIOUS
  <2>3. /\ notional \in Int
        /\ notional > 0 => notional + NotionalOf(a.open) <= a.equity * MaxGross
    BY <2>1, <2>2, NotionalFits
  <2>4. CASE a.equity <= 0
    BY <1>3, <1>5, <2>4 DEF Sized
  <2>5. CASE ~(a.equity <= 0) /\ notional <= 0
    BY <1>2, <1>5, <2>2, <2>5 DEF Sized
  <2>6. CASE ~(a.equity <= 0) /\ ~(notional <= 0)
    <3>1. b = WithTrade(a, c, notional, a.equity)
      BY <1>5, <2>2, <2>6 DEF Sized
    <3>2. notional > 0
      BY <2>3, <2>6
    <3>3. Traded(a, b, c)
      BY <2>1, <2>3, <3>1, <3>2 DEF Traded
    <3>4. QED
      BY <3>3
  <2>7. QED
    BY <2>4, <2>5, <2>6
<1>6. QED
  BY <1>4, <1>5

LEMMA OfferType ==
    ASSUME PortfolioAssumption, NEW a \in Accounts, NEW c \in Candidates
    PROVE  Offer(a, c) \in Accounts
<1>1. CASE a.stopped
  BY <1>1 DEF Offer
<1>2. CASE ~a.stopped
  <2>1. c.entry \in Int
    BY CandidateIs
  <2>2. PICK s : s = Settle(a, c.entry)
    OBVIOUS
  <2>3. s \in Accounts
    <3>1. PICK n : AfterPaying(a, s, ByExit(a.open), n)
      BY <2>1, <2>2, SettleIs
    <3>2. QED
      BY <3>1 DEF AfterPaying
  <2>4. PICK b : b = Sized(s, c, Notional(s, c), s.equity)
    OBVIOUS
  <2>5. Offer(a, c) = b
    BY <1>2, <2>2, <2>4 DEF Offer
  <2>6. AsBefore(s, b) \/ Traded(s, b, c)
    BY <2>3, <2>4, SizedIs
  <2>7. CASE AsBefore(s, b)
    BY <2>5, <2>7 DEF AsBefore
  <2>8. CASE Traded(s, b, c)
    <3>1. PICK notional \in Int : notional > 0 /\ b = WithTrade(s, c, notional, s.equity)
      BY <2>8 DEF Traded
    <3>2. PICK e \in Int : e = s.equity
      BY <2>3, AccountIs
    <3>3. b = WithTrade(s, c, notional, e)
      BY <3>1, <3>2
    <3>4. Grown(s, b, DealOf(c, notional, e))
      BY <2>3, <3>1, <3>3, WithTradeIs
    <3>5. QED
      BY <2>5, <3>4 DEF Grown
  <2>9. QED
    BY <2>6, <2>7, <2>8
<1>3. QED
  BY <1>1, <1>2

\* Offer: the settlement, and what the candidate adds.
LEMMA OfferKeeps ==
    ASSUME PortfolioAssumption, NEW a, NEW low, NEW high, NEW W, W = Within(low, high),
           NEW start \in Int, NEW before \in Int, Sound(a, W, start, before),
           NEW c \in Candidates, before <= c.entry, low < c.entry, c.exit < high
    PROVE  Sound(Offer(a, c), W, start, before) \/ Sound(Offer(a, c), W, start, c.entry)
<1>1. CASE a.stopped
  <2>1. Offer(a, c) = a
    BY <1>1 DEF Offer
  <2>2. QED
    BY <2>1
<1>2. CASE ~a.stopped
  <2>1. PICK now \in Int : now = c.entry
    BY CandidateIs
  <2>2. PICK s : s = Settle(a, now)
    OBVIOUS
  <2>3. W \in SUBSET Deals
    BY DEF Within
  <2>4. Sound(s, W, start, now) /\ \A i \in 1..Len(s.open) : s.open[i].exit > now
    BY <2>1, <2>2, <2>3, SettleKeeps
  <2>5. s \in Accounts
    BY <2>4 DEF Sound, Ledger
  <2>6. PICK b : b = Sized(s, c, Notional(s, c), s.equity)
    OBVIOUS
  <2>7. Offer(a, c) = b
    BY <1>2, <2>1, <2>2, <2>6 DEF Offer
  <2>8. AsBefore(s, b) \/ Traded(s, b, c)
    BY <2>5, <2>6, SizedIs
  <2>9. CASE AsBefore(s, b)
    <3>1. b.equity = s.equity /\ b.open = s.open /\ b.trades = s.trades /\ b \in Accounts
      BY <2>9 DEF AsBefore
    <3>2. \A t : Fits(t, s) => Fits(t, b)
      BY <3>1 DEF Fits
    <3>3. \A i : Closed(i, s, start, now) => Closed(i, b, start, now)
      BY <3>1, <3>2 DEF Closed
    <3>4. \A t : Running(t, s, start, now) => Running(t, b, start, now)
      BY <3>1, <3>2 DEF Running
    <3>5. Ledger(b, W, start, now)
      BY <2>4, <3>1, <3>3, <3>4 DEF Sound, Ledger
    <3>6. Sound(b, W, start, now)
      BY <2>4, <3>1, <3>5 DEF Sound
    <3>7. QED
      BY <2>1, <2>7, <3>6
  <2>10. CASE Traded(s, b, c)
    <3>1. PICK notional \in Int :
             /\ notional > 0 /\ notional + NotionalOf(s.open) <= s.equity * MaxGross
             /\ Len(s.open) < MaxConcurrent /\ b = WithTrade(s, c, notional, s.equity)
      BY <2>10 DEF Traded
    <3>2. MaxConcurrent \in Int /\ MaxGross \in Int
      BY DEF PortfolioAssumption
    <3>3. Sound(b, W, start, now)
      BY <2>1, <2>4, <3>1, <3>2, TradeKeeps
    <3>4. QED
      BY <2>1, <2>7, <3>3
  <2>11. QED
    BY <2>8, <2>9, <2>10
<1>3. QED
  BY <1>1, <1>2

(* The whole run *)

Eligible(low, high) == {c \in Candidates : low < c.entry /\ c.exit < high}
\* Account a is sound at a time that is not after the entry of a candidate still to come.
Ready(a, W, start, queue, i) ==
    \E now \in Int : Sound(a, W, start, now) /\ \A j \in (i + 1)..Len(queue) : now <= queue[j].entry

LEMMA NothingYet ==
    ASSUME NEW start \in Int, NEW now \in Int, NEW W
    PROVE  Opened(start) \in Accounts /\ Sound(Opened(start), W, start, now)
<1> DEFINE a == Opened(start)
<1>1. a.equity = start /\ a.open = <<>> /\ a.trades = <<>>
  BY DEF Opened
<1>2. <<>> \in Seq(Deals) /\ Len(<<>>) = 0
  OBVIOUS
<1>3. a \in Accounts
  BY <1>2 DEF Opened, Accounts
<1> HIDE DEF a
<1>4. Weight(a.trades, Results) = 0
  <2>1. \A i \in 1..Len(<<>>) : Results[<<>>[i]] = 0
    BY <1>2
  <2>2. Weight(<<>>, Results) = 0
    BY <1>2, <2>1, WeightsAre, WeightsOfNone
  <2>3. QED
    BY <1>1, <2>2
<1>5. Len(a.open) = 0 /\ Len(a.trades) = 0
  BY <1>1, <1>2
<1>6. Rising(a.trades, "exit")
  BY <1>5 DEF Rising
<1>7. Ledger(a, W, start, now)
  BY <1>1, <1>3, <1>4, <1>5, <1>6 DEF Ledger
<1>8. Sound(a, W, start, now)
  BY <1>5, <1>7 DEF Sound
<1>9. QED
  BY <1>3, <1>8 DEF a

LEMMA ReadyNext ==
    ASSUME PortfolioAssumption, NEW low \in Int, NEW high \in Int, NEW W, W = Within(low, high),
           NEW start \in Int, NEW queue \in Seq(Eligible(low, high)), Rising(queue, "entry"),
           NEW i \in 1..Len(queue), NEW a, Ready(a, W, start, queue, i - 1)
    PROVE  Ready(Offer(a, queue[i]), W, start, queue, i)
<1>1. PICK n \in Nat : n = Len(queue)
  OBVIOUS
<1>2. i \in 1..n /\ (i - 1) + 1 = i
  BY <1>1
<1>3. PICK before \in Int :
         Sound(a, W, start, before) /\ \A j \in i..n : before <= queue[j].entry
  BY <1>1, <1>2 DEF Ready
<1>4. PICK c \in Eligible(low, high) : c = queue[i]
  BY <1>1, <1>2
<1>5. c \in Candidates /\ low < c.entry /\ c.exit < high /\ c.entry \in Int
  BY CandidateIs DEF Eligible
<1>6. before <= c.entry
  BY <1>2, <1>3, <1>4
<1>7. Sound(Offer(a, c), W, start, before) \/ Sound(Offer(a, c), W, start, c.entry)
  BY <1>3, <1>5, <1>6, OfferKeeps
<1>8. \A j \in (i + 1)..n : before <= queue[j].entry
  BY <1>2, <1>3
<1>9. \A j \in (i + 1)..n : c.entry <= queue[j].entry
  <2>1. \A j \in (i + 1)..n : j \in 1..Len(queue) /\ i <= j
    BY <1>1, <1>2
  <2>2. \A j \in (i + 1)..n : queue[i]["entry"] <= queue[j]["entry"]
    BY <2>1 DEF Rising
  <2>3. QED
    BY <1>4, <2>2
<1>10. QED
  BY <1>1, <1>4, <1>5, <1>7, <1>8, <1>9 DEF Ready

LEMMA FilledIs ==
    ASSUME PortfolioAssumption, NEW low \in Int, NEW high \in Int, NEW W, W = Within(low, high),
           NEW start \in Int, NEW queue \in Seq(Eligible(low, high)), Rising(queue, "entry")
    PROVE  \E now \in Int : Sound(Filled(queue, start), W, start, now)
<1>1. PICK n \in Nat : n = Len(queue)
  OBVIOUS
<1>2. \A i \in 1..n : queue[i] \in Candidates /\ low < queue[i].entry
  BY <1>1 DEF Eligible
<1> DEFINE next == [i \in 1..n |-> [a \in Accounts |-> Offer(a, queue[i])]]
           Runs(f) == f = [i \in 0..n |-> IF i = 0 THEN Opened(start) ELSE Offer(f[i - 1], queue[i])]
           account == CHOOSE f : Runs(f)
<1>3. Filled(queue, start) = account[n]
  BY <1>1 DEF Filled
<1>4. Opened(start) \in Accounts
  BY NothingYet, 0 \in Int
<1>5. next \in [1..n -> [Accounts -> Accounts]]
  <2>1. ASSUME NEW i \in 1..n, NEW a \in Accounts PROVE Offer(a, queue[i]) \in Accounts
    BY <1>2, OfferType
  <2>2. QED
    BY <2>1
<1>6. \E f : Runs(f)
  <2> HIDE DEF next
  <2>1. PICK f \in [0..n -> Accounts] : Climbing(f, Opened(start), n, next)
    BY <1>4, <1>5, Recursion
  <2>2. ASSUME NEW i \in 0..n
        PROVE  (IF i = 0 THEN Opened(start) ELSE next[i][f[i - 1]])
                 = IF i = 0 THEN Opened(start) ELSE Offer(f[i - 1], queue[i])
    <3> SUFFICES ASSUME i # 0 PROVE next[i][f[i - 1]] = Offer(f[i - 1], queue[i])
      OBVIOUS
    <3>1. i \in 1..n /\ i - 1 \in 0..n
      OBVIOUS
    <3>2. f[i - 1] \in Accounts
      BY <3>1
    <3>3. QED
      BY <3>1, <3>2 DEF next
  <2>3. Runs(f)
    BY <2>1, <2>2 DEF Climbing
  <2>4. QED
    BY <2>3
<1> HIDE DEF next
<1>7. Runs(account)
  BY <1>6
<1> HIDE DEF account
<1>8. account[0] = Opened(start) /\ \A i \in 1..n : account[i] = Offer(account[i - 1], queue[i])
  <2>1. \A i \in 0..n : account[i] = IF i = 0 THEN Opened(start) ELSE Offer(account[i - 1], queue[i])
    BY <1>7
  <2>2. 0 \in 0..n /\ \A i \in 1..n : i \in 0..n /\ i # 0
    OBVIOUS
  <2>3. QED
    BY <2>1, <2>2
<1> HIDE DEF Runs
<1> DEFINE G == {i \in 0..n : Ready(account[i], W, start, queue, i)}
<1>9. 0 \in G
  <2>1. Sound(Opened(start), W, start, low)
    BY NothingYet
  <2>2. \A j \in (0 + 1)..Len(queue) : low <= queue[j].entry
    <3>1. \A j \in 1..n : queue[j].entry \in Int /\ low < queue[j].entry
      BY <1>2, CandidateIs
    <3>2. QED
      BY <1>1, <3>1
  <2>3. Ready(Opened(start), W, start, queue, 0)
    BY <2>1, <2>2 DEF Ready
  <2>4. QED
    BY <1>8, <2>3
<1>10. ASSUME NEW i \in 0..(n - 1), i \in G PROVE i + 1 \in G
  <2>1. i + 1 \in 1..n /\ (i + 1) - 1 = i /\ i + 1 \in 0..n /\ i + 1 \in 1..Len(queue)
    BY <1>1
  <2>2. account[i + 1] = Offer(account[i], queue[i + 1])
    BY <1>8, <2>1
  <2>3. Ready(account[i], W, start, queue, (i + 1) - 1)
    BY <1>10, <2>1
  <2>4. Ready(account[i + 1], W, start, queue, i + 1)
    BY <2>1, <2>2, <2>3, ReadyNext
  <2>5. QED
    BY <2>1, <2>4
<1> HIDE DEF G
<1>11. \A i \in 0..n : i \in G
  BY <1>9, <1>10, Climb
<1>12. Ready(account[n], W, start, queue, n)
  <2>1. n \in 0..n
    OBVIOUS
  <2>2. QED
    BY <1>11, <2>1 DEF G
<1>13. QED
  BY <1>3, <1>12 DEF Ready

\* What SizedOn says, in weights.
Sizes(trades, start) ==
    \A i \in 1..Len(trades) :
        /\ SizedFrom(trades[i], trades, i - 1, start)
        /\ Weight(trades, Ones(trades[i])) < MaxConcurrent
        /\ Weight(trades, Loads(trades[i])) + trades[i].notional <= trades[i].equity * MaxGross

LEMMA SizesAreSizedOn ==
    ASSUME NEW trades \in Seq(Deals), NEW start, Sizes(trades, start)
    PROVE  SizedOn(trades, start)
<1>1. PICK n \in Nat : n = Len(trades)
  OBVIOUS
<1>2. DOMAIN trades = 1..n
  BY <1>1
<1>3. ASSUME NEW i \in 1..n
      PROVE  /\ \E k \in 0..(i - 1) :
                  /\ trades[i].equity = start + ResultOf(SubSeq(trades, 1, k))
                  /\ \A j \in 1..k : trades[j].exit <= trades[i].entry
                  /\ \A j \in (k + 1)..Len(trades) :
                        \/ trades[j].exit > trades[i].entry
                        \/ trades[j].exit = trades[i].entry /\ trades[j].entry = trades[i].entry
             /\ TotalOf([j \in DOMAIN trades |-> IF Beside(trades[j], trades[i]) THEN 1 ELSE 0])
                  < MaxConcurrent
             /\ TotalOf([j \in DOMAIN trades |->
                    IF Beside(trades[j], trades[i]) THEN trades[j].notional ELSE 0])
                  + trades[i].notional <= trades[i].equity * MaxGross
  <2>1. /\ SizedFrom(trades[i], trades, i - 1, start)
        /\ Weight(trades, Ones(trades[i])) < MaxConcurrent
        /\ Weight(trades, Loads(trades[i])) + trades[i].notional <= trades[i].equity * MaxGross
    BY <1>1 DEF Sizes
  <2>2. PICK k \in 0..(i - 1) :
        /\ trades[i].equity = start + Weight(SubSeq(trades, 1, k), Results)
        /\ \A j \in 1..k : trades[j].exit <= trades[i].entry
        /\ \A j \in (k + 1)..Len(trades) : Later(trades[j], trades[i])
    BY <2>1 DEF SizedFrom
  <2>3. k \in 0..Len(trades)
    BY <1>1
  <2>4. SubSeq(trades, 1, k) \in Seq(Deals)
    BY <2>3, FirstIs
  <2>5. ResultOf(SubSeq(trades, 1, k)) = Weight(SubSeq(trades, 1, k), Results)
    BY <2>4, TotalsAreWeights
  <2>6. \E m \in 0..(i - 1) :
                  /\ trades[i].equity = start + ResultOf(SubSeq(trades, 1, m))
                  /\ \A j \in 1..m : trades[j].exit <= trades[i].entry
                  /\ \A j \in (m + 1)..Len(trades) :
                        \/ trades[j].exit > trades[i].entry
                        \/ trades[j].exit = trades[i].entry /\ trades[j].entry = trades[i].entry
    BY <2>2, <2>5 DEF Later
  <2>7. PICK t : t = trades[i]
    OBVIOUS
  <2>8. /\ TotalOf([j \in DOMAIN trades |-> IF Beside(trades[j], t) THEN 1 ELSE 0])
             = Weight(trades, Ones(t))
        /\ TotalOf([j \in DOMAIN trades |-> IF Beside(trades[j], t) THEN trades[j].notional ELSE 0])
             = Weight(trades, Loads(t))
    BY TotalsAreWeights
  <2>9. QED
    BY <2>1, <2>6, <2>7, <2>8
<1>4. QED
  BY <1>2, <1>3 DEF SizedOn

LEMMA EligibleSorted ==
    ASSUME NEW low, NEW high, NEW pool \in Seq(Eligible(low, high))
    PROVE  ByEntry(pool) \in Seq(Eligible(low, high)) /\ Rising(ByEntry(pool), "entry")
<1> DEFINE V == Eligible(low, high)
<1>1. \A v \in V : v["entry"] \in Int
  <2>1. \A v \in V : v["entry"] = v.entry /\ v.entry \in Int
    BY CandidateIs DEF Eligible
  <2>2. QED
    BY <2>1
<1>2. pool \in Seq(V)
  OBVIOUS
<1> HIDE DEF V
<1>3. /\ SortedBy("entry", pool) \in Seq(V) /\ Len(SortedBy("entry", pool)) = Len(pool)
      /\ Rising(SortedBy("entry", pool), "entry")
      /\ \A w \in [V -> Int] :
            TotalOf(Weighted(SortedBy("entry", pool), w)) = TotalOf(Weighted(pool, w))
      /\ Rising(pool, "entry") => SortedBy("entry", pool) = pool
  BY <1>1, <1>2, SortedIs
<1>4. QED
  BY <1>3 DEF ByEntry, V

LEMMA InOrderAlready ==
    ASSUME NEW s \in Seq(Deals), Rising(s, "exit")
    PROVE  ByExit(s) = s
<1>1. \A v \in Deals : v["exit"] \in Int
  BY FieldsOfDeals
<1>2. /\ SortedBy("exit", s) \in Seq(Deals) /\ Len(SortedBy("exit", s)) = Len(s)
      /\ Rising(SortedBy("exit", s), "exit")
      /\ \A w \in [Deals -> Int] :
            TotalOf(Weighted(SortedBy("exit", s), w)) = TotalOf(Weighted(s, w))
      /\ Rising(s, "exit") => SortedBy("exit", s) = s
  BY <1>1, SortedIs
<1>3. QED
  BY <1>2 DEF ByExit

\* What combine returns.
LEMMA CombineIs ==
    ASSUME PortfolioAssumption, NEW low \in Int, NEW high \in Int,
           NEW start \in Int, NEW pool \in Seq(Eligible(low, high)),
           NEW trades, trades = Combine(pool, start).trades
    PROVE  /\ trades \in Seq(Within(low, high)) /\ trades \in Seq(Deals)
           /\ Rising(trades, "exit") /\ Sizes(trades, start)
           /\ Combine(pool, start).equity = start + ResultOf(trades)
<1> DEFINE W == Within(low, high)
<1>1. PICK queue : queue = ByEntry(pool)
  OBVIOUS
<1>2. queue \in Seq(Eligible(low, high)) /\ Rising(queue, "entry")
  BY <1>1, EligibleSorted
<1>3. PICK a : a = Filled(queue, start)
  OBVIOUS
<1>4. PICK now \in Int : Sound(a, W, start, now)
  <2>1. W = Within(low, high)
    OBVIOUS
  <2> HIDE DEF W
  <2>2. QED
    BY <1>2, <1>3, <2>1, FilledIs
<1>5. W \in SUBSET Deals
  BY DEF Within
<1> HIDE DEF W
<1>6. Ledger(a, W, start, now) /\ a \in Accounts
  BY <1>4 DEF Sound, Ledger
<1>7. PICK n \in Nat : n = Len(a.open)
  BY <1>6, AccountIs
<1>8. n \in 0..Len(a.open)
  BY <1>7
<1>9. PICK b : b = Pay(a, n)
  OBVIOUS
<1>10. AfterPaying(a, b, ByExit(a.open), n)
  BY <1>6, <1>8, <1>9, PayIs
<1>11. Ledger(b, W, start, now) /\ Paid(a, b, ByExit(a.open), n)
  BY <1>5, <1>6, <1>8, <1>10, LedgerPaid
<1>12. b \in Accounts /\ Len(b.open) = 0
  BY <1>7, <1>11 DEF Ledger, Paid
<1>13. b.open \in Seq(Deals) /\ b.trades \in Seq(Deals) /\ Rising(b.trades, "exit")
  BY <1>11, <1>12, AccountIs DEF Ledger
<1>14. ByExit(b.trades) = b.trades
  BY <1>13, InOrderAlready
<1>15. b = PayAll(Filled(ByEntry(pool), start))
  BY <1>1, <1>3, <1>7, <1>9 DEF PayAll
<1>16. trades = b.trades /\ Combine(pool, start).equity = b.equity
  BY <1>14, <1>15 DEF Combine
<1>17. b.equity = start + ResultOf(b.trades)
  BY <1>11, <1>13, TotalsAreWeights DEF Ledger
<1>18. b.trades \in Seq(W)
  <2>1. PICK m \in Nat : m = Len(b.trades)
    BY <1>13
  <2>2. \A i \in 1..m : b.trades[i] \in W
    BY <1>11, <2>1 DEF Ledger
  <2>3. b.trades = [i \in 1..m |-> b.trades[i]]
    <3>1. b.trades \in Seq(Deals)
      BY <1>13
    <3>2. QED
      BY ONLY <2>1, <3>1
  <2>4. b.trades \in [1..m -> W]
    BY <2>2, <2>3
  <2>5. QED
    BY <2>4
<1>19. Sizes(b.trades, start)
  <2>1. ASSUME NEW i \in 1..Len(b.trades)
        PROVE  /\ SizedFrom(b.trades[i], b.trades, i - 1, start)
               /\ Weight(b.trades, Ones(b.trades[i])) < MaxConcurrent
               /\ Weight(b.trades, Loads(b.trades[i])) + b.trades[i].notional
                    <= b.trades[i].equity * MaxGross
    <3>1. PICK t : t = b.trades[i]
      OBVIOUS
    <3>2. SizedFrom(t, b.trades, i - 1, start) /\ Fits(t, b)
      BY <1>11, <3>1 DEF Ledger, Closed
    <3>3. Ones(t) \in [Deals -> Int] /\ Loads(t) \in [Deals -> Int]
      BY WeightsAre
    <3>4. Weight(b.open, Ones(t)) = 0 /\ Weight(b.open, Loads(t)) = 0
      <4>1. \A j \in 1..Len(b.open) : Ones(t)[b.open[j]] = 0 /\ Loads(t)[b.open[j]] = 0
        BY <1>12
      <4>2. QED
        BY <1>13, <3>3, <4>1, WeightsOfNone
    <3>5. Weight(b.trades, Ones(t)) \in Int /\ Weight(b.trades, Loads(t)) \in Int
      BY <1>13, <3>3, WeightType
    <3>6. QED
      BY <3>1, <3>2, <3>4, <3>5 DEF Fits
  <2>2. QED
    BY <2>1 DEF Sizes
<1>20. QED
  BY <1>13, <1>16, <1>17, <1>18, <1>19 DEF W

(* The walk *)

BothOf(all, old, new, start) ==
    /\ all \in Seq(Deals) /\ Rising(all, "exit") /\ Sizes(all, start)
    /\ ResultOf(all) = ResultOf(old) + ResultOf(new)
    /\ Len(all) = Len(old) + Len(new)
    /\ \A i \in 1..Len(old) : all[i] = old[i]
    /\ \A i \in 1..Len(new) : all[Len(old) + i] = new[i]

\* Trades that come after all others add to them as they are.
LEMMA Joined ==
    ASSUME NEW old \in Seq(Deals), NEW new \in Seq(Deals), NEW start \in Int, NEW capitalNow \in Int,
           Rising(old, "exit"), Rising(new, "exit"), MaxConcurrent \in Int, MaxGross \in Int,
           Sizes(old, start), Sizes(new, capitalNow), capitalNow = start + ResultOf(old),
           NEW low \in Int, \A i \in 1..Len(old) : old[i].exit <= low,
           \A i \in 1..Len(new) : low < new[i].entry,
           NEW all, all = old \o new
    PROVE  BothOf(all, old, new, start)
<1>1. PICK m \in Nat : m = Len(old)
  OBVIOUS
<1>2. PICK n \in Nat : n = Len(new)
  OBVIOUS
<1>3. /\ all \in Seq(Deals) /\ Len(all) = m + n
      /\ \A i \in 1..m : all[i] = old[i]
      /\ \A i \in 1..n : all[m + i] = new[i]
  BY <1>1, <1>2, ConcatIs
<1>4. \A i \in 1..(m + n) : i \in 1..m \/ (i - m \in 1..n /\ m + (i - m) = i)
  BY <1>1, <1>2
<1>5. \A i \in 1..m : /\ old[i] \in Deals /\ old[i].entry <= old[i].exit /\ old[i].exit <= low
                      /\ old[i].entry \in Int /\ old[i].exit \in Int /\ old[i]["exit"] = old[i].exit
  BY <1>1, DealIs
<1>6. \A i \in 1..n : /\ new[i] \in Deals /\ new[i].entry <= new[i].exit /\ low < new[i].entry
                      /\ new[i].entry \in Int /\ new[i].exit \in Int /\ new[i]["exit"] = new[i].exit
  BY <1>2, DealIs
<1>7. \A w \in [Deals -> Int] : Weight(all, w) = Weight(old, w) + Weight(new, w)
  BY WeightOfTwo
<1>8. ResultOf(all) = ResultOf(old) + ResultOf(new)
  <2>1. /\ ResultOf(all) = Weight(all, Results) /\ ResultOf(old) = Weight(old, Results)
        /\ ResultOf(new) = Weight(new, Results)
    BY <1>3, TotalsAreWeights
  <2>2. QED
    BY <1>7, <2>1, WeightsAre
<1>9. ASSUME NEW i \in 1..(m + n), NEW j \in 1..(m + n), i <= j
      PROVE  all[i]["exit"] <= all[j]["exit"]
  <2>1. CASE i \in 1..m /\ j \in 1..m
    <3>1. old[i]["exit"] <= old[j]["exit"]
      BY <1>1, <1>9, <2>1 DEF Rising
    <3>2. QED
      BY <1>3, <2>1, <3>1
  <2>2. CASE i \in 1..m /\ j - m \in 1..n /\ m + (j - m) = j
    <3>1. all[i] = old[i] /\ all[j] = new[j - m]
      BY <1>3, <2>2
    <3>2. old[i].exit <= low /\ low < new[j - m].exit /\ old[i].exit \in Int /\ new[j - m].exit \in Int
      BY <1>5, <1>6, <2>2
    <3>3. QED
      BY <3>1, <3>2
  <2>3. CASE i - m \in 1..n /\ m + (i - m) = i /\ j - m \in 1..n /\ m + (j - m) = j
    <3>1. all[i] = new[i - m] /\ all[j] = new[j - m] /\ i - m <= j - m
      BY <1>3, <1>9, <2>3
    <3>2. new[i - m]["exit"] <= new[j - m]["exit"]
      BY <1>2, <2>3, <3>1 DEF Rising
    <3>3. QED
      BY <3>1, <3>2
  <2>4. ~(i - m \in 1..n /\ j \in 1..m)
    BY <1>9
  <2>5. QED
    BY <1>4, <2>1, <2>2, <2>3, <2>4
<1>10. Rising(all, "exit")
  BY <1>3, <1>9 DEF Rising
<1>11. ASSUME NEW i \in 1..m
       PROVE  /\ SizedFrom(all[i], all, i - 1, start)
              /\ Weight(all, Ones(all[i])) < MaxConcurrent
              /\ Weight(all, Loads(all[i])) + all[i].notional <= all[i].equity * MaxGross
  <2>1. PICK t : t = old[i]
    OBVIOUS
  <2>2. all[i] = t /\ t \in Deals /\ t.entry <= low
    <3>1. all[i] = old[i]
      BY <1>3
    <3>2. /\ old[i] \in Deals /\ old[i].entry <= old[i].exit /\ old[i].exit <= low
          /\ old[i].entry \in Int /\ old[i].exit \in Int
      BY <1>5
    <3>3. old[i].entry <= low
      BY <3>2
    <3>4. QED
      BY <2>1, <3>1, <3>2, <3>3
  <2>3. /\ SizedFrom(t, old, i - 1, start)
        /\ Weight(old, Ones(t)) < MaxConcurrent
        /\ Weight(old, Loads(t)) + t.notional <= t.equity * MaxGross
    BY <1>1, <2>1 DEF Sizes
  <2>4. \A j \in 1..Len(new) : Later(new[j], t)
    <3>1. t.entry \in Int
      BY <2>2, DealIs
    <3>2. ASSUME NEW j \in 1..n PROVE new[j].exit > t.entry
      <4>1. /\ new[j].entry <= new[j].exit /\ low < new[j].entry
            /\ new[j].entry \in Int /\ new[j].exit \in Int
        BY <1>6
      <4>2. t.entry <= low
        BY <2>2
      <4>3. QED
        BY <3>1, <4>1, <4>2
    <3>3. QED
      BY <1>2, <3>2 DEF Later
  <2>5. i - 1 \in 0..Len(old) /\ i - 1 \in Nat /\ i - 1 <= i - 1
    BY <1>1
  <2>6. SizedFrom(t, all, i - 1, start)
    BY <2>2, <2>3, <2>4, <2>5, StillSized
  <2>7. Ones(t) \in [Deals -> Int] /\ Loads(t) \in [Deals -> Int]
    BY WeightsAre
  <2>8. \A j \in 1..Len(new) : Ones(t)[new[j]] = 0 /\ Loads(t)[new[j]] = 0
    <3> SUFFICES ASSUME NEW j \in 1..n PROVE Ones(t)[new[j]] = 0 /\ Loads(t)[new[j]] = 0
      BY <1>2
    <3>1. ~Beside(new[j], t)
      BY <1>6, <2>2, DealIs DEF Beside
    <3>2. QED
      BY <1>6, <3>1 DEF Ones, Loads
  <2>9. Weight(new, Ones(t)) = 0 /\ Weight(new, Loads(t)) = 0
    BY <2>7, <2>8, WeightsOfNone
  <2>10. Weight(old, Ones(t)) \in Int /\ Weight(old, Loads(t)) \in Int
    BY <2>7, WeightType
  <2>11. Weight(all, Ones(t)) = Weight(old, Ones(t)) /\ Weight(all, Loads(t)) = Weight(old, Loads(t))
    BY <1>7, <2>7, <2>9, <2>10
  <2>12. QED
    BY <2>2, <2>3, <2>6, <2>11
<1>12. ASSUME NEW i \in 1..n
       PROVE  /\ SizedFrom(all[m + i], all, (m + i) - 1, start)
              /\ Weight(all, Ones(all[m + i])) < MaxConcurrent
              /\ Weight(all, Loads(all[m + i])) + all[m + i].notional <= all[m + i].equity * MaxGross
  <2>1. PICK t : t = new[i]
    OBVIOUS
  <2>2. all[m + i] = t /\ t \in Deals /\ low < t.entry /\ t.entry \in Int
    BY <1>3, <1>6, <2>1
  <2>3. /\ SizedFrom(t, new, i - 1, capitalNow)
        /\ Weight(new, Ones(t)) < MaxConcurrent
        /\ Weight(new, Loads(t)) + t.notional <= t.equity * MaxGross
    BY <1>2, <2>1 DEF Sizes
  <2>4. PICK k \in 0..(i - 1) :
          /\ t.equity = capitalNow + Weight(SubSeq(new, 1, k), Results)
          /\ \A j \in 1..k : new[j].exit <= t.entry
          /\ \A j \in (k + 1)..Len(new) : Later(new[j], t)
    BY <2>3 DEF SizedFrom
  <2>5. k \in Nat /\ k <= n /\ k \in 0..Len(new) /\ m + k \in 0..Len(all) /\ m + k \in 0..((m + i) - 1)
    BY <1>2, <1>3
  <2>6. SubSeq(all, 1, m + k) = old \o SubSeq(new, 1, k)
    <3> DEFINE first == SubSeq(new, 1, k)
               whole == SubSeq(all, 1, m + k)
    <3>1. first \in Seq(Deals) /\ Len(first) = k /\ \A j \in 1..k : first[j] = new[j]
      BY <2>5, FirstIs
    <3>2. whole \in Seq(Deals) /\ Len(whole) = m + k /\ \A j \in 1..(m + k) : whole[j] = all[j]
      BY <1>3, <2>5, FirstIs
    <3> HIDE DEF first, whole
    <3>3. old \in Seq(Deals) /\ first \in Seq(Deals)
      BY <3>1
    <3>4. /\ old \o first \in Seq(Deals) /\ Len(old \o first) = Len(old) + Len(first)
          /\ \A j \in 1..Len(old) : (old \o first)[j] = old[j]
          /\ \A j \in 1..Len(first) : (old \o first)[Len(old) + j] = first[j]
      BY <3>3, ConcatIs
    <3>5. ASSUME NEW j \in 1..(m + k) PROVE whole[j] = (old \o first)[j]
      <4>1. j \in 1..m \/ (j - m \in 1..k /\ j - m \in 1..n /\ m + (j - m) = j)
        BY <2>5
      <4>2. CASE j \in 1..m
        BY <1>1, <1>3, <3>2, <3>4, <3>5, <4>2
      <4>3. CASE j - m \in 1..k /\ j - m \in 1..n /\ m + (j - m) = j
        <5>1. whole[j] = new[j - m]
          BY <1>3, <3>2, <3>5, <4>3
        <5>2. (old \o first)[m + (j - m)] = first[j - m]
          BY <1>1, <3>1, <3>4, <4>3
        <5>3. QED
          BY <3>1, <4>3, <5>1, <5>2
      <4>4. QED
        BY <4>1, <4>2, <4>3
    <3>6. Len(old \o first) = m + k
      BY <1>1, <3>1, <3>4
    <3>7. whole = old \o first
      BY <3>2, <3>4, <3>5, <3>6, SeqEqual
    <3>8. QED
      BY <3>7 DEF first, whole
  <2>7. t.equity = start + Weight(SubSeq(all, 1, m + k), Results)
    <3>1. SubSeq(new, 1, k) \in Seq(Deals)
      BY <2>5, FirstIs
    <3>2. Weight(SubSeq(all, 1, m + k), Results) = Weight(old, Results) + Weight(SubSeq(new, 1, k), Results)
      <4> DEFINE first == SubSeq(new, 1, k)
      <4>1. old \in Seq(Deals) /\ first \in Seq(Deals) /\ Results \in [Deals -> Int]
        BY <3>1, WeightsAre
      <4> HIDE DEF first
      <4>2. Weight(old \o first, Results) = Weight(old, Results) + Weight(first, Results)
        BY <4>1, WeightOfTwo
      <4>3. QED
        BY <2>6, <4>2 DEF first
    <3>3. ResultOf(old) = Weight(old, Results)
      BY TotalsAreWeights
    <3>4. Weight(old, Results) \in Int /\ Weight(SubSeq(new, 1, k), Results) \in Int
      BY <3>1, WeightsAre, WeightType
    <3>5. QED
      BY <2>4, <3>2, <3>3, <3>4
  <2>8. ASSUME NEW j \in 1..(m + k) PROVE all[j].exit <= t.entry
    <3>1. j \in 1..m \/ (j - m \in 1..k /\ j - m \in 1..n /\ m + (j - m) = j)
      BY <2>5
    <3>2. CASE j \in 1..m
      <4>1. all[j] = old[j] /\ old[j].exit <= low /\ old[j].exit \in Int
        BY <1>3, <1>5, <3>2
      <4>2. low < t.entry /\ t.entry \in Int
        BY <2>2
      <4>3. old[j].exit <= t.entry
        BY <4>1, <4>2
      <4>4. QED
        BY <4>1, <4>3
    <3>3. CASE j - m \in 1..k /\ j - m \in 1..n /\ m + (j - m) = j
      <4>1. all[j] = new[j - m]
        BY <1>3, <3>3
      <4>2. QED
        BY <2>4, <3>3, <4>1
    <3>4. QED
      BY <3>1, <3>2, <3>3
  <2>9. ASSUME NEW j \in (m + k + 1)..Len(all) PROVE Later(all[j], t)
    <3>1. j - m \in (k + 1)..Len(new) /\ j - m \in 1..n /\ m + (j - m) = j
      BY <1>2, <1>3, <2>5
    <3>2. all[j] = new[j - m]
      BY <1>3, <3>1
    <3>3. QED
      BY <2>4, <3>1, <3>2
  <2>10. SizedFrom(t, all, (m + i) - 1, start)
    BY <2>5, <2>7, <2>8, <2>9 DEF SizedFrom
  <2>11. Ones(t) \in [Deals -> Int] /\ Loads(t) \in [Deals -> Int]
    BY WeightsAre
  <2>12. \A j \in 1..Len(old) : Ones(t)[old[j]] = 0 /\ Loads(t)[old[j]] = 0
    <3> SUFFICES ASSUME NEW j \in 1..m PROVE Ones(t)[old[j]] = 0 /\ Loads(t)[old[j]] = 0
      BY <1>1
    <3>1. ~Beside(old[j], t)
      BY <1>5, <2>2 DEF Beside
    <3>2. QED
      BY <1>5, <3>1 DEF Ones, Loads
  <2>13. Weight(old, Ones(t)) = 0 /\ Weight(old, Loads(t)) = 0
    BY <2>11, <2>12, WeightsOfNone
  <2>14. Weight(new, Ones(t)) \in Int /\ Weight(new, Loads(t)) \in Int
    BY <2>11, WeightType
  <2>15. Weight(all, Ones(t)) = Weight(new, Ones(t)) /\ Weight(all, Loads(t)) = Weight(new, Loads(t))
    BY <1>7, <2>11, <2>13, <2>14
  <2>16. QED
    BY <2>2, <2>3, <2>10, <2>15
<1>13. Sizes(all, start)
  <2>1. ASSUME NEW i \in 1..(m + n)
        PROVE  /\ SizedFrom(all[i], all, i - 1, start)
               /\ Weight(all, Ones(all[i])) < MaxConcurrent
               /\ Weight(all, Loads(all[i])) + all[i].notional <= all[i].equity * MaxGross
    <3>1. CASE i \in 1..m
      BY <1>11, <3>1
    <3>2. CASE i - m \in 1..n /\ m + (i - m) = i
      BY <1>12, <3>2
    <3>3. QED
      BY <1>4, <3>1, <3>2
  <2>2. QED
    BY <1>3, <2>1 DEF Sizes
<1>14. QED
  BY <1>1, <1>2, <1>3, <1>8, <1>10, <1>13 DEF BothOf

(* The slices *)

\* Where the slice of window k begins: the slices before it end there.
Mark(k) == shortest - (Windows - k) * TestSpan

LEMMA Spans ==
    ASSUME WalkForwardAssumption, shortest \in Nat, fraction \in Fractions
    PROVE  TestSpan \in Nat /\ TrainSpan \in Int
<1>1. fraction \in Int /\ 100 - fraction \in Nat /\ Windows \in Nat /\ Windows # 0
  BY DEF WalkForwardAssumption
<1>2. PICK f \in Nat : f = 100 - fraction
  BY <1>1
<1>3. PICK p : p = shortest * f
  OBVIOUS
<1>4. p \in Nat
  BY <1>2, <1>3
<1>5. p \div 100 \in Nat
  BY <1>4
<1>6. PICK q \in Nat : q = p \div 100
  BY <1>5
<1>7. q \div Windows \in Nat
  BY <1>1
<1>8. TestSpan \in Nat
  BY <1>2, <1>3, <1>6, <1>7 DEF TestSpan
<1>9. PICK r \in Int : r = shortest * fraction
  BY <1>1
<1>10. r \div 100 \in Int
  OBVIOUS
<1>11. TrainSpan \in Int
  BY <1>9, <1>10 DEF TrainSpan
<1>12. QED
  BY <1>8, <1>11

LEMMA MarkIs ==
    ASSUME WalkForwardAssumption, shortest \in Nat, fraction \in Fractions,
           NEW k \in 0..(Windows - 1)
    PROVE  /\ Mark(k) \in Int /\ Mark(k + 1) = Mark(k) + TestSpan /\ Mark(k + 1) <= shortest
           /\ TestSpan \in Nat
           /\ Slice(k).testStart = Mark(k) /\ Slice(k).testEnd = Mark(k + 1)
           /\ Slice(k).trainEnd = Mark(k) /\ Slice(k).trainStart \in Int /\ 0 <= Slice(k).trainStart
<1>1. TestSpan \in Nat /\ TrainSpan \in Int
  BY Spans
<1>2. PICK s \in Nat : s = TestSpan
  BY <1>1
<1>3. Windows \in Nat
  BY DEF WalkForwardAssumption
<1>4. PICK w \in Nat : w = Windows - (k + 1)
  BY <1>3
<1>5. PICK p \in Nat : p = w * s
  OBVIOUS
<1>6. Windows - (k + 1) = w /\ Windows - k - 1 = w /\ Windows - k = w + 1
  BY <1>3, <1>4
<1>7. (w + 1) * s = p + s
  BY <1>5
<1>8. Mark(k + 1) = shortest - p
  BY <1>2, <1>5, <1>6 DEF Mark
<1>9. Mark(k) = shortest - (p + s)
  BY <1>2, <1>6, <1>7 DEF Mark
<1>10. Slice(k).testEnd = shortest - p /\ Slice(k).testStart = (shortest - p) - s
       /\ Slice(k).trainEnd = (shortest - p) - s
  BY <1>2, <1>5, <1>6 DEF Slice
<1>11. Slice(k).trainStart = Max({0, ((shortest - p) - s) - TrainSpan})
  BY <1>2, <1>5, <1>6 DEF Slice
<1>12. PICK z \in Int : z = ((shortest - p) - s) - TrainSpan
  BY <1>1
<1>13. Max({0, z}) \in Int /\ 0 <= Max({0, z})
  <2>1. \E m \in {0, z} : \A j \in {0, z} : m >= j
    OBVIOUS
  <2>2. Max({0, z}) \in {0, z} /\ \A j \in {0, z} : Max({0, z}) >= j
    BY <2>1 DEF Max
  <2>3. QED
    BY <2>2
<1>14. QED
  BY <1>1, <1>2, <1>8, <1>9, <1>10, <1>11, <1>12, <1>13

\* A pool of offers on a slice is one of candidates within the slice.
LEMMA OfferedAreEligible ==
    ASSUME WalkForwardAssumption, NEW slice, slice.testStart \in Int, slice.testEnd \in Int
    PROVE  Offered(slice) \subseteq Eligible(slice.testStart, slice.testEnd)
<1> DEFINE low == slice.testStart
           high == slice.testEnd
<1>1. SUFFICES ASSUME NEW c \in Offered(slice) PROVE c \in Eligible(low, high)
  OBVIOUS
<1>2. PICK o \in Offers : /\ c = [o EXCEPT !.entry = low + @, !.exit = Min({low + @, high - 1})]
                          /\ c.entry \in (low + 1)..(high - 1)
  BY DEF Offered
<1>3. /\ o = [entry |-> o.entry, exit |-> o.exit, stop |-> o.stop, pnl |-> o.pnl]
      /\ o.entry \in Nat /\ o.exit \in Nat /\ o.entry <= o.exit /\ o.stop \in Int /\ o.pnl \in Int
  BY DEF WalkForwardAssumption
<1>4. low \in Int /\ high \in Int
  OBVIOUS
<1> HIDE DEF low, high
<1>5. PICK x \in Int : x = low + o.exit
  BY <1>3, <1>4
<1>6. PICK y \in Int : y = high - 1
  BY <1>4
<1>7. PICK m : m = Min({x, y})
  OBVIOUS
<1>8. m \in {x, y} /\ m <= x /\ m <= y
  <2>1. \E k \in {x, y} : \A j \in {x, y} : k <= j
    OBVIOUS
  <2>2. Min({x, y}) \in {x, y} /\ \A j \in {x, y} : Min({x, y}) <= j
    BY <2>1 DEF Min
  <2>3. QED
    BY <1>7, <2>2
<1>9. c = [entry |-> low + o.entry, exit |-> m, stop |-> o.stop, pnl |-> o.pnl]
  BY <1>2, <1>3, <1>5, <1>6, <1>7
<1>10. c.entry = low + o.entry /\ c.exit = m /\ c.entry <= y /\ low < c.entry /\ c.entry \in Int
  <2>1. c.entry = low + o.entry /\ c.exit = m
    BY <1>9
  <2>2. c.entry \in (low + 1)..(high - 1)
    BY <1>2
  <2>3. PICK e \in Int : e = low + o.entry
    BY <1>3, <1>4
  <2>4. e \in (low + 1)..y
    BY <1>6, <2>1, <2>2, <2>3
  <2>5. e <= y /\ low < e
    BY <1>4, <2>4
  <2>6. QED
    BY <2>1, <2>3, <2>5
<1>11. c.entry <= c.exit /\ c.exit < high /\ c.exit \in Int
  BY <1>3, <1>4, <1>5, <1>6, <1>8, <1>10
<1>12. c \in Candidates
  BY <1>3, <1>9, <1>10, <1>11 DEF Candidates
<1>13. QED
  BY <1>10, <1>11, <1>12 DEF Eligible

-----------------------------------------------------------------------------
(***************************************************************************)
(* The invariant of a walk.  The reported slices are some of those of the  *)
(* windows rolled, in order, so all of them end where the next begins, and *)
(* the trades so far lie in them: the ones of the next slice come after    *)
(* all of them.                                                            *)
(***************************************************************************)
SlicesInOrder ==
    /\ Len(reported) <= rolled
    /\ \A i \in 1..Len(reported) :
          \E k \in 0..(rolled - 1) :
             reported[i] = Slice(k) /\ Slice(k).trainStart < Slice(k).trainEnd
    /\ \A i, j \in 1..Len(reported) : j < i => reported[j].testEnd <= reported[i].testStart
    /\ \A i \in 1..Len(reported) : reported[i].testEnd <= Mark(rolled)

TradesInSlices ==
    \A i \in 1..Len(forward) : \E j \in 1..Len(reported) :
        forward[i].entry > reported[j].testStart /\ forward[i].exit < reported[j].testEnd

OneAccount ==
    /\ forward \in Seq(Deals) /\ Rising(forward, "exit") /\ Sizes(forward, InitialEquity)
    /\ capital = InitialEquity + ResultOf(forward)

WalkInv ==
    /\ shortest \in Lengths /\ fraction \in Fractions /\ rolled \in 0..Windows
    /\ capital \in Int /\ reported \in Seq({Slice(k) : k \in 0..Windows})
    /\ SlicesInOrder /\ TradesInSlices /\ OneAccount

LEMMA WalkStarts == ASSUME WalkForwardAssumption, WalkInit PROVE WalkInv
<1>1. InitialEquity \in Int /\ Windows \in Nat
  BY DEF WalkForwardAssumption
<1>2. /\ shortest \in Lengths /\ fraction \in Fractions /\ rolled = 0 /\ rolled \in 0..Windows
      /\ reported = <<>> /\ forward = <<>> /\ capital = InitialEquity
  BY <1>1 DEF WalkInit
<1>3. /\ <<>> \in Seq(Deals) /\ Len(<<>>) = 0 /\ reported \in Seq({Slice(k) : k \in 0..Windows})
  BY <1>2
<1>4. ResultOf(<<>>) = 0
  <2>1. \A i \in 1..Len(<<>>) : Results[<<>>[i]] = 0
    BY <1>3
  <2>2. Weight(<<>>, Results) = 0
    BY <1>3, <2>1, WeightsAre, WeightsOfNone
  <2>3. QED
    BY <1>3, <2>2, TotalsAreWeights
<1>5. SlicesInOrder
  BY <1>2, <1>3 DEF SlicesInOrder
<1>6. TradesInSlices
  BY <1>2, <1>3 DEF TradesInSlices
<1>7. OneAccount
  BY <1>1, <1>2, <1>3, <1>4 DEF OneAccount, Rising, Sizes
<1>8. QED
  BY <1>1, <1>2, <1>3, <1>5, <1>6, <1>7 DEF WalkInv

\* A window that is skipped moves the mark on.
LEMMA SkipKeeps == ASSUME WalkForwardAssumption, WalkInv, SkipWindow PROVE WalkInv'
<1>1. /\ rolled \in 0..(Windows - 1) /\ rolled' = rolled + 1 /\ rolled' \in 0..Windows
      /\ UNCHANGED <<shortest, fraction, reported, forward, capital>>
  BY DEF SkipWindow, WalkInv, WalkForwardAssumption
<1>2. shortest \in Nat /\ fraction \in Fractions
  BY DEF WalkInv, WalkForwardAssumption
<1>3. TestSpan' = TestSpan /\ TrainSpan' = TrainSpan
  BY <1>1 DEF TestSpan, TrainSpan
<1>4. /\ \A k : Slice(k)' = Slice(k)
      /\ \A k : Mark(k)' = Mark(k)
  BY <1>1, <1>3 DEF Slice, Mark
<1>5. Mark(rolled) \in Int /\ Mark(rolled + 1) = Mark(rolled) + TestSpan /\ TestSpan \in Nat
  BY <1>1, <1>2, MarkIs
<1>6. PICK n \in Nat : n = Len(reported)
  BY DEF WalkInv
<1>7. \A i \in 1..n : \E k \in 0..(rolled - 1) :
             reported[i] = Slice(k) /\ Slice(k).trainStart < Slice(k).trainEnd
  BY <1>6 DEF WalkInv, SlicesInOrder
<1>8. \A i \in 1..n : reported[i].testEnd <= Mark(rolled) /\ reported[i].testEnd \in Int
  <2> SUFFICES ASSUME NEW i \in 1..n
               PROVE  reported[i].testEnd <= Mark(rolled) /\ reported[i].testEnd \in Int
    OBVIOUS
  <2>1. PICK k \in 0..(rolled - 1) : reported[i] = Slice(k)
    BY <1>7
  <2>2. k \in 0..(Windows - 1)
    <3>1. Windows \in Int
      BY DEF WalkForwardAssumption
    <3>2. QED
      BY <1>1, <3>1
  <2>3. Slice(k).testEnd = Mark(k) + TestSpan /\ Mark(k) \in Int
    BY <1>2, <2>2, MarkIs
  <2>4. reported[i].testEnd <= Mark(rolled)
    BY <1>6 DEF WalkInv, SlicesInOrder
  <2>5. QED
    BY <1>5, <2>1, <2>3, <2>4
<1>9. \A i \in 1..n : reported[i].testEnd <= Mark(rolled + 1)
  BY <1>5, <1>8
<1>10. \A k \in 0..(rolled - 1) : k \in 0..rolled
  BY <1>1
<1>11. n <= rolled + 1
  BY <1>1, <1>6 DEF WalkInv, SlicesInOrder
<1>12. \A i, j \in 1..n : j < i => reported[j].testEnd <= reported[i].testStart
  BY <1>6 DEF WalkInv, SlicesInOrder
<1>13. (rolled + 1) - 1 = rolled
  BY <1>1
<1>14. SlicesInOrder'
  <2>1. Len(reported') = n
    BY <1>1, <1>6
  <2>2. \A i \in 1..n : \E k \in 0..(rolled' - 1) :
             reported'[i] = Slice(k)' /\ Slice(k)'.trainStart < Slice(k)'.trainEnd
    BY <1>1, <1>4, <1>7, <1>10, <1>13
  <2>3. \A i \in 1..n : reported'[i].testEnd <= Mark(rolled)'
    <3>1. Mark(rolled)' = Mark(rolled + 1)
      BY <1>1, <1>3 DEF Mark
    <3>2. QED
      BY <1>1, <1>9, <3>1
  <2>4. QED
    BY <1>1, <1>11, <1>12, <2>1, <2>2, <2>3 DEF SlicesInOrder
<1>15. TradesInSlices' /\ OneAccount'
  BY <1>1 DEF WalkInv, TradesInSlices, OneAccount
<1>16. (reported \in Seq({Slice(k) : k \in 0..Windows}))'
  <2>1. {Slice(k)' : k \in 0..Windows} = {Slice(k) : k \in 0..Windows}
    BY <1>4
  <2>2. reported \in Seq({Slice(k) : k \in 0..Windows})
    BY DEF WalkInv
  <2>3. QED
    BY <1>1, <2>1, <2>2
<1>17. QED
  BY <1>1, <1>14, <1>15, <1>16 DEF WalkInv

\* A window that is traded: its slice follows those reported, and its trades all others.
LEMMA SliceAdded ==
    ASSUME WalkForwardAssumption, WalkInv, TradeWindow
    PROVE  /\ SlicesInOrder' /\ reported' \in Seq({Slice(k)' : k \in 0..Windows})
           /\ Len(reported') = Len(reported) + 1
           /\ reported'[Len(reported) + 1] = Slice(rolled)
           /\ \A i \in 1..Len(reported) : reported'[i] = reported[i] /\ reported[i].testEnd <= Mark(rolled)
<1>1. /\ rolled \in 0..(Windows - 1) /\ rolled' = rolled + 1
      /\ UNCHANGED <<shortest, fraction>> /\ reported' = Append(reported, Slice(rolled))
      /\ Slice(rolled).testStart > Slice(rolled).trainStart
  BY DEF TradeWindow, WalkInv, WalkForwardAssumption
<1>2. shortest \in Nat /\ fraction \in Fractions /\ Windows \in Int
  BY DEF WalkInv, WalkForwardAssumption
<1>3. TestSpan' = TestSpan /\ TrainSpan' = TrainSpan
  BY <1>1 DEF TestSpan, TrainSpan
<1>4. \A k : Slice(k)' = Slice(k)
  BY <1>1, <1>3 DEF Slice
<1>5. Mark(rolled)' = Mark(rolled + 1)
  BY <1>1, <1>3 DEF Mark
<1>6. /\ Mark(rolled) \in Int /\ Mark(rolled + 1) = Mark(rolled) + TestSpan /\ TestSpan \in Nat
      /\ Slice(rolled).testStart = Mark(rolled) /\ Slice(rolled).testEnd = Mark(rolled + 1)
      /\ Slice(rolled).trainEnd = Mark(rolled)
  BY <1>1, <1>2, MarkIs
<1>7. PICK n \in Nat : n = Len(reported)
  BY DEF WalkInv
<1> DEFINE V == {Slice(k) : k \in 0..Windows}
<1>8. reported \in Seq(V) /\ Slice(rolled) \in V
  <2>1. rolled \in 0..Windows
    BY DEF WalkInv
  <2>2. QED
    BY <2>1 DEF WalkInv
<1> HIDE DEF V
<1>9. /\ reported' \in Seq(V) /\ Len(reported') = n + 1 /\ reported'[n + 1] = Slice(rolled)
      /\ \A i \in 1..n : reported'[i] = reported[i]
  BY <1>1, <1>7, <1>8
<1>10. /\ n <= rolled
       /\ \A i \in 1..n : \E k \in 0..(rolled - 1) :
             reported[i] = Slice(k) /\ Slice(k).trainStart < Slice(k).trainEnd
       /\ \A i, j \in 1..n : j < i => reported[j].testEnd <= reported[i].testStart
       /\ \A i \in 1..n : reported[i].testEnd <= Mark(rolled)
  BY <1>7 DEF WalkInv, SlicesInOrder
<1>11. \A i \in 1..n : reported[i].testEnd \in Int
  <2> SUFFICES ASSUME NEW i \in 1..n PROVE reported[i].testEnd \in Int
    OBVIOUS
  <2>1. PICK k \in 0..(rolled - 1) : reported[i] = Slice(k)
    BY <1>10
  <2>2. k \in 0..(Windows - 1)
    BY <1>1, <1>2
  <2>3. Slice(k).testEnd = Mark(k) + TestSpan /\ Mark(k) \in Int
    BY <1>2, <2>2, MarkIs
  <2>4. QED
    BY <1>6, <2>1, <2>3
<1>12. \A i \in 1..(n + 1) : i \in 1..n \/ i = n + 1
  OBVIOUS
<1>13. Slice(rolled).trainStart < Slice(rolled).trainEnd
  <2>1. Slice(rolled).trainStart \in Int
    BY <1>1, <1>2, MarkIs
  <2>2. QED
    BY <1>1, <1>6, <2>1
<1>14. ASSUME NEW i \in 1..(n + 1)
       PROVE  \E k \in 0..(rolled' - 1) :
                 reported'[i] = Slice(k)' /\ Slice(k)'.trainStart < Slice(k)'.trainEnd
  <2>1. rolled' - 1 = rolled /\ rolled \in 0..rolled /\ \A k \in 0..(rolled - 1) : k \in 0..rolled
    BY <1>1
  <2>2. CASE i \in 1..n
    <3>1. PICK k \in 0..(rolled - 1) :
             reported[i] = Slice(k) /\ Slice(k).trainStart < Slice(k).trainEnd
      BY <1>10, <2>2
    <3>2. QED
      BY <1>4, <1>9, <2>1, <2>2, <3>1
  <2>3. CASE i = n + 1
    BY <1>4, <1>9, <1>13, <2>1, <2>3
  <2>4. QED
    BY <1>12, <2>2, <2>3
<1>15. ASSUME NEW i \in 1..(n + 1), NEW j \in 1..(n + 1), j < i
       PROVE  reported'[j].testEnd <= reported'[i].testStart
  <2>1. j \in 1..n
    BY <1>15
  <2>2. CASE i \in 1..n
    BY <1>9, <1>10, <1>15, <2>1, <2>2
  <2>3. CASE i = n + 1
    BY <1>6, <1>9, <1>10, <2>1, <2>3
  <2>4. QED
    BY <1>12, <2>2, <2>3
<1>16. ASSUME NEW i \in 1..(n + 1) PROVE reported'[i].testEnd <= Mark(rolled)'
  <2>1. CASE i \in 1..n
    <3>1. reported[i].testEnd <= Mark(rolled) /\ reported[i].testEnd \in Int
      BY <1>10, <1>11, <2>1
    <3>2. reported[i].testEnd <= Mark(rolled + 1)
      BY <1>6, <3>1
    <3>3. QED
      BY <1>5, <1>9, <2>1, <3>2
  <2>2. CASE i = n + 1
    <3>1. reported'[i].testEnd = Mark(rolled + 1) /\ Mark(rolled + 1) \in Int
      BY <1>6, <1>9, <2>2
    <3>2. QED
      BY <1>5, <3>1
  <2>3. QED
    BY <1>12, <2>1, <2>2
<1>17. Len(reported') <= rolled'
  BY <1>1, <1>9, <1>10
<1>18. SlicesInOrder'
  BY <1>9, <1>14, <1>15, <1>16, <1>17 DEF SlicesInOrder
<1>19. V = {Slice(k)' : k \in 0..Windows}
  BY <1>4 DEF V
<1>20. QED
  BY <1>7, <1>9, <1>10, <1>18, <1>19

LEMMA TradeKeepsWalk == ASSUME WalkForwardAssumption, WalkInv, TradeWindow PROVE WalkInv'
<1>1. PICK low : low = Mark(rolled)
  OBVIOUS
<1>2. PICK high : high = Mark(rolled + 1)
  OBVIOUS
<1>3. rolled \in 0..(Windows - 1) /\ shortest \in Nat /\ fraction \in Fractions
  BY DEF TradeWindow, WalkInv, WalkForwardAssumption
<1>4. /\ low \in Int /\ high \in Int
      /\ Slice(rolled).testStart = low /\ Slice(rolled).testEnd = high
  <2>1. /\ Mark(rolled) \in Int /\ Mark(rolled + 1) = Mark(rolled) + TestSpan /\ TestSpan \in Nat
        /\ Slice(rolled).testStart = Mark(rolled) /\ Slice(rolled).testEnd = Mark(rolled + 1)
    BY <1>3, MarkIs
  <2>2. QED
    BY <1>1, <1>2, <2>1
<1>5. PortfolioAssumption /\ InitialEquity \in Int /\ MaxConcurrent \in Int /\ MaxGross \in Int
      /\ MaxOffers \in Nat
  BY DEF WalkForwardAssumption, PortfolioAssumption
<1>6. PICK n \in 0..MaxOffers : \E pool \in [1..n -> Offered(Slice(rolled))] :
          /\ capital' = Combine(pool, capital).equity
          /\ forward' = ByExit(forward \o Combine(pool, capital).trades)
  BY DEF TradeWindow
<1>7. PICK pool \in [1..n -> Offered(Slice(rolled))] :
          /\ capital' = Combine(pool, capital).equity
          /\ forward' = ByExit(forward \o Combine(pool, capital).trades)
  BY <1>6
<1>8. pool \in Seq(Eligible(low, high))
  <2>1. Offered(Slice(rolled)) \subseteq Eligible(low, high)
    <3>1. PICK slice : slice = Slice(rolled)
      OBVIOUS
    <3>2. slice.testStart \in Int /\ slice.testEnd \in Int
      BY <1>4, <3>1
    <3>3. Offered(slice) \subseteq Eligible(slice.testStart, slice.testEnd)
      BY <3>2, OfferedAreEligible
    <3>4. QED
      BY <1>4, <3>1, <3>3
  <2>2. pool \in [1..n -> Eligible(low, high)]
    BY <2>1
  <2>3. n \in Nat
    BY <1>5
  <2>4. QED
    BY <2>2, <2>3
<1>9. PICK new : new = Combine(pool, capital).trades
  OBVIOUS
<1>10. capital \in Int /\ OneAccount /\ TradesInSlices
  BY DEF WalkInv
<1>11. /\ new \in Seq(Within(low, high)) /\ new \in Seq(Deals) /\ Rising(new, "exit")
       /\ Sizes(new, capital) /\ capital' = capital + ResultOf(new)
  BY <1>4, <1>5, <1>7, <1>8, <1>9, <1>10, CombineIs
<1>12. \A i \in 1..Len(new) : low < new[i].entry /\ new[i].exit < high
  BY <1>11 DEF Within
<1>13. PICK old : old = forward
  OBVIOUS
<1>14. old \in Seq(Deals) /\ Rising(old, "exit") /\ Sizes(old, InitialEquity)
       /\ capital = InitialEquity + ResultOf(old)
  BY <1>10, <1>13 DEF OneAccount
<1>15. PICK n1 \in Nat : n1 = Len(reported)
  BY DEF WalkInv
<1>16. /\ SlicesInOrder' /\ reported' \in Seq({Slice(k)' : k \in 0..Windows})
       /\ Len(reported') = n1 + 1 /\ reported'[n1 + 1] = Slice(rolled)
       /\ \A i \in 1..n1 : reported'[i] = reported[i] /\ reported[i].testEnd <= low
  BY <1>1, <1>15, SliceAdded
<1>17. ASSUME NEW i \in 1..Len(old)
       PROVE  old[i].exit <= low /\ \E j \in 1..(n1 + 1) :
                 old[i].entry > reported'[j].testStart /\ old[i].exit < reported'[j].testEnd
  <2>1. PICK j \in 1..n1 : old[i].entry > reported[j].testStart /\ old[i].exit < reported[j].testEnd
    BY <1>10, <1>13, <1>15 DEF TradesInSlices
  <2>2. reported[j].testEnd <= low /\ reported'[j] = reported[j] /\ j \in 1..(n1 + 1)
    BY <1>16
  <2>3. reported[j].testEnd \in Int
    <3>1. PICK k \in 0..(rolled - 1) : reported[j] = Slice(k)
      BY <1>15 DEF WalkInv, SlicesInOrder
    <3>2. k \in 0..(Windows - 1)
      <4>1. Windows \in Int
        BY DEF WalkForwardAssumption
      <4>2. QED
        BY <1>3, <4>1
    <3>3. Slice(k).testEnd = Mark(k) + TestSpan /\ Mark(k) \in Int /\ TestSpan \in Nat
      BY <1>3, <3>2, MarkIs
    <3>4. QED
      BY <3>1, <3>3
  <2>4. old[i] \in Deals
    BY <1>14
  <2>5. old[i].exit \in Int
    BY <2>4, DealIs
  <2>6. old[i].exit <= low
    BY <1>4, <2>1, <2>2, <2>3, <2>5
  <2>7. QED
    BY <2>1, <2>2, <2>6
<1>18. PICK all : all = old \o new
  OBVIOUS
<1>19. /\ all \in Seq(Deals) /\ Rising(all, "exit") /\ Sizes(all, InitialEquity)
       /\ ResultOf(all) = ResultOf(old) + ResultOf(new)
       /\ Len(all) = Len(old) + Len(new)
       /\ \A i \in 1..Len(old) : all[i] = old[i]
       /\ \A i \in 1..Len(new) : all[Len(old) + i] = new[i]
  <2>1. capital \in Int /\ InitialEquity \in Int /\ low \in Int
    BY <1>4, <1>5, <1>10
  <2>2. (\A i \in 1..Len(old) : old[i].exit <= low) /\ (\A i \in 1..Len(new) : low < new[i].entry)
    BY <1>12, <1>17
  <2>3. MaxConcurrent \in Int /\ MaxGross \in Int
    BY <1>5
  <2>4. BothOf(all, old, new, InitialEquity)
    BY <1>11, <1>14, <1>18, <2>1, <2>2, <2>3, Joined
  <2>5. QED
    BY <2>4 DEF BothOf
<1>20. ByExit(all) = all
  BY <1>19, InOrderAlready
<1>21. forward' = all
  BY <1>7, <1>9, <1>13, <1>18, <1>20
<1>22. ResultOf(old) \in Int /\ ResultOf(new) \in Int
  BY <1>11, <1>14, TotalsAreWeights, WeightsAre, WeightType
<1>23. capital' = InitialEquity + ResultOf(all) /\ capital' \in Int
  BY <1>5, <1>11, <1>14, <1>19, <1>22
<1>24. OneAccount'
  BY <1>19, <1>21, <1>23 DEF OneAccount, Rising, Sizes
<1>25. TradesInSlices'
  <2>1. PICK m \in Nat : m = Len(old)
    BY <1>14
  <2>2. PICK l \in Nat : l = Len(new)
    BY <1>11
  <2>3. ASSUME NEW i \in 1..(m + l)
        PROVE  \E j \in 1..(n1 + 1) :
                  all[i].entry > reported'[j].testStart /\ all[i].exit < reported'[j].testEnd
    <3>1. i \in 1..m \/ (i - m \in 1..l /\ m + (i - m) = i)
      OBVIOUS
    <3>2. CASE i \in 1..m
      BY <1>17, <1>19, <2>1, <3>2
    <3>3. CASE i - m \in 1..l /\ m + (i - m) = i
      <4>1. all[i] = new[i - m]
        BY <1>19, <2>1, <2>2, <3>3
      <4>2. low < new[i - m].entry /\ new[i - m].exit < high
        BY <1>12, <2>2, <3>3
      <4>3. new[i - m] \in Deals
        BY <1>11, <2>2, <3>3
      <4>4. new[i - m].entry > low
        BY <1>4, <4>2, <4>3, DealIs
      <4>5. n1 + 1 \in 1..(n1 + 1)
        OBVIOUS
      <4>6. QED
        BY <1>4, <1>16, <4>1, <4>2, <4>4, <4>5
    <3>4. QED
      BY <3>1, <3>2, <3>3
  <2>4. Len(all) = m + l
    BY <1>19, <2>1, <2>2
  <2>5. QED
    BY <1>16, <1>21, <2>3, <2>4 DEF TradesInSlices
<1>26. /\ shortest' \in Lengths /\ fraction' \in Fractions /\ rolled' \in 0..Windows
  BY <1>3 DEF WalkInv, TradeWindow, WalkForwardAssumption
<1>27. QED
  BY <1>16, <1>23, <1>24, <1>25, <1>26 DEF WalkInv

LEMMA WalkStays == ASSUME WalkForwardAssumption, WalkInv, [WalkNext]_walkVars PROVE WalkInv'
<1>1. CASE SkipWindow
  BY <1>1, SkipKeeps
<1>2. CASE TradeWindow
  BY <1>2, TradeKeepsWalk
<1>3. CASE UNCHANGED walkVars
  <2>1. UNCHANGED <<shortest, fraction, rolled, reported, forward, capital>>
    BY <1>3 DEF walkVars
  <2>2. TestSpan' = TestSpan /\ TrainSpan' = TrainSpan
    BY <2>1 DEF TestSpan, TrainSpan
  <2>3. (\A k : Slice(k)' = Slice(k)) /\ Mark(rolled)' = Mark(rolled)
    BY <2>1, <2>2 DEF Slice, Mark
  <2>4. SlicesInOrder'
    BY <2>1, <2>3 DEF WalkInv, SlicesInOrder
  <2>5. TradesInSlices' /\ OneAccount'
    BY <2>1 DEF WalkInv, TradesInSlices, OneAccount
  <2>6. (reported \in Seq({Slice(k) : k \in 0..Windows}))'
    <3>1. {Slice(k)' : k \in 0..Windows} = {Slice(k) : k \in 0..Windows}
      BY <2>3
    <3>2. reported \in Seq({Slice(k) : k \in 0..Windows})
      BY DEF WalkInv
    <3>3. QED
      BY <2>1, <3>1, <3>2
  <2>7. QED
    BY <2>1, <2>4, <2>5, <2>6 DEF WalkInv
<1>4. QED
  BY <1>1, <1>2, <1>3 DEF WalkNext

LEMMA WalkHolds == ASSUME WalkForwardAssumption PROVE WalkSpec => []WalkInv
<1>1. WalkInit => WalkInv
  BY WalkStarts
<1>2. WalkInv /\ [WalkNext]_walkVars => WalkInv'
  BY WalkStays
<1>3. QED
  BY <1>1, <1>2, PTL DEF WalkSpec

LEMMA InvGivesOutOfSample == ASSUME WalkForwardAssumption, WalkInv PROVE OutOfSample
<1>1. shortest \in Nat /\ fraction \in Fractions /\ rolled \in 0..Windows /\ Windows \in Int
  BY DEF WalkInv, WalkForwardAssumption
<1>2. PICK n \in Nat : n = Len(reported)
  BY DEF WalkInv
<1>3. DOMAIN reported = 1..n
  BY <1>2 DEF WalkInv
<1>4. \A i, j \in 1..n : j < i => reported[j].testEnd <= reported[i].testStart
  BY <1>2 DEF WalkInv, SlicesInOrder
<1>5. ASSUME NEW i \in 1..n
      PROVE  /\ 0 <= reported[i].trainStart /\ reported[i].trainStart < reported[i].trainEnd
             /\ reported[i].trainEnd <= reported[i].testStart
             /\ reported[i].testEnd - reported[i].testStart = TestSpan
             /\ reported[i].testEnd <= shortest
  <2>1. PICK k \in 0..(rolled - 1) :
           reported[i] = Slice(k) /\ Slice(k).trainStart < Slice(k).trainEnd
    BY <1>2 DEF WalkInv, SlicesInOrder
  <2>2. k \in 0..(Windows - 1)
    BY <1>1
  <2>3. /\ Mark(k) \in Int /\ Mark(k + 1) = Mark(k) + TestSpan /\ Mark(k + 1) <= shortest
        /\ TestSpan \in Nat
        /\ Slice(k).testStart = Mark(k) /\ Slice(k).testEnd = Mark(k + 1)
        /\ Slice(k).trainEnd = Mark(k) /\ 0 <= Slice(k).trainStart
    BY <1>1, <2>2, MarkIs
  <2>4. QED
    BY <2>1, <2>3
<1>6. \A i \in 1..n : \A j \in 1..(i - 1) : reported[j].testEnd <= reported[i].testStart
  <2>1. \A i \in 1..n : \A j \in 1..(i - 1) : j \in 1..n /\ j < i
    OBVIOUS
  <2>2. QED
    BY <1>4, <2>1
<1>7. DOMAIN forward = 1..Len(forward)
  BY DEF WalkInv, OneAccount
<1>8. \A i \in DOMAIN forward : \E j \in DOMAIN reported :
          forward[i].entry > reported[j].testStart /\ forward[i].exit < reported[j].testEnd
  BY <1>2, <1>3, <1>7 DEF WalkInv, TradesInSlices
<1>9. capital = InitialEquity + ResultOf(forward)
  BY DEF WalkInv, OneAccount
<1>10. QED
  BY <1>3, <1>5, <1>6, <1>8, <1>9 DEF OutOfSample

LEMMA InvGivesSizes == ASSUME WalkForwardAssumption, WalkInv PROVE SizedOnSettledEquity
<1>1. forward \in Seq(Deals) /\ Sizes(forward, InitialEquity)
  BY DEF WalkInv, OneAccount
<1>2. QED
  BY <1>1, SizesAreSizedOn DEF SizedOnSettledEquity

-----------------------------------------------------------------------------
\* The walk keeps its types: no more slices are reported than windows were rolled.
THEOREM WalkTypeCorrect == ASSUME WalkForwardAssumption PROVE WalkSpec => []WalkTypeOK
<1>1. WalkInv => WalkTypeOK
  BY DEF WalkInv, SlicesInOrder, WalkTypeOK
<1>2. QED
  BY <1>1, WalkHolds, PTL

\* walk_forward (walkforward.py): every slice that is reported, of the same length as all others
\* and after those before it, was traded with parameters picked on bars before it; each trade lies
\* in one slice, and the equity is the initial one and what the trades earned.
THEOREM ReportedIsUnseen == ASSUME WalkForwardAssumption PROVE WalkSpec => []OutOfSample
<1>1. WalkInv => OutOfSample
  BY InvGivesOutOfSample
<1>2. QED
  BY <1>1, WalkHolds, PTL

\* combine (portfolio.py), over all slices: every trade was sized on the settled equity, beside
\* fewer than MaxConcurrent others, and under the gross limit of that equity.
THEOREM SizedAsOneAccount == ASSUME WalkForwardAssumption PROVE WalkSpec => []SizedOnSettledEquity
<1>1. WalkInv => SizedOnSettledEquity
  BY InvGivesSizes
<1>2. QED
  BY <1>1, WalkHolds, PTL

(* ------------------------------- the sweep --------------------------------- *)

\* A strict order of all elements numbers a finite set.
LEMMA NthIs ==
    ASSUME NEW S, IsFiniteSet(S), NEW R,
           \A a \in S : <<a, a>> \notin R,
           \A a, b, c \in S : <<a, b>> \in R /\ <<b, c>> \in R => <<a, c>> \in R,
           \A a, b \in S : a = b \/ <<a, b>> \in R \/ <<b, a>> \in R
    PROVE  /\ Cardinality(S) \in Nat
           /\ \A p \in 0..(Cardinality(S) - 1) : Nth(S, R, p) \in S
           /\ \A n \in S : \E p \in 0..(Cardinality(S) - 1) : Nth(S, R, p) = n
           /\ \A p, q \in 0..(Cardinality(S) - 1) :
                 p < q => <<Nth(S, R, p), Nth(S, R, q)>> \in R
<1> DEFINE c == Cardinality(S)
           Below(n) == {k \in S : <<k, n>> \in R}
           rank == [n \in S |-> Cardinality(Below(n))]
<1>1. c \in Nat
  BY FS_CardinalityType
<1>2. ASSUME NEW n \in S
      PROVE  IsFiniteSet(Below(n)) /\ rank[n] \in 0..(c - 1)
  <2>1. Below(n) \in SUBSET S /\ n \notin Below(n)
    OBVIOUS
  <2>2. IsFiniteSet(Below(n)) /\ Cardinality(Below(n)) <= c /\ (Cardinality(Below(n)) = c => S = Below(n))
    BY <2>1, FS_Subset
  <2>3. Cardinality(Below(n)) \in Nat /\ Cardinality(Below(n)) # c
    BY <2>1, <2>2, FS_CardinalityType
  <2>4. QED
    BY <1>1, <2>2, <2>3
<1>3. ASSUME NEW a \in S, NEW b \in S, <<a, b>> \in R
      PROVE  rank[a] < rank[b]
  <2>1. Below(a) \in SUBSET Below(b) /\ a \in Below(b) /\ a \notin Below(a)
    BY <1>3
  <2>2. /\ Cardinality(Below(a)) <= Cardinality(Below(b))
        /\ Cardinality(Below(a)) = Cardinality(Below(b)) => Below(a) = Below(b)
    BY <1>2, <2>1, FS_Subset
  <2>3. rank[a] \in 0..(c - 1) /\ rank[b] \in 0..(c - 1)
    BY <1>2
  <2>4. rank[a] # rank[b] /\ rank[a] <= rank[b]
    BY <2>1, <2>2
  <2>5. QED
    BY <1>1, <2>3, <2>4
<1>4. \A a, b \in S : rank[a] = rank[b] => a = b
  <2> SUFFICES ASSUME NEW a \in S, NEW b \in S, rank[a] = rank[b], a # b PROVE FALSE
    OBVIOUS
  <2>1. rank[a] \in Int /\ rank[b] \in Int
    <3>1. rank[a] \in 0..(c - 1) /\ rank[b] \in 0..(c - 1)
      BY <1>2
    <3> HIDE DEF rank, c
    <3>2. QED
      BY <1>1, <3>1
  <2>2. rank[a] < rank[b] \/ rank[b] < rank[a]
    BY <1>3
  <2>3. QED
    BY <2>1, <2>2
<1>5. \A n \in S : rank[n] = Cardinality(Below(n))
  OBVIOUS
<1>6. rank \in [S -> 0..(c - 1)]
  BY <1>2
<1> HIDE DEF rank
<1>7. \A p \in 0..(c - 1) : \E n \in S : rank[n] = p
  <2>1. IsFiniteSet(0..(c - 1)) /\ Cardinality(0..(c - 1)) = c
    <3>1. 0 \in Int /\ c - 1 \in Int
      BY <1>1
    <3>2. IsFiniteSet(0..(c - 1)) /\ Cardinality(0..(c - 1)) = IF 0 > c - 1 THEN 0 ELSE c - 1 - 0 + 1
      BY <3>1, FS_Interval
    <3>3. QED
      BY <1>1, <3>2
  <2>2. \A a, b \in DOMAIN rank : rank[a] = rank[b] => a = b
    BY <1>4, <1>6
  <2>3. rank \in Injection(S, 0..(c - 1))
    BY <1>4, <1>6, <2>2 DEF Injection, IsInjective
  <2>4. rank \in Surjection(S, 0..(c - 1))
    BY <2>1, <2>3, FS_Injection
  <2>5. QED
    BY <2>4 DEF Surjection
<1>8. ASSUME NEW p \in 0..(c - 1) PROVE Nth(S, R, p) \in S /\ rank[Nth(S, R, p)] = p
  <2>1. \E n \in S : Cardinality(Below(n)) = p
    BY <1>5, <1>7
  <2>2. QED
    BY <1>5, <2>1 DEF Nth
<1>9. ASSUME NEW n \in S PROVE \E p \in 0..(c - 1) : Nth(S, R, p) = n
  <2>1. rank[n] \in 0..(c - 1)
    BY <1>6
  <2>2. Nth(S, R, rank[n]) \in S /\ rank[Nth(S, R, rank[n])] = rank[n]
    BY <1>8, <2>1
  <2>3. QED
    BY <1>4, <2>1, <2>2
<1>10. ASSUME NEW p \in 0..(c - 1), NEW q \in 0..(c - 1), p < q
       PROVE  <<Nth(S, R, p), Nth(S, R, q)>> \in R
  <2>1. /\ Nth(S, R, p) \in S /\ rank[Nth(S, R, p)] = p
        /\ Nth(S, R, q) \in S /\ rank[Nth(S, R, q)] = q
    BY <1>8
  <2>2. Nth(S, R, p) # Nth(S, R, q) /\ ~(<<Nth(S, R, q), Nth(S, R, p)>> \in R)
    <3>1. p \in Int /\ q \in Int /\ p # q /\ ~(q < p)
      BY <1>1, <1>10
    <3>2. QED
      BY <1>3, <2>1, <3>1
  <2>3. QED
    BY <2>1, <2>2
<1>11. QED
  BY <1>1, <1>8, <1>9, <1>10

\* The elements of a set of numbers, the least first.
LEMMA AscendingIs ==
    ASSUME NEW S, S \subseteq Int, IsFiniteSet(S)
    PROVE  /\ Cardinality(S) \in Nat
           /\ Sorted(S) \in Seq(S) /\ Len(Sorted(S)) = Cardinality(S)
           /\ \A n \in S : \E i \in 1..Cardinality(S) : Sorted(S)[i] = n
           /\ \A i, j \in 1..Cardinality(S) : i < j => Sorted(S)[i] < Sorted(S)[j]
<1> DEFINE c == Cardinality(S)
           less == {pair \in S \X S : pair[1] < pair[2]}
<1>1. \A a, b \in S : <<a, b>> \in less <=> a < b
  OBVIOUS
<1>2. Sorted(S) = [i \in 1..c |-> Nth(S, less, i - 1)]
  BY DEF Sorted
<1> HIDE DEF less
<1>3. \A a \in S : <<a, a>> \notin less
  BY <1>1
<1>4. \A a, b, d \in S : <<a, b>> \in less /\ <<b, d>> \in less => <<a, d>> \in less
  BY <1>1
<1>5. \A a, b \in S : a = b \/ <<a, b>> \in less \/ <<b, a>> \in less
  <2>1. \A a, b \in S : a = b \/ a < b \/ b < a
    OBVIOUS
  <2>2. QED
    BY <1>1, <2>1
<1>6. /\ c \in Nat
      /\ \A p \in 0..(c - 1) : Nth(S, less, p) \in S
      /\ \A n \in S : \E p \in 0..(c - 1) : Nth(S, less, p) = n
      /\ \A p, q \in 0..(c - 1) : p < q => <<Nth(S, less, p), Nth(S, less, q)>> \in less
  BY <1>3, <1>4, <1>5, NthIs
<1> HIDE DEF c
<1>7. \A i \in 1..c : i - 1 \in 0..(c - 1)
  BY <1>6
<1>8. [i \in 1..c |-> Nth(S, less, i - 1)] \in [1..c -> S]
  BY <1>6, <1>7
<1>9. Sorted(S) \in Seq(S) /\ Len(Sorted(S)) = c
  BY <1>2, <1>6, <1>8
<1>10. ASSUME NEW n \in S PROVE \E i \in 1..c : Sorted(S)[i] = n
  <2>1. PICK p \in 0..(c - 1) : Nth(S, less, p) = n
    BY <1>6
  <2>2. p + 1 \in 1..c /\ (p + 1) - 1 = p
    BY <1>6
  <2>3. QED
    BY <1>2, <2>1, <2>2
<1>11. ASSUME NEW i \in 1..c, NEW j \in 1..c, i < j PROVE Sorted(S)[i] < Sorted(S)[j]
  <2>1. i - 1 \in 0..(c - 1) /\ j - 1 \in 0..(c - 1) /\ i - 1 < j - 1
    BY <1>6, <1>11
  <2>2. <<Nth(S, less, i - 1), Nth(S, less, j - 1)>> \in less
    BY <1>6, <2>1
  <2>3. Nth(S, less, i - 1) \in S /\ Nth(S, less, j - 1) \in S
    BY <1>6, <2>1
  <2>4. QED
    BY <1>1, <1>2, <2>2, <2>3
<1>12. QED
  BY <1>6, <1>9, <1>10, <1>11 DEF c

OptionsOf(k) == Len(Space[k])

LEMMA SpaceIs ==
    ASSUME SweepAssumption
    PROVE  /\ Len(Space) \in Nat /\ DOMAIN Space = 1..Len(Space)
           /\ \A k \in 1..Len(Space) :
                 /\ OptionsOf(k) \in Nat \ {0}
                 /\ \A i, j \in 1..OptionsOf(k) : Space[k][i] = Space[k][j] => i = j
<1>1. Space \in Seq({Space[k] : k \in DOMAIN Space})
  BY DEF SweepAssumption, SpaceAssumption
<1>2. Len(Space) \in Nat /\ DOMAIN Space = 1..Len(Space)
  BY <1>1
<1>3. ASSUME NEW k \in 1..Len(Space)
      PROVE  /\ OptionsOf(k) \in Nat \ {0}
             /\ \A i, j \in 1..OptionsOf(k) : Space[k][i] = Space[k][j] => i = j
  <2>1. /\ Space[k] \in Seq({Space[k][i] : i \in DOMAIN Space[k]}) /\ Space[k] # <<>>
        /\ \A i, j \in DOMAIN Space[k] : Space[k][i] = Space[k][j] => i = j
    BY <1>2, <1>3 DEF SweepAssumption, SpaceAssumption
  <2>2. Len(Space[k]) \in Nat \ {0} /\ DOMAIN Space[k] = 1..Len(Space[k])
    BY <2>1
  <2>3. QED
    BY <2>1, <2>2 DEF OptionsOf
<1>4. QED
  BY <1>2, <1>3

LEMMA ProductsAre ==
    ASSUME SweepAssumption
    PROVE  /\ \A k \in 0..Len(Space) : Products[k] \in Nat \ {0}
           /\ Products[0] = 1 /\ \A k \in 1..Len(Space) : Products[k] = Products[k - 1] * OptionsOf(k)
<1> DEFINE n == Len(Space)
           next == [i \in 1..n |-> [x \in Nat \ {0} |-> x * OptionsOf(i)]]
           Is(f) == f = [i \in 0..n |-> IF i = 0 THEN 1 ELSE f[i - 1] * OptionsOf(i)]
           made == CHOOSE f : Is(f)
<1>1. n \in Nat /\ \A k \in 1..n : OptionsOf(k) \in Nat \ {0}
  BY SpaceIs
<1>2. Products = made
  BY DEF Products, OptionsOf
<1>3. next \in [1..n -> [Nat \ {0} -> Nat \ {0}]]
  BY <1>1
<1>4. PICK f \in [0..n -> Nat \ {0}] : Climbing(f, 1, n, next)
  <2> HIDE DEF next, n
  <2>1. 1 \in Nat \ {0}
    OBVIOUS
  <2>2. QED
    BY <1>1, <1>3, <2>1, Recursion
<1>5. Is(f)
  <2>1. \A i \in 0..n : (IF i = 0 THEN 1 ELSE next[i][f[i - 1]]) = IF i = 0 THEN 1 ELSE f[i - 1] * OptionsOf(i)
    <3> SUFFICES ASSUME NEW i \in 0..n, i # 0 PROVE next[i][f[i - 1]] = f[i - 1] * OptionsOf(i)
      OBVIOUS
    <3>1. i \in 1..n /\ i - 1 \in 0..n
      BY <1>1
    <3>2. f[i - 1] \in Nat \ {0}
      BY <3>1
    <3>3. QED
      BY <3>1, <3>2
  <2> HIDE DEF next
  <2>2. QED
    BY <1>4, <2>1 DEF Climbing
<1>6. Is(made)
  BY <1>5
<1> HIDE DEF made, next
<1>7. made[0] = 1 /\ \A i \in 1..n : made[i] = made[i - 1] * OptionsOf(i)
  <2>1. \A i \in 0..n : made[i] = IF i = 0 THEN 1 ELSE made[i - 1] * OptionsOf(i)
    BY <1>6
  <2>2. 0 \in 0..n /\ \A i \in 1..n : i \in 0..n /\ i # 0
    BY <1>1
  <2>3. QED
    BY <2>1, <2>2
<1>8. \A i \in 0..n : made[i] \in Nat \ {0}
  <2> DEFINE G == {i \in 0..n : made[i] \in Nat \ {0}}
  <2>1. 0 \in G
    BY <1>1, <1>7
  <2>2. ASSUME NEW i \in 0..(n - 1), i \in G PROVE i + 1 \in G
    <3>1. i + 1 \in 1..n /\ (i + 1) - 1 = i /\ i + 1 \in 0..n
      BY <1>1
    <3>2. made[i + 1] = made[i] * OptionsOf(i + 1) /\ OptionsOf(i + 1) \in Nat \ {0} /\ made[i] \in Nat \ {0}
      BY <1>1, <1>7, <2>2, <3>1
    <3>3. made[i + 1] \in Nat \ {0}
      BY <3>2
    <3>4. QED
      BY <3>1, <3>3
  <2> HIDE DEF G
  <2>3. \A i \in 0..n : i \in G
    BY <1>1, <2>1, <2>2, Climb
  <2>4. QED
    BY <2>3 DEF G
<1>9. QED
  BY <1>2, <1>7, <1>8

\* divmod: a quotient and a rest make the number, and stay below a product.
LEMMA Divided ==
    ASSUME NEW a \in Nat, NEW l \in Nat \ {0}
    PROVE  /\ a \div l \in Nat /\ a % l \in 0..(l - 1) /\ a = l * (a \div l) + (a % l)
           /\ \A b \in Nat : a < b * l => a \div l < b
<1>1. a \div l \in Nat /\ a % l \in 0..(l - 1) /\ a = l * (a \div l) + (a % l)
  OBVIOUS
<1>2. ASSUME NEW b \in Nat, a < b * l, a \div l >= b PROVE FALSE
  <2>1. PICK q \in Nat, r \in Nat : a = l * q + r /\ q >= b
    BY <1>1, <1>2
  <2>2. PICK d \in Nat : q = b + d
    <3>1. q - b \in Nat /\ q = b + (q - b)
      BY <2>1
    <3>2. QED
      BY <3>1
  <2>3. l * q = b * l + l * d
    BY <2>2
  <2>4. l * d \in Nat /\ b * l \in Nat
    OBVIOUS
  <2>5. QED
    BY <1>2, <2>1, <2>3, <2>4
<1>3. QED
  <2>1. \A b \in Nat : a < b * l => ~(a \div l >= b)
    BY <1>2
  <2>2. QED
    BY <1>1, <2>1

LEMMA QuotientsAre ==
    ASSUME SweepAssumption, NEW index \in Nat
    PROVE  /\ \A k \in 0..Len(Space) : Quotients(index)[k] \in Nat
           /\ Quotients(index)[Len(Space)] = index
           /\ \A k \in 1..Len(Space) : Quotients(index)[k - 1] = Quotients(index)[k] \div OptionsOf(k)
<1> DEFINE n == Len(Space)
           next == [i \in 1..n |-> [x \in Nat |-> x \div OptionsOf(n - i + 1)]]
           Is(f) == f = [i \in 0..n |-> IF i = 0 THEN index ELSE f[i - 1] \div OptionsOf(n - i + 1)]
           made == CHOOSE f : Is(f)
<1>1. n \in Nat /\ \A k \in 1..n : OptionsOf(k) \in Nat \ {0}
  BY SpaceIs
<1>2. Quotients(index) = [k \in 0..n |-> made[n - k]]
  BY DEF Quotients, OptionsOf
<1>3. next \in [1..n -> [Nat -> Nat]]
  <2>1. ASSUME NEW i \in 1..n, NEW x \in Nat PROVE x \div OptionsOf(n - i + 1) \in Nat
    <3>1. n - i + 1 \in 1..n
      BY <1>1
    <3>2. OptionsOf(n - i + 1) \in Nat \ {0}
      BY <1>1, <3>1
    <3>3. QED
      BY <3>2, Divided
  <2>2. QED
    BY <2>1
<1>4. PICK f \in [0..n -> Nat] : Climbing(f, index, n, next)
  <2> HIDE DEF next, n
  <2>1. QED
    BY <1>1, <1>3, Recursion
<1>5. Is(f)
  <2>1. \A i \in 0..n : (IF i = 0 THEN index ELSE next[i][f[i - 1]])
                            = IF i = 0 THEN index ELSE f[i - 1] \div OptionsOf(n - i + 1)
    <3> SUFFICES ASSUME NEW i \in 0..n, i # 0 PROVE next[i][f[i - 1]] = f[i - 1] \div OptionsOf(n - i + 1)
      OBVIOUS
    <3>1. i \in 1..n /\ i - 1 \in 0..n
      BY <1>1
    <3>2. f[i - 1] \in Nat
      BY <3>1
    <3>3. QED
      BY <3>1, <3>2
  <2> HIDE DEF next
  <2>2. QED
    BY <1>4, <2>1 DEF Climbing
<1>6. Is(made)
  BY <1>5
<1> HIDE DEF made, next
<1>7. made[0] = index /\ \A i \in 1..n : made[i] = made[i - 1] \div OptionsOf(n - i + 1)
  <2>1. \A i \in 0..n : made[i] = IF i = 0 THEN index ELSE made[i - 1] \div OptionsOf(n - i + 1)
    BY <1>6
  <2>2. 0 \in 0..n /\ \A i \in 1..n : i \in 0..n /\ i # 0
    BY <1>1
  <2>3. QED
    BY <2>1, <2>2
<1>8. \A i \in 0..n : made[i] \in Nat
  <2> DEFINE G == {i \in 0..n : made[i] \in Nat}
  <2>1. 0 \in G
    BY <1>1, <1>7
  <2>2. ASSUME NEW i \in 0..(n - 1), i \in G PROVE i + 1 \in G
    <3>1. i + 1 \in 1..n /\ (i + 1) - 1 = i /\ i + 1 \in 0..n /\ n - (i + 1) + 1 \in 1..n
      BY <1>1
    <3>2. made[i + 1] = made[i] \div OptionsOf(n - (i + 1) + 1) /\ made[i] \in Nat
      BY <1>7, <2>2, <3>1
    <3>3. OptionsOf(n - (i + 1) + 1) \in Nat \ {0}
      BY <1>1, <3>1
    <3>4. made[i] \div OptionsOf(n - (i + 1) + 1) \in Nat
      BY <3>2, <3>3, Divided
    <3>6. made[i + 1] \in Nat
      BY <3>2, <3>4
    <3>5. QED
      BY <3>1, <3>6
  <2> HIDE DEF G
  <2>3. \A i \in 0..n : i \in G
    BY <1>1, <2>1, <2>2, Climb
  <2>4. QED
    BY <2>3 DEF G
<1>9. \A k \in 0..n : Quotients(index)[k] = made[n - k] /\ n - k \in 0..n
  BY <1>1, <1>2
<1>10. ASSUME NEW k \in 1..n
       PROVE  Quotients(index)[k - 1] = Quotients(index)[k] \div OptionsOf(k)
  <2>1. k \in 0..n /\ k - 1 \in 0..n /\ n - (k - 1) \in 1..n /\ (n - (k - 1)) - 1 = n - k
        /\ n - (n - (k - 1)) + 1 = k
    BY <1>1
  <2>2. made[n - (k - 1)] = made[n - k] \div OptionsOf(k)
    BY <1>7, <2>1
  <2>3. QED
    BY <1>9, <2>1, <2>2
<1>11. n \in 0..n /\ n - n = 0
  BY <1>1
<1>12. QED
  BY <1>7, <1>8, <1>9, <1>10, <1>11

\* An index below the product of all lengths leaves nothing after the last division.
LEMMA QuotientsFit ==
    ASSUME SweepAssumption, NEW index \in 0..(Total - 1)
    PROVE  index \in Nat /\ Quotients(index)[0] = 0
<1> DEFINE n == Len(Space)
           q == Quotients(index)
           G == {m \in 0..n : q[n - m] < Products[n - m]}
<1>1. n \in Nat /\ \A k \in 1..n : OptionsOf(k) \in Nat \ {0}
  BY SpaceIs
<1>2. /\ \A k \in 0..n : Products[k] \in Nat \ {0}
      /\ Products[0] = 1 /\ \A k \in 1..n : Products[k] = Products[k - 1] * OptionsOf(k)
  BY ProductsAre
<1>3. Total \in Nat \ {0} /\ Total = Products[n]
  BY <1>1, <1>2 DEF Total
<1>4. index \in Nat /\ index < Total
  BY <1>3
<1>5. /\ \A k \in 0..n : q[k] \in Nat
      /\ q[n] = index /\ \A k \in 1..n : q[k - 1] = q[k] \div OptionsOf(k)
  BY <1>4, QuotientsAre
<1> HIDE DEF q
<1>6. 0 \in G
  BY <1>1, <1>3, <1>4, <1>5
<1>7. ASSUME NEW m \in 0..(n - 1), m \in G PROVE m + 1 \in G
  <2>1. PICK k \in 1..n : k = n - m /\ k - 1 = n - (m + 1) /\ k \in 0..n /\ k - 1 \in 0..n /\ m + 1 \in 0..n
    <3>1. n - m \in 1..n /\ (n - m) - 1 = n - (m + 1) /\ n - m \in 0..n /\ (n - m) - 1 \in 0..n /\ m + 1 \in 0..n
      BY <1>1
    <3>2. QED
      BY <3>1
  <2>2. q[k] < Products[k - 1] * OptionsOf(k)
    BY <1>2, <1>7, <2>1
  <2>3. q[k] \div OptionsOf(k) < Products[k - 1]
    BY <1>1, <1>2, <1>5, <2>1, <2>2, Divided
  <2>4. q[k - 1] < Products[k - 1]
    BY <1>5, <2>3
  <2>5. QED
    BY <2>1, <2>4
<1> HIDE DEF G
<1>8. \A m \in 0..n : m \in G
  BY <1>1, <1>6, <1>7, Climb
<1>9. n \in G
  BY <1>1, <1>8
<1>10. n - n = 0 /\ 0 \in 0..n
  BY <1>1
<1>11. q[0] < 1
  BY <1>2, <1>9, <1>10 DEF G
<1>12. QED
  BY <1>4, <1>5, <1>10, <1>11 DEF q

\* No two indexes give the same combination.
LEMMA CombinationsDiffer ==
    ASSUME SweepAssumption, NEW a \in 0..(Total - 1), NEW b \in 0..(Total - 1),
           Combination(a) = Combination(b)
    PROVE  a = b
<1> DEFINE n == Len(Space)
           p == Quotients(a)
           q == Quotients(b)
           G == {k \in 0..n : p[k] = q[k]}
<1>1. /\ n \in Nat /\ DOMAIN Space = 1..n
      /\ \A k \in 1..n : /\ OptionsOf(k) \in Nat \ {0}
                         /\ \A i, j \in 1..OptionsOf(k) : Space[k][i] = Space[k][j] => i = j
  BY SpaceIs
<1>2. a \in Nat /\ b \in Nat /\ p[0] = 0 /\ q[0] = 0
  BY QuotientsFit
<1>3. /\ \A k \in 0..n : p[k] \in Nat
      /\ p[n] = a /\ \A k \in 1..n : p[k - 1] = p[k] \div OptionsOf(k)
  BY <1>2, QuotientsAre
<1>4. /\ \A k \in 0..n : q[k] \in Nat
      /\ q[n] = b /\ \A k \in 1..n : q[k - 1] = q[k] \div OptionsOf(k)
  BY <1>2, QuotientsAre
<1>5. /\ Combination(a) = [k \in 1..n |-> Space[k][(p[k] % OptionsOf(k)) + 1]]
      /\ Combination(b) = [k \in 1..n |-> Space[k][(q[k] % OptionsOf(k)) + 1]]
  BY <1>1 DEF Combination, OptionsOf
<1> HIDE DEF p, q
<1>6. 0 \in G
  BY <1>1, <1>2
<1>7. ASSUME NEW k \in 0..(n - 1), k \in G PROVE k + 1 \in G
  <2>1. PICK l \in 1..n : l = k + 1 /\ l - 1 = k /\ l \in 0..n /\ k \in 0..n
    BY <1>1
  <2>2. OptionsOf(l) \in Nat \ {0} /\ p[l] \in Nat /\ q[l] \in Nat /\ p[k] = q[k]
    BY <1>1, <1>3, <1>4, <1>7, <2>1
  <2>3. PICK c \in Nat \ {0} : c = OptionsOf(l)
    BY <2>2
  <2>4. /\ p[l] % c \in 0..(c - 1) /\ p[l] = c * (p[l] \div c) + (p[l] % c)
        /\ q[l] % c \in 0..(c - 1) /\ q[l] = c * (q[l] \div c) + (q[l] % c)
    BY <2>2, Divided
  <2>5. Space[l][(p[l] % c) + 1] = Space[l][(q[l] % c) + 1]
    BY <1>5, <2>3
  <2>6. (p[l] % c) + 1 \in 1..c /\ (q[l] % c) + 1 \in 1..c
    BY <2>4
  <2>7. (p[l] % c) + 1 = (q[l] % c) + 1
    BY <1>1, <2>3, <2>5, <2>6
  <2>8. p[l] % c = q[l] % c
    BY <2>4, <2>7
  <2>9. p[l] \div c = q[l] \div c
    BY <1>3, <1>4, <2>1, <2>2, <2>3
  <2>10. p[l] = q[l]
    BY <2>4, <2>8, <2>9
  <2>11. QED
    BY <2>1, <2>10
<1> HIDE DEF G
<1>8. \A k \in 0..n : k \in G
  BY <1>1, <1>6, <1>7, Climb
<1>9. n \in G
  BY <1>1, <1>8
<1>10. QED
  BY <1>3, <1>4, <1>9 DEF G

Combinations == {Combination(index) : index \in 0..(Total - 1)}

\* A grid has no combination twice.
LEMMA GridIs ==
    ASSUME SweepAssumption, NEW limit \in Limits
    PROVE  /\ Grid(limit) \in Seq(Combinations)
           /\ \A i, j \in 1..Len(Grid(limit)) : Grid(limit)[i] = Grid(limit)[j] => i = j
           /\ IsFiniteSet(RangeOf(Grid(limit)))
           /\ Cardinality(RangeOf(Grid(limit))) = Len(Grid(limit))
<1> DEFINE S == IF Total <= limit THEN 0..(Total - 1) ELSE Sampled(Total, limit)
           c == Cardinality(S)
           g == Grid(limit)
<1>1. Total \in Nat \ {0}
  <2>1. Len(Space) \in Nat /\ Len(Space) \in 0..Len(Space)
    BY SpaceIs
  <2>2. QED
    BY <2>1, ProductsAre DEF Total
<1>2. S \subseteq 0..(Total - 1)
  <2>1. limit \in Nat
    BY DEF SweepAssumption, BoundsAssumption
  <2>2. CASE Total <= limit
    BY <2>2
  <2>3. CASE ~(Total <= limit)
    <3>1. Total > limit
      BY <1>1, <2>1, <2>3
    <3>2. Sampled(Total, limit) \subseteq 0..(Total - 1)
      BY <3>1 DEF SweepAssumption, SpaceAssumption
    <3>3. QED
      BY <2>3, <3>2
  <2>4. QED
    BY <2>2, <2>3
<1>3. g = [i \in 1..c |-> Combination(Sorted(S)[i])]
  BY DEF Grid
<1> HIDE DEF S, g
<1>4. IsFiniteSet(S) /\ S \subseteq Int
  <2>1. 0 \in Int /\ Total - 1 \in Int
    BY <1>1
  <2>2. IsFiniteSet(0..(Total - 1))
    BY <2>1, FS_Interval
  <2>3. S \in SUBSET (0..(Total - 1))
    BY <1>2
  <2>4. IsFiniteSet(S)
    BY <2>2, <2>3, FS_Subset
  <2>5. QED
    BY <1>1, <1>2, <2>4
<1>5. /\ c \in Nat /\ Sorted(S) \in Seq(S) /\ Len(Sorted(S)) = c
      /\ \A i, j \in 1..c : i < j => Sorted(S)[i] < Sorted(S)[j]
  BY <1>4, AscendingIs
<1> HIDE DEF c
<1>6. \A i \in 1..c : Sorted(S)[i] \in S /\ Sorted(S)[i] \in 0..(Total - 1) /\ Sorted(S)[i] \in Int
  <2>1. DOMAIN Sorted(S) = 1..c
    BY <1>5
  <2>2. \A i \in 1..c : Sorted(S)[i] \in S
    BY <1>5, <2>1
  <2>3. QED
    BY <1>2, <1>4, <2>2
<1>7. g \in [1..c -> Combinations]
  BY <1>3, <1>6 DEF Combinations
<1>8. g \in Seq(Combinations) /\ Len(g) = c /\ DOMAIN g = 1..c
  BY <1>5, <1>7
<1>9. ASSUME NEW i \in 1..c, NEW j \in 1..c, g[i] = g[j] PROVE i = j
  <2>1. Sorted(S)[i] = Sorted(S)[j]
    BY <1>3, <1>6, <1>9, CombinationsDiffer
  <2>2. ~(i < j) /\ ~(j < i)
    BY <1>5, <1>6, <2>1
  <2>3. QED
    BY <1>5, <2>2
<1>10. IsFiniteSet(RangeOf(g)) /\ Cardinality(RangeOf(g)) = c
  <2>1. IsFiniteSet(1..c) /\ Cardinality(1..c) = c
    <3>1. 1 \in Int /\ c \in Int
      BY <1>5
    <3>2. IsFiniteSet(1..c) /\ Cardinality(1..c) = IF 1 > c THEN 0 ELSE c - 1 + 1
      BY <3>1, FS_Interval
    <3>3. QED
      BY <1>5, <3>2
  <2>2. RangeOf(g) = {g[i] : i \in 1..c}
    BY <1>8 DEF RangeOf
  <2>3. g \in [1..c -> RangeOf(g)]
    BY <1>7, <2>2
  <2>4. g \in Surjection(1..c, RangeOf(g))
    BY <2>2, <2>3 DEF Surjection
  <2>5. \A a, b \in DOMAIN g : g[a] = g[b] => a = b
    BY <1>8, <1>9
  <2>6. g \in Injection(1..c, RangeOf(g))
    BY <1>8, <1>9, <2>3, <2>5 DEF Injection, IsInjective
  <2>7. QED
    BY <2>1, <2>4, <2>6, FS_Surjection
<1>11. QED
  BY <1>8, <1>9, <1>10 DEF g

LEMMA SumIs ==
    ASSUME NEW s \in Seq(Int)
    PROVE  Sum(s) \in Int /\ (Len(s) = 0 => Sum(s) = 0)
<1>1. Sum(s) = TotalOf(s)
  BY DEF Sum, TotalOf
<1>2. QED
  BY <1>1, TotalType, TotalOfNone

\* The greatest of finitely many numbers.
LEMMA MaxIs ==
    ASSUME NEW n \in Nat, NEW f \in [0..n -> Int]
    PROVE  /\ Max({f[i] : i \in 0..n}) \in Int
           /\ \A i \in 0..n : f[i] <= Max({f[j] : j \in 0..n})
<1> DEFINE G == {m \in 0..n : \E k \in 0..m : \A i \in 0..m : f[i] <= f[k]}
           S == {f[i] : i \in 0..n}
<1>1. 0 \in G
  <2>1. 0 \in 0..n /\ 0 \in 0..0 /\ \A i \in 0..0 : i = 0
    OBVIOUS
  <2>2. f[0] \in Int
    BY <2>1
  <2>3. QED
    BY <2>1, <2>2
<1>2. ASSUME NEW m \in 0..(n - 1), m \in G PROVE m + 1 \in G
  <2>1. PICK k \in 0..m : \A i \in 0..m : f[i] <= f[k]
    BY <1>2
  <2>2. k \in 0..n /\ k \in 0..(m + 1) /\ m + 1 \in 0..n /\ m + 1 \in 0..(m + 1)
    OBVIOUS
  <2>3. \A i \in 0..(m + 1) : i \in 0..n /\ (i \in 0..m \/ i = m + 1)
    OBVIOUS
  <2>4. \A i \in 0..n : f[i] \in Int
    OBVIOUS
  <2>5. CASE f[k] <= f[m + 1]
    <3>1. \A i \in 0..(m + 1) : f[i] <= f[m + 1]
      BY <2>1, <2>2, <2>3, <2>4, <2>5
    <3>2. QED
      BY <2>2, <3>1
  <2>6. CASE ~(f[k] <= f[m + 1])
    <3>1. \A i \in 0..(m + 1) : f[i] <= f[k]
      BY <2>1, <2>2, <2>3, <2>4, <2>6
    <3>2. QED
      BY <2>2, <3>1
  <2>7. QED
    BY <2>5, <2>6
<1> HIDE DEF G
<1>3. \A m \in 0..n : m \in G
  BY <1>1, <1>2, Climb
<1>4. PICK k \in 0..n : \A i \in 0..n : f[i] <= f[k]
  BY <1>3, n \in 0..n DEF G
<1>5. \E x \in S : \A y \in S : x >= y
  <2>1. \A y \in S : f[k] >= y /\ f[k] \in S
    BY <1>4
  <2>2. QED
    BY <2>1, <1>4
<1>6. Max(S) \in S /\ \A y \in S : Max(S) >= y
  BY <1>5 DEF Max
<1>7. QED
  BY <1>6

LEMMA DrawdownType == ASSUME NEW pnls \in Seq(Int), Balance \in Nat \ {0} PROVE Drawdown(pnls) \in Int
<1> DEFINE n == Len(pnls)
           equity(i) == Balance + Sum(SubSeq(pnls, 1, i))
           peak(i) == Max({equity(k) : k \in 0..i})
           d == [i \in 0..n |-> (100000 * (peak(i) - equity(i))) \div peak(i)]
<1>1. n \in Nat
  OBVIOUS
<1>2. ASSUME NEW i \in 0..n PROVE equity(i) \in Int
  <2>1. SubSeq(pnls, 1, i) \in Seq(Int)
    BY FirstIs
  <2>2. Sum(SubSeq(pnls, 1, i)) \in Int
    BY <2>1, SumIs
  <2> HIDE DEF n
  <2>3. QED
    BY <2>2
<1>3. equity(0) = Balance
  <2>1. 0 \in 0..n
    BY <1>1
  <2>2. SubSeq(pnls, 1, 0) \in Seq(Int) /\ Len(SubSeq(pnls, 1, 0)) = 0
    BY <2>1, FirstIs
  <2>3. Sum(SubSeq(pnls, 1, 0)) = 0
    BY <2>2, SumIs
  <2>4. QED
    BY <2>3
<1>4. ASSUME NEW i \in 0..n PROVE peak(i) \in Nat \ {0}
  <2> DEFINE f == [k \in 0..i |-> equity(k)]
  <2>1. i \in Nat /\ \A k \in 0..i : k \in 0..n
    BY <1>1
  <2>2. f \in [0..i -> Int]
    BY <1>2, <2>1
  <2>3. peak(i) = Max({f[k] : k \in 0..i})
    <3>1. {f[k] : k \in 0..i} = {equity(k) : k \in 0..i}
      OBVIOUS
    <3>2. QED
      BY <3>1
  <2>4. f[0] = Balance /\ 0 \in 0..i
    BY <1>3, <2>1
  <2> HIDE DEF f, peak, equity
  <2>5. Max({f[k] : k \in 0..i}) \in Int /\ f[0] <= Max({f[k] : k \in 0..i})
    BY <2>1, <2>2, <2>4, MaxIs
  <2>6. QED
    BY <2>3, <2>4, <2>5
<1>5. d \in [0..n -> Int]
  <2> SUFFICES ASSUME NEW i \in 0..n PROVE (100000 * (peak(i) - equity(i))) \div peak(i) \in Int
    OBVIOUS
  <2>1. PICK x \in Int : x = 100000 * (peak(i) - equity(i))
    <3> HIDE DEF peak, equity
    <3>1. QED
      BY <1>2, <1>4
  <2>2. PICK y \in Nat \ {0} : y = peak(i)
    BY <1>4
  <2> HIDE DEF peak, equity
  <2>3. x \div y \in Int
    OBVIOUS
  <2>4. QED
    BY <2>1, <2>2, <2>3
<1>6. {d[i] : i \in 0..n} = {(100000 * (peak(i) - equity(i))) \div peak(i) : i \in 0..n}
  OBVIOUS
<1>7. Drawdown(pnls) = Max({d[i] : i \in 0..n})
  <2>1. Drawdown(pnls) = Max({(100000 * (peak(i) - equity(i))) \div peak(i) : i \in 0..n})
    BY DEF Drawdown
  <2> DEFINE x == {d[i] : i \in 0..n}
             y == {(100000 * (peak(i) - equity(i))) \div peak(i) : i \in 0..n}
  <2>2. x = y /\ Drawdown(pnls) = Max(y)
    BY <1>6, <2>1
  <2> HIDE DEF x, y
  <2>3. Drawdown(pnls) = Max(x)
    BY <2>2
  <2>4. QED
    BY <2>3 DEF x
<1> HIDE DEF d
<1>8. QED
  BY <1>1, <1>5, <1>7, MaxIs

\* Every result has a score, and with too few trades it says how many they were.
LEMMA ScoreIs ==
    ASSUME NEW pnls \in Seq(Int), Balance \in Nat \ {0}, NEW minTrades \in Nat
    PROVE  LET m == Metrics(pnls) IN
           /\ m.total_trades = Len(pnls) /\ m.total_trades \in Nat
           /\ ObjectiveScore(m, minTrades) \in Int
           /\ m.total_trades < minTrades => ObjectiveScore(m, minTrades) = (-9999000) + 1000 * m.total_trades
<1> DEFINE m == Metrics(pnls)
           wons == [i \in DOMAIN pnls |-> IF pnls[i] > 0 THEN pnls[i] ELSE 0]
           losts == [i \in DOMAIN pnls |-> IF pnls[i] < 0 THEN 0 - pnls[i] ELSE 0]
           won == Sum(wons)
           lost == Sum(losts)
<1>1. Len(pnls) \in Nat /\ DOMAIN pnls = 1..Len(pnls) /\ \A i \in 1..Len(pnls) : pnls[i] \in Int
  OBVIOUS
<1>2. wons \in Seq(Int) /\ losts \in Seq(Int)
  <2>1. wons \in [1..Len(pnls) -> Int]
    BY <1>1
  <2>2. losts \in [1..Len(pnls) -> Int]
    BY <1>1
  <2>3. QED
    BY <1>1, <2>1, <2>2
<1> HIDE DEF wons, losts
<1>3. won \in Int /\ lost \in Int /\ Sum(pnls) \in Int
  BY <1>2, SumIs
<1>4. /\ m.total_trades = Len(pnls)
      /\ m.profit_factor = IF lost > 0 THEN (1000 * won) \div lost ELSE 1000 * won
      /\ m.expectancy = IF pnls = <<>> THEN 0 ELSE (1000 * Sum(pnls)) \div Len(pnls)
      /\ m.return_pct = (100000 * Sum(pnls)) \div Balance
      /\ m.max_drawdown = Drawdown(pnls)
  BY DEF Metrics, wons, losts
<1> HIDE DEF m, won, lost
<1>5. \A x \in Int, y \in Nat \ {0} : x \div y \in Int
  OBVIOUS
<1>6. m.profit_factor \in Int
  <2>1. CASE lost > 0
    BY <1>3, <1>4, <1>5, <2>1
  <2>2. CASE ~(lost > 0)
    BY <1>3, <1>4, <2>2
  <2>3. QED
    BY <2>1, <2>2
<1>7. m.expectancy \in Int
  <2>1. CASE pnls = <<>>
    BY <1>4, <2>1
  <2>2. CASE pnls # <<>>
    <3>1. Len(pnls) \in Nat \ {0} /\ 1000 * Sum(pnls) \in Int
      BY <1>3, <2>2
    <3>2. QED
      BY <1>4, <1>5, <2>2, <3>1
  <2>3. QED
    BY <2>1, <2>2
<1>8. m.return_pct \in Int /\ m.max_drawdown \in Int
  <2>1. 100000 * Sum(pnls) \in Int
    BY <1>3
  <2>2. QED
    BY <1>4, <1>5, <2>1, DrawdownType
<1>9. OverfitPenalty(m.total_trades) \in Int
  BY <1>1, <1>4 DEF OverfitPenalty
<1>10. LowTradeCountPenalty(m.total_trades, minTrades) \in Int
  <2>1. Max({minTrades, 1}) \in Nat \ {0}
    BY MaxOfTwo
  <2>2. 1000 * (2 * minTrades - m.total_trades) \in Int
    BY <1>1, <1>4
  <2>3. (1000 * (2 * minTrades - m.total_trades)) \div Max({minTrades, 1}) \in Int
    BY <1>5, <2>1, <2>2
  <2>4. QED
    BY <2>3 DEF LowTradeCountPenalty
<1>11. PICK x \in Int : x = 35 * m.profit_factor + 30 * m.expectancy + 15 * m.return_pct - 30 * m.max_drawdown
  <2>1. \A p, e, r, d \in Int : 35 * p + 30 * e + 15 * r - 30 * d \in Int
    OBVIOUS
  <2>2. QED
    BY <1>6, <1>7, <1>8, <2>1
<1>12. ObjectiveScore(m, minTrades) = IF m.total_trades < minTrades THEN (-9999000) + (1000 * m.total_trades)
          ELSE x \div 100 - OverfitPenalty(m.total_trades) - LowTradeCountPenalty(m.total_trades, minTrades)
  BY <1>11 DEF ObjectiveScore
<1>13. x \div 100 \in Int
  OBVIOUS
<1>14. ObjectiveScore(m, minTrades) \in Int
  BY <1>1, <1>4, <1>9, <1>10, <1>12, <1>13
<1>15. QED
  BY <1>1, <1>4, <1>12, <1>14 DEF m

IsCandles(c) == c \in [DOMAIN c -> Contents] /\ DOMAIN c \subseteq 0..SweepEnd
From(c, start) == {t \in DOMAIN c : t >= start}

\* Where a window starts says what is in it.
LEMMA WindowIs ==
    ASSUME BoundsAssumption, NEW c, IsCandles(c), DOMAIN c # {}, NEW days \in Nat
    PROVE  /\ Window(c, days) \in Seq(DOMAIN c) /\ Len(Window(c, days)) \in 1..(SweepEnd + 1)
           /\ Window(c, days) = Sorted(From(c, Window(c, days)[1]))
<1> DEFINE D == DOMAIN c
           since == Max(D) - days
           S == {t \in D : t >= since}
           w == Window(c, days)
<1>1. SweepEnd \in Nat /\ D \subseteq 0..SweepEnd /\ D # {}
  BY DEF BoundsAssumption, IsCandles
<1>2. Max(D) \in D
  <2>1. D \in SUBSET Nat /\ \A t \in D : t <= SweepEnd
    BY <1>1
  <2> HIDE DEF D
  <2>2. QED
    BY <1>1, <2>1, GreatestExists
<1>3. w = Sorted(S)
  BY DEF Window
<1> HIDE DEF D, w
<1>4. S # {} /\ S \subseteq 0..SweepEnd /\ S \subseteq D /\ since \in Int
  <2>1. PICK m \in D : m = Max(D)
    BY <1>2
  <2>2. m \in Nat
    BY <1>1
  <2>3. since = m - days /\ since \in Int /\ m >= since
    BY <2>1, <2>2
  <2> HIDE DEF since
  <2>4. m \in S /\ \A t \in S : t \in D
    BY <2>3
  <2>5. QED
    BY <1>1, <2>3, <2>4
<1> HIDE DEF since
<1>5. IsFiniteSet(S) /\ Cardinality(S) \in Nat /\ Cardinality(S) <= SweepEnd + 1
  <2>1. 0 \in Int /\ SweepEnd \in Int /\ ~(0 > SweepEnd)
    BY <1>1
  <2>2. IsFiniteSet(0..SweepEnd) /\ Cardinality(0..SweepEnd) = SweepEnd - 0 + 1
    BY <2>1, FS_Interval
  <2>3. S \in SUBSET (0..SweepEnd)
    BY <1>4
  <2>4. IsFiniteSet(S) /\ Cardinality(S) <= Cardinality(0..SweepEnd)
    BY <2>2, <2>3, FS_Subset
  <2>5. Cardinality(S) \in Nat
    BY <2>4, FS_CardinalityType
  <2>6. QED
    BY <1>1, <2>2, <2>4, <2>5
<1>6. /\ w \in Seq(S) /\ Len(w) = Cardinality(S)
      /\ \A n \in S : \E i \in 1..Cardinality(S) : w[i] = n
      /\ \A i, j \in 1..Cardinality(S) : i < j => w[i] < w[j]
  <2>1. S \subseteq Int
    BY <1>4
  <2> HIDE DEF S
  <2>2. QED
    BY <1>3, <1>5, <2>1, AscendingIs
<1>7. Cardinality(S) # 0
  <2>1. PICK n \in S : TRUE
    BY <1>4
  <2>2. PICK i \in 1..Cardinality(S) : w[i] = n
    BY <1>6, <2>1
  <2>3. QED
    BY <1>5, <2>2
<1>8. 1 \in 1..Cardinality(S) /\ \A i \in 1..Cardinality(S) : i = 1 \/ 1 < i
  BY <1>5, <1>7
<1>9. w[1] \in S /\ w[1] \in Int /\ w[1] >= since
  <2>1. DOMAIN w = 1..Cardinality(S)
    BY <1>6
  <2>2. w[1] \in S
    BY <1>6, <1>8, <2>1
  <2>3. QED
    BY <1>4, <2>2
<1>10. \A n \in S : n >= w[1]
  <2> SUFFICES ASSUME NEW n \in S PROVE n >= w[1]
    OBVIOUS
  <2>1. PICK i \in 1..Cardinality(S) : w[i] = n
    BY <1>6
  <2>2. n \in Int
    BY <1>4
  <2>3. QED
    BY <1>6, <1>8, <1>9, <2>1, <2>2
<1>11. {t \in D : t >= w[1]} = S
  <2>1. \A t \in D : t \in Int
    BY <1>1
  <2>2. \A t \in D : t >= w[1] => t >= since
    BY <1>4, <1>9, <2>1
  <2>3. QED
    BY <1>4, <1>10, <2>2
<1>12. w \in Seq(D)
  BY <1>4, <1>6
<1>13. Len(w) \in 1..(SweepEnd + 1)
  BY <1>1, <1>5, <1>6, <1>7
<1>14. QED
  BY <1>3, <1>11, <1>12, <1>13 DEF w, D, From

\* Whether a result had enough trades can be told from its score.
Scored(x, least) ==
    /\ x.objective \in Int /\ least \in Nat
    /\ x.train.total_trades >= least => x.objective > (-9999000) + 1000 * least
    /\ ~(x.train.total_trades >= least) => x.objective < (-9999000) + 1000 * least
IsWorld(world) == world.records \in Records /\ world.tuning \in Tunings

\* So does an evaluation of some candles, whose score tells the two kinds apart.
LEMMA EvaluatedIs ==
    ASSUME SweepAssumption, NEW params \in Combinations, NEW n \in 1..(SweepEnd + 1),
           NEW all \in [1..n -> Contents], NEW split \in 1..n, NEW world, IsWorld(world)
    PROVE  Scored(EvaluationOn(params, all, split, world), world.tuning.minTrades)
<1> DEFINE first == SubSeq(all, 1, split)
           seen == world.records
           set == world.tuning
           least == set.minTrades
           train == Metrics(Backtested(params, first, seen, set))
           x == EvaluationOn(params, all, split, world)
<1>1. SweepEnd \in Nat /\ Balance \in Nat \ {0} /\ least \in Nat
  BY DEF SweepAssumption, BoundsAssumption, IsWorld
<1>2. all \in Seq(Contents) /\ Len(all) = n /\ n \in Nat
  BY <1>1
<1>3. first \in Histories
  <2>1. first \in Seq(Contents) /\ Len(first) = split
    <3>1. split \in 0..Len(all)
      BY <1>1, <1>2
    <3>2. QED
      BY <1>2, <3>1, FirstIs
  <2>2. first \in [1..split -> Contents] /\ split \in 0..(SweepEnd + 1)
    <3> HIDE DEF first
    <3>1. QED
      BY <1>1, <2>1
  <2> HIDE DEF first
  <2>3. QED
    BY <2>2 DEF Histories
<1> HIDE DEF first
<1>4. PICK index \in 0..(Total - 1) : params = Combination(index)
  BY DEF Combinations
<1>5a. seen \in Records /\ set \in Tunings
  BY DEF IsWorld
<1>5. PICK pnls \in Seq(Int) :
         /\ pnls = Backtested(params, first, seen, set)
         /\ Len(pnls) >= least => ObjectiveScore(Metrics(pnls), least) > (-9999000) + 1000 * least
  BY <1>3, <1>4, <1>5a DEF SweepAssumption, ScoresAssumption
<1>6. /\ train.total_trades = Len(pnls) /\ train.total_trades \in Nat
      /\ ObjectiveScore(train, least) \in Int
      /\ train.total_trades < least => ObjectiveScore(train, least) = (-9999000) + 1000 * train.total_trades
  BY <1>1, <1>5, ScoreIs
<1>7. x.objective = ObjectiveScore(train, least) /\ x.train = train
  BY DEF EvaluationOn, Evaluated, first
<1> HIDE DEF x
<1>8. Len(pnls) >= least => ObjectiveScore(train, least) > (-9999000) + 1000 * least
  BY <1>5
<1> HIDE DEF train
<1>9. ~(train.total_trades >= least) => ObjectiveScore(train, least) < (-9999000) + 1000 * least
  BY <1>1, <1>6
<1>10. QED
  BY <1>1, <1>6, <1>7, <1>8, <1>9 DEF Scored, x

LEMMA EvaluationIs ==
    ASSUME SweepAssumption, NEW params \in Combinations, NEW c, IsCandles(c), NEW w \in Seq(DOMAIN c),
           Len(w) \in 1..(SweepEnd + 1), NEW world, IsWorld(world)
    PROVE  SplitAt(w) \in 1..Len(w) /\ Scored(EvaluationOf(params, c, w, world), world.tuning.minTrades)
<1> DEFINE n == Len(w)
           all == [i \in DOMAIN w |-> c[w[i]]]
<1>1. SweepEnd \in Nat
  BY DEF SweepAssumption, BoundsAssumption
<1>2. all \in [1..n -> Contents]
  <2>1. DOMAIN w = 1..n /\ \A i \in 1..n : w[i] \in DOMAIN c
    OBVIOUS
  <2>2. QED
    BY <2>1 DEF IsCandles
<1>3. SplitAt(w) \in 1..n
  <2>1. n \in Nat /\ n >= 1
    BY <1>1
  <2> HIDE DEF n
  <2>2. (7 * n) \div 10 \in Int /\ (7 * n) \div 10 <= n
    BY <2>1
  <2>3. Max({1, (7 * n) \div 10}) = IF 1 >= (7 * n) \div 10 THEN 1 ELSE (7 * n) \div 10
    BY <2>2, MaxOfTwo
  <2>4. SplitAt(w) = Max({1, (7 * n) \div 10})
    BY DEF SplitAt, n
  <2>5. QED
    BY <2>1, <2>2, <2>3, <2>4
<1>4. n \in 1..(SweepEnd + 1)
  OBVIOUS
<1> HIDE DEF n, all
<1>5. Scored(EvaluationOn(params, all, SplitAt(w), world), world.tuning.minTrades)
  BY <1>2, <1>3, <1>4, EvaluatedIs
<1>6. QED
  BY <1>3, <1>5 DEF EvaluationOf, all, n

\* Ranking leaves what is there and puts the best first.
LEMMA RankedIs ==
    ASSUME NEW T, NEW rows \in Seq(T), \A i \in 1..Len(rows) : rows[i].objective \in Int
    PROVE  /\ Ranked(rows) \in Seq(T) /\ Len(Ranked(rows)) = Len(rows)
           /\ RangeOf(Ranked(rows)) = RangeOf(rows)
           /\ \A i, j \in 1..Len(rows) : i < j => Ranked(rows)[i].objective >= Ranked(rows)[j].objective
<1> DEFINE n == Len(rows)
           S == 1..n
           o(i) == rows[i].objective
           R == {pair \in S \X S : \/ o(pair[1]) > o(pair[2])
                                   \/ o(pair[1]) = o(pair[2]) /\ pair[1] < pair[2]}
           r == Ranked(rows)
<1>1. n \in Nat /\ DOMAIN rows = S /\ \A i \in S : rows[i] \in T
  OBVIOUS
<1>2. r = [i \in S |-> rows[Nth(S, R, i - 1)]]
  BY <1>1 DEF Ranked
<1>3. \A a, b \in S : <<a, b>> \in R <=> (o(a) > o(b) \/ (o(a) = o(b) /\ a < b))
  OBVIOUS
<1>4. \A a \in S : o(a) \in Int /\ a \in Int
  OBVIOUS
<1>5. IsFiniteSet(S) /\ Cardinality(S) = n
  <2>1. 1 \in Int /\ n \in Int
    BY <1>1
  <2>2. IsFiniteSet(1..n) /\ Cardinality(1..n) = IF 1 > n THEN 0 ELSE n - 1 + 1
    BY <2>1, FS_Interval
  <2>3. QED
    BY <1>1, <2>2
<1> HIDE DEF S, R, o, r, n
<1>6. \A a \in S : <<a, a>> \notin R
  BY <1>3, <1>4
<1>7. \A a, b, c \in S : <<a, b>> \in R /\ <<b, c>> \in R => <<a, c>> \in R
  <2> SUFFICES ASSUME NEW a \in S, NEW b \in S, NEW c \in S, <<a, b>> \in R, <<b, c>> \in R
               PROVE  <<a, c>> \in R
    OBVIOUS
  <2>1. o(a) > o(b) \/ (o(a) = o(b) /\ a < b)
    BY <1>3
  <2>2. o(b) > o(c) \/ (o(b) = o(c) /\ b < c)
    BY <1>3
  <2>3. o(a) > o(c) \/ (o(a) = o(c) /\ a < c)
    BY <1>4, <2>1, <2>2
  <2>4. QED
    BY <1>3, <2>3
<1>8. \A a, b \in S : a = b \/ <<a, b>> \in R \/ <<b, a>> \in R
  <2> SUFFICES ASSUME NEW a \in S, NEW b \in S, a # b PROVE <<a, b>> \in R \/ <<b, a>> \in R
    OBVIOUS
  <2>1. o(a) > o(b) \/ o(b) > o(a) \/ (o(a) = o(b) /\ (a < b \/ b < a))
    BY <1>4
  <2>2. QED
    BY <1>3, <2>1
<1>9. /\ \A p \in 0..(n - 1) : Nth(S, R, p) \in S
      /\ \A m \in S : \E p \in 0..(n - 1) : Nth(S, R, p) = m
      /\ \A p, q \in 0..(n - 1) : p < q => <<Nth(S, R, p), Nth(S, R, q)>> \in R
  BY <1>5, <1>6, <1>7, <1>8, NthIs
<1>10. \A i \in S : i - 1 \in 0..(n - 1) /\ i \in Int
  BY <1>1 DEF S
<1>11. \A p \in 0..(n - 1) : p + 1 \in S /\ (p + 1) - 1 = p
  BY <1>1 DEF S
<1>12. \A i \in S : r[i] = rows[Nth(S, R, i - 1)] /\ Nth(S, R, i - 1) \in S /\ r[i] \in T
  BY <1>1, <1>2, <1>9, <1>10
<1>13. DOMAIN r = S
  BY <1>2
<1>14. r \in Seq(T) /\ Len(r) = n
  <2>1. r \in [S -> T]
    BY <1>2, <1>12, <1>13
  <2>2. QED
    BY <1>1, <2>1 DEF S
<1>15. RangeOf(r) = RangeOf(rows)
  <2>1. \A i \in S : \E j \in S : r[i] = rows[j]
    BY <1>12
  <2>2. \A j \in S : \E i \in S : r[i] = rows[j]
    BY <1>9, <1>11, <1>12
  <2>3. QED
    BY <1>1, <1>13, <2>1, <2>2 DEF RangeOf
<1>16. ASSUME NEW i \in S, NEW j \in S, i < j PROVE r[i].objective >= r[j].objective
  <2>1. <<Nth(S, R, i - 1), Nth(S, R, j - 1)>> \in R
    BY <1>9, <1>10, <1>16
  <2>2. o(Nth(S, R, i - 1)) >= o(Nth(S, R, j - 1))
    BY <1>3, <1>4, <1>12, <2>1
  <2>3. QED
    BY <1>12, <2>2 DEF o
<1>17. QED
  BY <1>14, <1>15, <1>16 DEF r, S, n

\* A stored row: what the backtest gives on the candles and in the world it was computed in,
\* cut where its key says.
Judged(row) == Scored(row, row.world.tuning.minTrades)
SoundRow(k, row) ==
    /\ Judged(row)
    /\ Same(row, EvaluationOf(k.params, row.of, Sorted(From(row.of, k.start)), row.world))
CacheSound(c) ==
    \A k \in DOMAIN c : k.timeframe \in Timeframes /\ k.split_at >= 1 /\ SoundRow(k, c[k])

RowSound(r, days) ==
    /\ Judged(r) /\ r.timeframe \in Timeframes
    /\ r.of = r.on /\ r.world = r.today => Same(r, Evaluation(r.params, r.on, days, r.today))
TimeframesOf(rows) == {r.timeframe : r \in RangeOf(rows)}
ParamsOf(rows, f) == {q.params : q \in {x \in RangeOf(rows) : x.timeframe = f}}
Complete(rows, days, limit) ==
    /\ rows \in Seq(RangeOf(rows))
    /\ \A r \in RangeOf(rows) : RowSound(r, days) /\ ParamsOf(rows, r.timeframe) = RangeOf(Grid(limit))
    /\ Len(rows) = Cardinality(TimeframesOf(rows)) * Cardinality(RangeOf(Grid(limit)))

SweepSound ==
    /\ sweep.phase = "loaded"
    /\ sweep.timeframes \in Seq(Timeframes) /\ Len(sweep.timeframes) >= 1
    /\ \A i, j \in 1..Len(sweep.timeframes) :
          sweep.timeframes[i] = sweep.timeframes[j] => i = j
    /\ sweep.days \in Days /\ sweep.limit \in Limits
    /\ IsCandles(sweep.candles) /\ IsWorld(Today)
    /\ CacheSound(sweep.known)
    /\ Complete(sweep.pooled, sweep.days, sweep.limit)
    /\ TimeframesOf(sweep.pooled) \cap RangeOf(sweep.timeframes) = {}
DoneSound ==
    /\ done.days \in Days /\ done.limit \in Limits
    /\ Complete(done.ranking, done.days, done.limit)
    /\ \A i, j \in 1..Len(done.ranking) :
          i < j => done.ranking[i].objective >= done.ranking[j].objective
\* Inductive: what is cached, what a sweep has read and pooled, and what the last one gave.
SweepInv ==
    /\ SweepTypeOK
    /\ DOMAIN historical = Timeframes /\ \A f \in Timeframes : IsCandles(historical[f])
    /\ CacheSound(cache)
    /\ sweep # NoSweep => SweepSound
    /\ done.finished => DoneSound

LEMMA InRange ==
    ASSUME NEW T, NEW s \in Seq(T)
    PROVE  /\ \A r \in RangeOf(s) : r \in T /\ \E i \in 1..Len(s) : r = s[i]
           /\ \A i \in 1..Len(s) : s[i] \in RangeOf(s)
           /\ s \in Seq(RangeOf(s))
<1>1. DOMAIN s = 1..Len(s) /\ Len(s) \in Nat /\ \A i \in 1..Len(s) : s[i] \in T
  OBVIOUS
<1>2. \A r : r \in RangeOf(s) <=> \E i \in 1..Len(s) : r = s[i]
  BY <1>1 DEF RangeOf
<1>3. PICK n \in Nat : n = Len(s)
  BY <1>1
<1>4. s \in [1..n -> RangeOf(s)]
  <2>1. \A i \in 1..n : s[i] \in RangeOf(s)
    BY <1>2, <1>3
  <2>2. s = [i \in 1..n |-> s[i]]
    BY <1>1, <1>3
  <2>3. QED
    BY <2>1, <2>2
<1>5. s \in Seq(RangeOf(s))
  BY <1>4
<1>6. \A r \in RangeOf(s) : r \in T /\ \E i \in 1..Len(s) : r = s[i]
  BY <1>1, <1>2
<1>7. \A i \in 1..Len(s) : s[i] \in RangeOf(s)
  BY <1>2
<1>8. QED
  BY <1>5, <1>6, <1>7

\* q has the rows of a grid in any order, evaluated for a timeframe that is not in p.
Adds(T, p, rows, q, f, days, limit) ==
    /\ limit \in Limits /\ Complete(p, days, limit) /\ f \notin TimeframesOf(p)
    /\ rows \in Seq(T) /\ Len(rows) = Len(Grid(limit))
    /\ \A i \in 1..Len(rows) :
          rows[i].params = Grid(limit)[i] /\ rows[i].timeframe = f /\ RowSound(rows[i], days)
    /\ q \in Seq(T) /\ RangeOf(q) = RangeOf(rows) /\ Len(q) = Len(rows)

\* Results that are complete stay so with the rows of one more timeframe.
LEMMA CompletedBy ==
    ASSUME SweepAssumption, NEW T, NEW p, NEW rows, NEW q, NEW f, NEW days, NEW limit,
           Adds(T, p, rows, q, f, days, limit)
    PROVE  Complete(p \o q, days, limit) /\ TimeframesOf(p \o q) \subseteq TimeframesOf(p) \cup {f}
<1> DEFINE G == RangeOf(Grid(limit))
           n == Len(Grid(limit))
           all == p \o q
<1>0. /\ limit \in Limits /\ Complete(p, days, limit) /\ f \notin TimeframesOf(p)
      /\ rows \in Seq(T) /\ Len(rows) = Len(Grid(limit))
      /\ \A i \in 1..Len(rows) :
            rows[i].params = Grid(limit)[i] /\ rows[i].timeframe = f /\ RowSound(rows[i], days)
      /\ q \in Seq(T) /\ RangeOf(q) = RangeOf(rows) /\ Len(q) = Len(rows)
  BY DEF Adds
<1>1. /\ n \in Nat /\ DOMAIN Grid(limit) = 1..n /\ Cardinality(G) = n
      /\ \A i \in 1..n : Grid(limit)[i] \in G
      /\ \A x \in G : \E i \in 1..n : x = Grid(limit)[i]
  <2>1. Grid(limit) \in Seq(Combinations) /\ Cardinality(G) = n
    BY <1>0, GridIs
  <2>2. QED
    BY <2>1, InRange
<1>2. /\ p \in Seq(RangeOf(p)) /\ Len(p) \in Nat
      /\ \A r \in RangeOf(p) : RowSound(r, days) /\ ParamsOf(p, r.timeframe) = G
      /\ Len(p) = Cardinality(TimeframesOf(p)) * n
  <2>1. /\ p \in Seq(RangeOf(p))
        /\ \A r \in RangeOf(p) : RowSound(r, days) /\ ParamsOf(p, r.timeframe) = G
        /\ Len(p) = Cardinality(TimeframesOf(p)) * Cardinality(G)
    BY <1>0 DEF Complete
  <2>2. Len(p) \in Nat
    BY <2>1
  <2> HIDE DEF G, n
  <2>3. QED
    BY <1>1, <2>1, <2>2
<1>3. /\ Len(rows) = n /\ Len(q) = n
      /\ \A r \in RangeOf(rows) : \E i \in 1..n : r = rows[i]
      /\ \A i \in 1..n : rows[i] \in RangeOf(rows)
  <2>1. Len(rows) = n /\ Len(q) = n
    BY <1>0
  <2> HIDE DEF n
  <2>2. QED
    BY <1>0, <2>1, InRange
<1>4. \A r \in RangeOf(q) : r.timeframe = f /\ RowSound(r, days) /\ r.params \in G
  <2> SUFFICES ASSUME NEW r \in RangeOf(rows)
               PROVE  r.timeframe = f /\ RowSound(r, days) /\ r.params \in G
    BY <1>0
  <2>1. PICK i \in 1..n : r = rows[i]
    BY <1>3
  <2> HIDE DEF G, n
  <2>2. QED
    BY <1>0, <1>1, <1>3, <2>1
<1>5. \A g \in G : \E r \in RangeOf(q) : r.params = g
  <2> SUFFICES ASSUME NEW g \in G PROVE \E r \in RangeOf(rows) : r.params = g
    BY <1>0
  <2>1. PICK i \in 1..n : g = Grid(limit)[i]
    BY <1>1
  <2>2. rows[i] \in RangeOf(rows) /\ rows[i].params = g
    BY <1>0, <1>3, <2>1
  <2>3. QED
    BY <2>2
<1> HIDE DEF G, n
<1>6. /\ q \in Seq(RangeOf(q)) /\ \A r \in RangeOf(q) : \E i \in 1..n : r = q[i]
      /\ \A i \in 1..n : q[i] \in RangeOf(q)
  BY <1>0, <1>3, InRange
<1>7. \A r \in RangeOf(p) : \E i \in 1..Len(p) : r = p[i]
  BY <1>2, InRange
<1>8. /\ all \in Seq(RangeOf(p) \cup RangeOf(q)) /\ Len(all) = Len(p) + n
      /\ \A i \in 1..Len(p) : all[i] = p[i]
      /\ \A i \in 1..n : all[Len(p) + i] = q[i]
  <2>1. p \in Seq(RangeOf(p) \cup RangeOf(q)) /\ q \in Seq(RangeOf(p) \cup RangeOf(q))
    BY <1>2, <1>6
  <2> DEFINE U == RangeOf(p) \cup RangeOf(q)
  <2>2. p \in Seq(U) /\ q \in Seq(U)
    BY <2>1
  <2> HIDE DEF U
  <2>3. /\ p \o q \in Seq(U) /\ Len(p \o q) = Len(p) + Len(q)
        /\ \A i \in 1..Len(p) : (p \o q)[i] = p[i]
        /\ \A i \in 1..Len(q) : (p \o q)[Len(p) + i] = q[i]
    BY ONLY <2>2, ConcatIs
  <2>4. QED
    BY <1>3, <2>3 DEF U
<1> HIDE DEF all
<1>9. RangeOf(all) = RangeOf(p) \cup RangeOf(q) /\ all \in Seq(RangeOf(all))
  <2> DEFINE U == RangeOf(p) \cup RangeOf(q)
  <2>0. all \in Seq(U)
    BY <1>8
  <2>1. /\ \A i \in 1..(Len(p) + n) : all[i] \in RangeOf(all)
        /\ RangeOf(all) \subseteq U /\ all \in Seq(RangeOf(all))
    <3> HIDE DEF U
    <3>1. QED
      BY <1>8, <2>0, InRange
  <2>2. ASSUME NEW r \in RangeOf(p) PROVE r \in RangeOf(all)
    <3>1. PICK i \in 1..Len(p) : r = p[i]
      BY <1>7
    <3>2. i \in 1..(Len(p) + n)
      BY <1>1, <1>2
    <3>3. QED
      BY <1>8, <2>1, <3>1, <3>2
  <2>3. ASSUME NEW r \in RangeOf(q) PROVE r \in RangeOf(all)
    <3>1. PICK i \in 1..n : r = q[i]
      BY <1>6
    <3>2. Len(p) + i \in 1..(Len(p) + n)
      BY <1>1, <1>2
    <3>3. QED
      BY <1>8, <2>1, <3>1, <3>2
  <2>4. QED
    BY <2>1, <2>2, <2>3
<1>10. \A r \in RangeOf(p) : r.timeframe # f
  BY <1>0 DEF TimeframesOf
<1>11. ASSUME NEW r \in RangeOf(all)
       PROVE  RowSound(r, days) /\ ParamsOf(all, r.timeframe) = G
  <2>1. CASE r \in RangeOf(p)
    <3>1. {x \in RangeOf(all) : x.timeframe = r.timeframe} = {x \in RangeOf(p) : x.timeframe = r.timeframe}
      BY <1>4, <1>9, <1>10, <2>1
    <3>2. QED
      BY <1>2, <2>1, <3>1 DEF ParamsOf
  <2>2. CASE r \in RangeOf(q)
    <3>1. {x \in RangeOf(all) : x.timeframe = r.timeframe} = RangeOf(q)
      BY <1>4, <1>9, <1>10, <2>2
    <3>2. {x.params : x \in RangeOf(q)} = G
      BY <1>4, <1>5
    <3>3. QED
      BY <1>4, <2>2, <3>1, <3>2 DEF ParamsOf
  <2>3. QED
    BY <1>9, <2>1, <2>2
<1>12. TimeframesOf(all) \subseteq TimeframesOf(p) \cup {f}
  BY <1>4, <1>9 DEF TimeframesOf
<1>13. IsFiniteSet(TimeframesOf(p)) /\ Cardinality(TimeframesOf(p)) \in Nat
  <2>1. IsFiniteSet(Timeframes)
    BY DEF SweepAssumption, BoundsAssumption
  <2>2. TimeframesOf(p) \in SUBSET Timeframes
    BY <1>2 DEF TimeframesOf, RowSound
  <2>3. IsFiniteSet(TimeframesOf(p))
    BY <2>1, <2>2, FS_Subset
  <2>4. QED
    BY <2>3, FS_CardinalityType
<1>14. Len(all) = Cardinality(TimeframesOf(all)) * n
  <2>1. CASE n = 0
    <3>1. RangeOf(q) = {}
      BY <1>6, <2>1
    <3>2. RangeOf(all) = RangeOf(p)
      BY <1>9, <3>1
    <3>3. TimeframesOf(all) = TimeframesOf(p)
      BY <3>2 DEF TimeframesOf
    <3>4. Len(all) = Len(p)
      BY <1>2, <1>8, <2>1
    <3>5. QED
      BY <1>2, <3>3, <3>4
  <2>2. CASE n # 0
    <3>1. q[1] \in RangeOf(q)
      BY <1>1, <1>6, <2>2
    <3>2. f \in TimeframesOf(all)
      BY <1>4, <1>9, <3>1 DEF TimeframesOf
    <3>3. TimeframesOf(all) = TimeframesOf(p) \cup {f}
      BY <1>9, <1>12, <3>2 DEF TimeframesOf
    <3>4. Cardinality(TimeframesOf(all)) = Cardinality(TimeframesOf(p)) + 1
      BY <1>0, <1>13, <3>3, FS_AddElement
    <3>5. PICK c \in Nat : c = Cardinality(TimeframesOf(p))
      BY <1>13
    <3>6. (c + 1) * n = c * n + n
      BY <1>1
    <3>7. QED
      BY <1>2, <1>8, <3>4, <3>5, <3>6
  <2>3. QED
    BY <2>1, <2>2
<1>15. Len(all) = Cardinality(TimeframesOf(all)) * Cardinality(G)
  BY <1>1, <1>14
<1>16. QED
  BY <1>9, <1>11, <1>12, <1>15 DEF Complete, all, G

\* Computed or found in the cache, a row is what the backtest gives on the candles it names.
LEMMA RowsAre ==
    ASSUME SweepAssumption, SweepSound, sweep.candles # Nothing
    PROVE  /\ DOMAIN Grid(sweep.limit) = 1..Len(Grid(sweep.limit)) /\ Len(Grid(sweep.limit)) \in Nat
           /\ DOMAIN Rows = 1..Len(Grid(sweep.limit))
           /\ \A i \in 1..Len(Grid(sweep.limit)) :
                 /\ Rows[i].params = Grid(sweep.limit)[i] /\ Rows[i].timeframe = Here
                 /\ RowSound(Rows[i], sweep.days)
                 /\ SweepKeys[i].timeframe \in Timeframes /\ SweepKeys[i].split_at >= 1
                 /\ ~Cached(i) => SoundRow(SweepKeys[i], Kept(Rows[i]))
<1> DEFINE g == Grid(sweep.limit)
           n == Len(g)
           c == sweep.candles
           w == Window(c, sweep.days)
<1>1. g \in Seq(Combinations) /\ n \in Nat /\ DOMAIN g = 1..n
  BY GridIs DEF SweepSound
<1>2. IsCandles(c) /\ DOMAIN c # {}
  <2>1. IsCandles(c)
    BY DEF SweepSound
  <2>2. ASSUME DOMAIN c = {} PROVE FALSE
    <3>1. c = [t \in {} |-> c[t]]
      BY <2>1, <2>2 DEF IsCandles
    <3>2. c = Nothing
      BY <3>1 DEF Nothing
    <3>3. QED
      BY <3>2
  <2>3. QED
    BY <2>1, <2>2
<1>3. sweep.days \in Nat /\ Here \in Timeframes
  <2>1. sweep.days \in Nat
    BY DEF SweepSound, SweepAssumption, BoundsAssumption
  <2>2. sweep.timeframes \in Seq(Timeframes) /\ Len(sweep.timeframes) >= 1
    BY DEF SweepSound
  <2>3. Head(sweep.timeframes) \in Timeframes
    BY <2>2
  <2>4. QED
    BY <2>1, <2>3 DEF Here
<1>4. w \in Seq(DOMAIN c) /\ Len(w) \in 1..(SweepEnd + 1) /\ w = Sorted(From(c, w[1]))
  <2> HIDE DEF c
  <2>1. QED
    BY <1>2, <1>3, WindowIs DEF SweepAssumption
<1>5. SweepEnd \in Nat
  BY DEF SweepAssumption, BoundsAssumption
<1>6. Rows = [i \in 1..n |-> Row(i, g[i])]
  BY <1>1 DEF Rows
<1>7. ASSUME NEW i \in 1..n
      PROVE  /\ Rows[i].params = g[i] /\ Rows[i].timeframe = Here
             /\ RowSound(Rows[i], sweep.days)
             /\ SweepKeys[i].timeframe \in Timeframes /\ SweepKeys[i].split_at >= 1
             /\ ~Cached(i) => SoundRow(SweepKeys[i], Kept(Rows[i]))
  <2> DEFINE k == SweepKeys[i]
             world == Today
             e == Evaluation(g[i], c, sweep.days, world)
             r == Rows[i]
             found == sweep.known[k]
  <2>1. g[i] \in Combinations
    BY <1>1
  <2>0. IsWorld(world)
    BY DEF SweepSound
  <2>2. SplitAt(w) \in 1..Len(w) /\ Scored(EvaluationOf(g[i], c, w, world), world.tuning.minTrades)
    <3> HIDE DEF c, w, g, world
    <3>1. QED
      BY <1>2, <1>4, <2>0, <2>1, EvaluationIs
  <2>3. k = CacheKey(Here, g[i], w)
    BY <1>1 DEF SweepKeys, KeysOf
  <2>4. /\ k.timeframe = Here /\ k.params = g[i] /\ k.start = w[1] /\ k.split_at = SplitAt(w)
    BY <2>3 DEF CacheKey
  <2>5. k.split_at >= 1
    <3> HIDE DEF w, k
    <3>1. QED
      BY <1>4, <1>5, <2>2, <2>4
  <2>6. e = EvaluationOf(g[i], c, Sorted(From(c, w[1])), world) /\ Scored(e, world.tuning.minTrades)
    BY <1>4, <2>2 DEF Evaluation
  <2>7. r = Row(i, g[i])
    BY <1>6
  <2> HIDE DEF g, c, w, e, k, found, r, world
  <2>8. CASE Cached(i)
    <3>1. k \in DOMAIN sweep.known
      BY <2>8 DEF Cached, k
    <3>2. SoundRow(k, found)
      BY <3>1 DEF SweepSound, CacheSound, found
    <3>3. r = RowOf(g[i], found, found.of, found.world)
      BY <2>7, <2>8 DEF Row, FoundRow, found, k
    <3>4. /\ r.objective = found.objective /\ r.train = found.train /\ r.test = found.test
          /\ r.of = found.of /\ r.params = g[i] /\ r.timeframe = Here /\ r.on = c
          /\ r.world = found.world /\ r.today = world
      BY <3>3 DEF RowOf, c, world
    <3>5. Judged(r)
      BY <3>2, <3>4 DEF SoundRow, Judged, Scored
    <3>6. ASSUME r.of = r.on, r.world = r.today
          PROVE  Same(r, Evaluation(r.params, r.on, sweep.days, r.today))
      <4>1. Same(found, EvaluationOf(k.params, found.of, Sorted(From(found.of, k.start)), found.world))
        BY <3>2 DEF SoundRow
      <4>2. found.of = c /\ found.world = world
        BY <3>4, <3>6
      <4>3. Same(found, e)
        BY <2>4, <2>6, <4>1, <4>2
      <4>4. Same(r, e)
        BY <3>4, <4>3 DEF Same
      <4>5. QED
        BY <3>4, <4>4 DEF e
    <3>7. RowSound(r, sweep.days)
      BY <1>3, <3>4, <3>5, <3>6 DEF RowSound
    <3>8. QED
      BY <1>3, <2>4, <2>5, <2>8, <3>4, <3>7 DEF r, k
  <2>9. CASE ~Cached(i)
    <3>1. r = RowOf(g[i], e, c, world)
      BY <2>7, <2>9 DEF Row, e, c, world
    <3>2. /\ r.objective = e.objective /\ r.train = e.train /\ r.test = e.test
          /\ r.of = c /\ r.params = g[i] /\ r.timeframe = Here /\ r.on = c
          /\ r.world = world /\ r.today = world
      BY <3>1 DEF RowOf, c, world
    <3>3. Judged(r)
      BY <2>6, <3>2 DEF Judged, Scored
    <3>4. Same(r, e)
      BY <3>2 DEF Same
    <3>5. RowSound(r, sweep.days)
      BY <1>3, <3>2, <3>3, <3>4 DEF RowSound, e
    <3>6. /\ Kept(r).objective = e.objective /\ Kept(r).train = e.train /\ Kept(r).test = e.test
          /\ Kept(r).of = c /\ Kept(r).world = world
      BY <3>2 DEF Kept
    <3>7. Judged(Kept(r)) /\ Same(Kept(r), e)
      BY <2>6, <3>6 DEF Judged, Scored, Same
    <3>8. SoundRow(k, Kept(r))
      BY <2>4, <2>6, <3>6, <3>7 DEF SoundRow
    <3>9. QED
      BY <1>3, <2>4, <2>5, <3>2, <3>5, <3>8 DEF r, k
  <2>10. QED
    BY <2>8, <2>9
<1>8. QED
  BY <1>1, <1>6, <1>7

\* What a sweep adds to the cache is what the backtest gives.
LEMMA StoredSound ==
    ASSUME SweepAssumption, SweepSound, sweep.candles # Nothing, CacheSound(cache),
           NEW n \in 0..Len(Grid(sweep.limit))
    PROVE  CacheSound(Stored(n))
<1> DEFINE fresh == {i \in 1..n : ~Cached(i)}
           stores(k) == {i \in fresh : SweepKeys[i] = k}
           new == Stored(n)
<1>1. Len(Grid(sweep.limit)) \in Nat
  BY RowsAre
<1>2. \A i \in fresh : /\ SweepKeys[i].timeframe \in Timeframes /\ SweepKeys[i].split_at >= 1
                       /\ SoundRow(SweepKeys[i], Kept(Rows[i]))
  <2>1. \A i \in fresh : i \in 1..Len(Grid(sweep.limit)) /\ ~Cached(i)
    BY <1>1
  <2>2. QED
    BY <2>1, RowsAre
<1>3. new = [k \in {SweepKeys[i] : i \in fresh} \cup DOMAIN cache |->
                IF stores(k) = {} THEN cache[k] ELSE Kept(Rows[CHOOSE i \in stores(k) : TRUE])]
  BY DEF Stored, KeptRows
<1> HIDE DEF fresh, new
<1>4. ASSUME NEW k \in DOMAIN new
      PROVE  k.timeframe \in Timeframes /\ k.split_at >= 1 /\ SoundRow(k, new[k])
  <2>1. CASE stores(k) = {}
    <3>1. k \in DOMAIN cache
      BY <1>3, <2>1
    <3>2. new[k] = cache[k]
      BY <1>3, <2>1
    <3>3. QED
      BY <3>1, <3>2 DEF CacheSound
  <2>2. CASE stores(k) # {}
    <3>1. PICK i \in stores(k) : i = CHOOSE j \in stores(k) : TRUE
      BY <2>2
    <3>2. i \in fresh /\ SweepKeys[i] = k
      OBVIOUS
    <3>3. new[k] = Kept(Rows[i])
      BY <1>3, <2>2, <3>1
    <3>4. QED
      BY <1>2, <3>2, <3>3
  <2>3. QED
    BY <2>1, <2>2
<1>5. QED
  BY <1>4 DEF CacheSound, new

LEMMA RestOfOrder ==
    ASSUME NEW T, NEW s \in Seq(T), Len(s) >= 1, \A i, j \in 1..Len(s) : s[i] = s[j] => i = j
    PROVE  /\ Head(s) \in RangeOf(s) /\ Head(s) \notin RangeOf(Tail(s))
           /\ RangeOf(Tail(s)) \subseteq RangeOf(s)
           /\ Tail(s) \in Seq(T) /\ Len(Tail(s)) = Len(s) - 1
           /\ \A i, j \in 1..Len(Tail(s)) : Tail(s)[i] = Tail(s)[j] => i = j
<1>1. PICK n \in Nat : n = Len(s)
  OBVIOUS
<1>2. Tail(s) \in Seq(T) /\ Len(Tail(s)) = n - 1 /\ \A i \in 1..(n - 1) : Tail(s)[i] = s[i + 1]
  BY <1>1
<1>3. \A i \in 1..(n - 1) : i + 1 \in 1..n /\ i + 1 # 1 /\ \A j \in 1..(n - 1) : i + 1 = j + 1 => i = j
  BY <1>1
<1>4. Head(s) = s[1] /\ 1 \in 1..n
  BY <1>1
<1>5. \A i \in 1..n : s[i] \in RangeOf(s)
  BY <1>1, InRange
<1>6. \A r \in RangeOf(Tail(s)) : \E i \in 1..(n - 1) : r = Tail(s)[i]
  <2> DEFINE t == Tail(s)
  <2>1. t \in Seq(T) /\ Len(t) = n - 1
    BY <1>2
  <2> HIDE DEF t
  <2>2. \A r \in RangeOf(t) : \E i \in 1..Len(t) : r = t[i]
    BY ONLY <2>1, InRange
  <2>3. QED
    BY <2>1, <2>2 DEF t
<1>7. RangeOf(Tail(s)) \subseteq RangeOf(s)
  BY <1>2, <1>3, <1>5, <1>6
<1>8. Head(s) \notin RangeOf(Tail(s))
  BY <1>1, <1>2, <1>3, <1>4, <1>6
<1>9. QED
  BY <1>1, <1>2, <1>3, <1>4, <1>5, <1>7, <1>8

LEMMA NoneComplete ==
    ASSUME SweepAssumption, NEW days, NEW limit \in Limits
    PROVE  Complete(<<>>, days, limit) /\ TimeframesOf(<<>>) = {}
<1>1. RangeOf(<<>>) = {}
  BY DEF RangeOf
<1>2. TimeframesOf(<<>>) = {}
  BY <1>1 DEF TimeframesOf
<1>3. Cardinality(TimeframesOf(<<>>)) = 0
  BY <1>2, FS_EmptySet
<1>4. Cardinality(RangeOf(Grid(limit))) \in Nat
  BY GridIs, FS_CardinalityType
<1>5. QED
  BY <1>1, <1>2, <1>3, <1>4 DEF Complete

\* Ranking complete results leaves them complete.
LEMMA RankingComplete ==
    ASSUME NEW days, NEW limit, NEW rows, Complete(rows, days, limit)
    PROVE  /\ Complete(Ranked(rows), days, limit)
           /\ \A i, j \in 1..Len(Ranked(rows)) :
                 i < j => Ranked(rows)[i].objective >= Ranked(rows)[j].objective
<1> DEFINE T == RangeOf(rows)
<1>1. rows \in Seq(T) /\ \A r \in T : Judged(r)
  BY DEF Complete, RowSound
<1>2. \A i \in 1..Len(rows) : rows[i].objective \in Int
  <2>1. \A i \in 1..Len(rows) : rows[i] \in T
    BY <1>1, InRange
  <2>2. QED
    BY <1>1, <2>1 DEF Judged, Scored
<1>3. /\ Ranked(rows) \in Seq(T) /\ Len(Ranked(rows)) = Len(rows) /\ RangeOf(Ranked(rows)) = T
      /\ \A i, j \in 1..Len(rows) : i < j => Ranked(rows)[i].objective >= Ranked(rows)[j].objective
  <2> HIDE DEF T
  <2>1. QED
    BY <1>1, <1>2, RankedIs DEF T
<1>4. \A f : ParamsOf(Ranked(rows), f) = ParamsOf(rows, f)
  BY <1>3 DEF ParamsOf
<1>5. TimeframesOf(Ranked(rows)) = TimeframesOf(rows)
  BY <1>3 DEF TimeframesOf
<1>6. Complete(Ranked(rows), days, limit)
  BY <1>3, <1>4, <1>5 DEF Complete
<1>7. QED
  BY <1>3, <1>6

\* Timeframes still to be done, and candles as the database has them.
LoadedFrom(order) ==
    /\ order \in Seq(Timeframes) /\ Len(order) >= 1
    /\ \A i, j \in 1..Len(order) : order[i] = order[j] => i = j
HistorySound == DOMAIN historical = Timeframes /\ \A f \in Timeframes : IsCandles(historical[f])

LEMMA LoadKeeps ==
    ASSUME SweepAssumption, HistorySound, CacheSound(cache), NEW order, LoadedFrom(order),
           NEW days \in Days, NEW limit \in Limits, NEW pooled, Complete(pooled, days, limit),
           TimeframesOf(pooled) \cap RangeOf(order) = {}, Load(order, days, limit, pooled),
           records \in Records, tuning \in Tunings, tuning' = tuning
    PROVE  SweepSound'
<1>1. /\ sweep'.phase = "loaded" /\ sweep'.timeframes = order /\ sweep'.days = days
      /\ sweep'.limit = limit /\ sweep'.pooled = pooled
      /\ sweep'.candles = historical[Head(order)] /\ sweep'.known = cache
      /\ sweep'.records = records
  BY DEF Load
<1>2. Head(order) \in Timeframes
  BY DEF LoadedFrom
<1>3. IsCandles(sweep'.candles)
  BY <1>1, <1>2 DEF HistorySound
<1>4. IsWorld(Today)'
  BY <1>1 DEF IsWorld, Today
<1>5. QED
  BY <1>1, <1>3, <1>4 DEF SweepSound, LoadedFrom

LEMMA GoOnKeeps ==
    ASSUME SweepAssumption, SweepSound, HistorySound, CacheSound(cache), done.finished => DoneSound,
           NEW pooled, Complete(pooled, sweep.days, sweep.limit),
           TimeframesOf(pooled) \cap RangeOf(Tail(sweep.timeframes)) = {}, GoOn(pooled),
           records \in Records, tuning \in Tunings, tuning' = tuning
    PROVE  /\ sweep'.phase \in {"none", "loaded"}
           /\ sweep' # NoSweep => SweepSound'
           /\ done'.finished => DoneSound'
<1>1. /\ sweep.timeframes \in Seq(Timeframes) /\ Len(sweep.timeframes) >= 1
      /\ \A i, j \in 1..Len(sweep.timeframes) : sweep.timeframes[i] = sweep.timeframes[j] => i = j
      /\ sweep.days \in Days /\ sweep.limit \in Limits
  BY DEF SweepSound
<1>2. CASE Len(sweep.timeframes) > 1
  <2> DEFINE order == Tail(sweep.timeframes)
  <2>1. LoadedFrom(order)
    <3>1. PICK n \in Nat : n = Len(sweep.timeframes)
      BY <1>1
    <3>2. /\ order \in Seq(Timeframes) /\ Len(order) = Len(sweep.timeframes) - 1
          /\ \A i, j \in 1..Len(order) : order[i] = order[j] => i = j
      BY <1>1, RestOfOrder
    <3> HIDE DEF order
    <3>3. Len(order) >= 1
      BY <1>2, <3>1, <3>2
    <3>4. QED
      BY <3>2, <3>3 DEF LoadedFrom
  <2>2. Load(order, sweep.days, sweep.limit, pooled) /\ done' = done
    BY <1>2 DEF GoOn
  <2> HIDE DEF order
  <2>3. SweepSound'
    BY <1>1, <2>1, <2>2, LoadKeeps DEF order
  <2>4. done'.finished => DoneSound'
    BY <2>2 DEF DoneSound
  <2>5. QED
    BY <2>3, <2>4 DEF SweepSound
<1>3. CASE ~(Len(sweep.timeframes) > 1)
  <2>1. sweep' = NoSweep
        /\ done' = [finished |-> TRUE, days |-> sweep.days, limit |-> sweep.limit, ranking |-> Ranked(pooled)]
    BY <1>3 DEF GoOn
  <2>2. done'.days = sweep.days /\ done'.limit = sweep.limit /\ done'.ranking = Ranked(pooled)
    BY <2>1
  <2>3. DoneSound'
    BY <1>1, <2>2, RankingComplete DEF DoneSound
  <2>4. sweep'.phase = "none"
    BY <2>1 DEF NoSweep
  <2>5. QED
    BY <2>1, <2>3, <2>4
<1>4. QED
  BY <1>2, <1>3

MarketTyped ==
    /\ moment \in 1..SweepEnd /\ sweeps \in 0..MaxSweeps /\ downloads \in 0..MaxDownloads
    /\ turns \in 0..MaxTurns /\ records \in Records /\ tuning \in Tunings
    /\ \A f \in Timeframes : /\ DOMAIN historical[f] \subseteq {t \in 0..SweepEnd : t % f = 0}
                             /\ RangeOf(historical[f]) \subseteq Contents
InvParts ==
    /\ MarketTyped /\ sweep.phase \in {"none", "loaded"}
    /\ HistorySound
    /\ CacheSound(cache)
    /\ sweep # NoSweep => SweepSound
    /\ done.finished => DoneSound

LEMMA Parts == SweepInv <=> InvParts
<1>1. CacheSound(cache) => \A k \in DOMAIN cache : k.timeframe \in Timeframes /\ k.split_at >= 1
  BY DEF CacheSound
<1>2. QED
  BY <1>1 DEF SweepInv, InvParts, HistorySound, MarketTyped, SweepTypeOK

LEMMA SweepStarts == ASSUME SweepAssumption, SweepInit PROVE SweepInv
<1>1. /\ SweepEnd \in Nat \ {0} /\ MaxSweeps \in Nat /\ MaxDownloads \in Nat
      /\ MaxTurns \in Nat /\ FirstRecords \in Records /\ FirstTuning \in Tunings
  BY DEF SweepAssumption, BoundsAssumption
<1>2. Nothing = [t \in {} |-> 0] /\ DOMAIN Nothing = {} /\ RangeOf(Nothing) = {}
  BY DEF Nothing, RangeOf
<1>3. IsCandles(Nothing)
  BY <1>2 DEF IsCandles
<1>4. DOMAIN historical = Timeframes /\ \A f \in Timeframes : historical[f] = Nothing
  BY DEF SweepInit
<1>5. HistorySound
  BY <1>3, <1>4 DEF HistorySound
<1>6. MarketTyped
  BY <1>1, <1>2, <1>4 DEF SweepInit, MarketTyped
<1>7. CacheSound(cache)
  BY DEF SweepInit, CacheSound
<1>8. sweep = NoSweep /\ sweep.phase = "none" /\ ~done.finished
  BY DEF SweepInit, NoSweep, NotDone
<1>9. QED
  BY <1>5, <1>6, <1>7, <1>8, Parts DEF InvParts

LEMMA AdvanceKeeps == ASSUME SweepAssumption, SweepInv, Advance PROVE SweepInv'
<1>1. InvParts
  BY Parts
<1>2. moment' \in 1..SweepEnd
  BY <1>1 DEF Advance, InvParts, MarketTyped, SweepAssumption, BoundsAssumption
<1>3. /\ historical' = historical /\ cache' = cache /\ sweep' = sweep /\ done' = done
      /\ sweeps' = sweeps /\ downloads' = downloads
      /\ records' = records /\ tuning' = tuning /\ turns' = turns
  BY DEF Advance
<1>4. MarketTyped' /\ HistorySound' /\ CacheSound(cache')
  BY <1>1, <1>2, <1>3 DEF InvParts, MarketTyped, HistorySound
<1>5. (sweep' # NoSweep => SweepSound') /\ (done'.finished => DoneSound')
  BY <1>1, <1>3 DEF InvParts, SweepSound, DoneSound, Today
<1>6. QED
  BY <1>1, <1>3, <1>4, <1>5, Parts DEF InvParts, SweepInv, SweepTypeOK, MarketTyped, HistorySound, CacheSound

LEMMA DownloadKeeps == ASSUME SweepAssumption, SweepInv, Download PROVE SweepInv'
<1>1. InvParts
  BY Parts
<1>2. moment \in 1..SweepEnd /\ SweepEnd \in Nat /\ Days \subseteq Nat /\ Timeframes \subseteq Nat \ {0}
      /\ Unfinished \subseteq Contents
      /\ \A f \in Timeframes, t \in 0..SweepEnd : ClosedAs(f, t) \in Contents
  BY <1>1 DEF InvParts, MarketTyped, SweepAssumption, BoundsAssumption
<1>3. PICK f \in Timeframes, days \in Days, forming \in Unfinished :
         LET asked == {t \in Max({0, moment - days})..moment : t % f = 0}
             rows  == [t \in asked |-> IF t + f <= moment THEN ClosedAs(f, t) ELSE forming]
         IN  historical' = [historical EXCEPT ![f] =
                           [t \in DOMAIN @ \cup asked |->
                               IF t \in asked THEN rows[t] ELSE @[t]]]
  BY DEF Download
<1> DEFINE asked == {t \in Max({0, moment - days})..moment : t % f = 0}
           old == historical[f]
           new == [t \in DOMAIN old \cup asked |->
                      IF t \in asked THEN IF t + f <= moment THEN ClosedAs(f, t) ELSE forming
                                     ELSE old[t]]
<1>4. /\ DOMAIN historical' = Timeframes /\ historical'[f] = new
      /\ \A g \in Timeframes \ {f} : historical'[g] = historical[g]
  <2>1. DOMAIN historical = Timeframes
    BY <1>1 DEF InvParts, HistorySound
  <2>2. historical' = [historical EXCEPT ![f] = new]
    BY <1>3
  <2> HIDE DEF new
  <2>3. QED
    BY <2>1, <2>2
<1>5. asked \subseteq {t \in 0..SweepEnd : t % f = 0}
  <2>1. Max({0, moment - days}) \in Nat
    <3>1. 0 \in Int /\ moment - days \in Int
      BY <1>2
    <3>2. Max({0, moment - days}) = IF 0 >= moment - days THEN 0 ELSE moment - days
      BY <3>1, MaxOfTwo
    <3>3. QED
      BY <3>1, <3>2
  <2>2. PICK least \in Nat : least = Max({0, moment - days})
    BY <2>1
  <2>3. \A t \in least..moment : t \in 0..SweepEnd
    BY <1>2
  <2>4. QED
    BY <2>2, <2>3
<1>6. /\ IsCandles(old) /\ DOMAIN old \subseteq {t \in 0..SweepEnd : t % f = 0}
  BY <1>1 DEF InvParts, HistorySound, MarketTyped
<1>7. DOMAIN new = DOMAIN old \cup asked /\ \A t \in DOMAIN new : new[t] \in Contents
  <2> HIDE DEF asked
  <2>1. DOMAIN new = DOMAIN old \cup asked
    OBVIOUS
  <2>2. ASSUME NEW t \in DOMAIN new PROVE new[t] \in Contents
    <3>1. CASE t \in asked
      <4>1. t \in 0..SweepEnd
        BY <1>5, <3>1
      <4>2. QED
        BY <1>2, <3>1, <4>1
    <3>2. CASE t \notin asked
      <4>1. t \in DOMAIN old /\ new[t] = old[t]
        BY <2>1, <3>2
      <4>2. QED
        BY <1>6, <4>1 DEF IsCandles
    <3>3. QED
      BY <3>1, <3>2
  <2>3. QED
    BY <2>1, <2>2
<1>8. new = [t \in DOMAIN new |-> new[t]]
  OBVIOUS
<1> HIDE DEF new, asked, old
<1>9. /\ IsCandles(new) /\ DOMAIN new \subseteq {t \in 0..SweepEnd : t % f = 0}
      /\ RangeOf(new) \subseteq Contents
  <2>1. DOMAIN new \subseteq {t \in 0..SweepEnd : t % f = 0}
    BY <1>5, <1>6, <1>7
  <2>2. DOMAIN new \subseteq 0..SweepEnd
    BY <2>1
  <2>3. RangeOf(new) \subseteq Contents
    BY <1>7 DEF RangeOf
  <2>4. new \in [DOMAIN new -> Contents]
    BY <1>7, <1>8
  <2>5. QED
    BY <2>1, <2>2, <2>3, <2>4 DEF IsCandles
<1>10. HistorySound'
  BY <1>1, <1>4, <1>9 DEF InvParts, HistorySound, IsCandles
<1>11. /\ cache' = cache /\ sweep' = sweep /\ done' = done
       /\ sweeps' = sweeps /\ moment' = moment /\ downloads' \in 0..MaxDownloads
       /\ records' = records /\ tuning' = tuning /\ turns' = turns
  BY <1>1 DEF Download, InvParts, MarketTyped, SweepAssumption, BoundsAssumption
<1>12. \A g \in Timeframes : /\ DOMAIN historical'[g] \subseteq {t \in 0..SweepEnd : t % g = 0}
                             /\ RangeOf(historical'[g]) \subseteq Contents
  BY <1>1, <1>4, <1>9 DEF InvParts, MarketTyped
<1>13. MarketTyped'
  BY <1>1, <1>11, <1>12 DEF InvParts, MarketTyped
<1>14. (sweep' # NoSweep => SweepSound') /\ (done'.finished => DoneSound')
  BY <1>1, <1>11 DEF InvParts, SweepSound, DoneSound, Today
<1>15. QED
  BY <1>1, <1>10, <1>11, <1>13, <1>14 DEF InvParts, SweepInv, SweepTypeOK, MarketTyped, HistorySound, CacheSound

LEMMA WorldKeeps == ASSUME SweepAssumption, SweepInv, Record \/ StartWorker PROVE SweepInv'
<1>1. InvParts
  BY Parts
<1>2. records' \in Records /\ tuning' \in Tunings /\ turns' \in 0..MaxTurns
  BY <1>1 DEF Record, StartWorker, InvParts, MarketTyped, SweepAssumption, BoundsAssumption
<1>3. /\ historical' = historical /\ cache' = cache /\ sweep' = sweep /\ done' = done
      /\ sweeps' = sweeps /\ downloads' = downloads /\ moment' = moment
      /\ sweep # NoSweep => tuning' = tuning
  BY DEF Record, StartWorker
<1>4. MarketTyped' /\ HistorySound' /\ CacheSound(cache')
  BY <1>1, <1>2, <1>3 DEF InvParts, MarketTyped, HistorySound
<1>5. (sweep' # NoSweep => SweepSound') /\ (done'.finished => DoneSound')
  BY <1>1, <1>3 DEF InvParts, SweepSound, DoneSound, Today
<1>6. QED
  BY <1>1, <1>3, <1>4, <1>5, Parts DEF InvParts, SweepInv, SweepTypeOK, MarketTyped, HistorySound, CacheSound

LEMMA BeginKeeps == ASSUME SweepAssumption, SweepInv, Begin PROVE SweepInv'
<1>1. InvParts
  BY Parts
<1>2. PICK order \in Orders, days \in Days, limit \in Limits : Load(order, days, limit, <<>>)
  BY DEF Begin
<1>3. LoadedFrom(order)
  <2>1. IsFiniteSet(Timeframes)
    BY DEF SweepAssumption, BoundsAssumption
  <2>2. PICK n \in 1..Cardinality(Timeframes) : order \in [1..n -> Timeframes]
    BY DEF Orders
  <2>3. Cardinality(Timeframes) \in Nat
    BY <2>1, FS_CardinalityType
  <2>4. n \in Nat /\ n >= 1
    BY <2>3
  <2>5. order \in Seq(Timeframes) /\ Len(order) = n /\ DOMAIN order = 1..n
    BY <2>2, <2>4
  <2>6. \A i, j \in DOMAIN order : order[i] = order[j] => i = j
    BY DEF Orders
  <2>7. QED
    BY <2>4, <2>5, <2>6 DEF LoadedFrom
<1>4. HistorySound /\ CacheSound(cache)
  BY <1>1 DEF InvParts
<1>5. Complete(<<>>, days, limit) /\ TimeframesOf(<<>>) \cap RangeOf(order) = {}
  BY NoneComplete
<1>6. SweepSound'
  <2>1. records \in Records /\ tuning \in Tunings /\ tuning' = tuning
    BY <1>1 DEF InvParts, MarketTyped, Begin
  <2>2. QED
    BY <1>2, <1>3, <1>4, <1>5, <2>1, LoadKeeps
<1>7. /\ historical' = historical /\ cache' = cache /\ done' = NotDone
      /\ sweeps' \in 0..MaxSweeps /\ moment' = moment /\ downloads' = downloads
      /\ records' = records /\ tuning' = tuning /\ turns' = turns
  BY <1>1 DEF Begin, InvParts, MarketTyped, SweepAssumption, BoundsAssumption
<1>8. ~done'.finished
  BY <1>7 DEF NotDone
<1>9. sweep'.phase = "loaded"
  BY <1>6 DEF SweepSound
<1>10. MarketTyped' /\ HistorySound' /\ CacheSound(cache')
  BY <1>1, <1>7 DEF InvParts, MarketTyped, HistorySound
<1>11. QED
  BY <1>6, <1>8, <1>9, <1>10 DEF SweepInv, SweepTypeOK, MarketTyped, HistorySound, CacheSound

LEMMA SkipTimeframeKeeps == ASSUME SweepAssumption, SweepInv, SkipTimeframe PROVE SweepInv'
<1>1. InvParts
  BY Parts
<1>2. SweepSound /\ HistorySound /\ CacheSound(cache) /\ (done.finished => DoneSound)
  BY <1>1 DEF InvParts, SkipTimeframe
<1>3. Complete(sweep.pooled, sweep.days, sweep.limit)
  BY <1>2 DEF SweepSound
<1>4. TimeframesOf(sweep.pooled) \cap RangeOf(Tail(sweep.timeframes)) = {}
  <2>1. RangeOf(Tail(sweep.timeframes)) \subseteq RangeOf(sweep.timeframes)
    <3>1. /\ sweep.timeframes \in Seq(Timeframes) /\ Len(sweep.timeframes) >= 1
          /\ \A i, j \in 1..Len(sweep.timeframes) : sweep.timeframes[i] = sweep.timeframes[j] => i = j
      BY <1>2 DEF SweepSound
    <3>2. QED
      BY <3>1, RestOfOrder
  <2>2. QED
    BY <1>2, <2>1 DEF SweepSound
<1>5. GoOn(sweep.pooled)
  BY DEF SkipTimeframe
<1>6. /\ sweep'.phase \in {"none", "loaded"}
      /\ sweep' # NoSweep => SweepSound'
      /\ done'.finished => DoneSound'
  <2>1. records \in Records /\ tuning \in Tunings /\ tuning' = tuning
    BY <1>1 DEF InvParts, MarketTyped, SkipTimeframe
  <2>2. QED
    BY <1>2, <1>3, <1>4, <1>5, <2>1, GoOnKeeps
<1>7. /\ historical' = historical /\ cache' = cache
      /\ sweeps' = sweeps /\ moment' = moment /\ downloads' = downloads
      /\ records' = records /\ tuning' = tuning /\ turns' = turns
  BY DEF SkipTimeframe
<1>8. MarketTyped' /\ HistorySound' /\ CacheSound(cache')
  BY <1>1, <1>7 DEF InvParts, MarketTyped, HistorySound
<1>9. QED
  BY <1>6, <1>8 DEF SweepInv, SweepTypeOK, MarketTyped, HistorySound, CacheSound

LEMMA EvaluateAllKeeps == ASSUME SweepAssumption, SweepInv, EvaluateAll PROVE SweepInv'
<1> DEFINE g == Grid(sweep.limit)
           ranked == Ranked(Rows)
           pooled == sweep.pooled \o ranked
<1>1. InvParts
  BY Parts
<1>2. SweepSound /\ HistorySound /\ CacheSound(cache) /\ (done.finished => DoneSound)
      /\ sweep.candles # Nothing
  BY <1>1 DEF InvParts, EvaluateAll
<1>3. /\ sweep.timeframes \in Seq(Timeframes) /\ Len(sweep.timeframes) >= 1
      /\ \A i, j \in 1..Len(sweep.timeframes) : sweep.timeframes[i] = sweep.timeframes[j] => i = j
      /\ Complete(sweep.pooled, sweep.days, sweep.limit) /\ sweep.limit \in Limits
      /\ TimeframesOf(sweep.pooled) \cap RangeOf(sweep.timeframes) = {}
  BY <1>2 DEF SweepSound
<1>4. /\ Here \in RangeOf(sweep.timeframes) /\ Here \notin RangeOf(Tail(sweep.timeframes))
      /\ RangeOf(Tail(sweep.timeframes)) \subseteq RangeOf(sweep.timeframes)
  BY <1>3, RestOfOrder DEF Here
<1>5. /\ Len(g) \in Nat /\ DOMAIN Rows = 1..Len(g)
      /\ \A i \in 1..Len(g) :
            /\ Rows[i].params = g[i] /\ Rows[i].timeframe = Here
            /\ RowSound(Rows[i], sweep.days)
  BY <1>2, RowsAre
<1>6. PICK T : /\ Rows \in Seq(T) /\ Len(Rows) = Len(g)
               /\ T = RangeOf(sweep.pooled) \cup {Rows[i] : i \in 1..Len(g)}
  <2> DEFINE T == RangeOf(sweep.pooled) \cup {Rows[i] : i \in 1..Len(g)}
  <2>1. PICK n \in Nat : n = Len(g)
    BY <1>5
  <2>2. \A i \in 1..n : Rows[i] \in T
    BY <2>1
  <2>3. Rows = [i \in 1..n |-> Rows[i]]
    BY <1>5, <2>1 DEF Rows
  <2> HIDE DEF T
  <2>4. Rows \in [1..n -> T]
    BY <2>2, <2>3
  <2>5. Rows \in Seq(T) /\ Len(Rows) = n
    BY <2>4
  <2>6. QED
    BY <2>1, <2>5 DEF T
<1>7. \A i \in 1..Len(Rows) : Rows[i].objective \in Int
  BY <1>5, <1>6 DEF RowSound, Judged, Scored
<1>8. ranked \in Seq(T) /\ RangeOf(ranked) = RangeOf(Rows) /\ Len(ranked) = Len(Rows)
  BY <1>6, <1>7, RankedIs
<1>9. Here \notin TimeframesOf(sweep.pooled)
  BY <1>3, <1>4
<1>10. \A i \in 1..Len(Rows) :
          /\ Rows[i].params = g[i] /\ Rows[i].timeframe = Here
          /\ RowSound(Rows[i], sweep.days)
  BY <1>5, <1>6
<1> HIDE DEF ranked
<1>11. Complete(pooled, sweep.days, sweep.limit)
       /\ TimeframesOf(pooled) \subseteq TimeframesOf(sweep.pooled) \cup {Here}
  <2> DEFINE p == sweep.pooled
             days == sweep.days
             limit == sweep.limit
             rows == Rows
             f == Here
  <2>1. /\ limit \in Limits /\ Complete(p, days, limit) /\ f \notin TimeframesOf(p)
        /\ rows \in Seq(T) /\ Len(rows) = Len(Grid(limit))
        /\ ranked \in Seq(T) /\ RangeOf(ranked) = RangeOf(rows) /\ Len(ranked) = Len(rows)
    BY <1>3, <1>6, <1>8, <1>9
  <2>2. \A i \in 1..Len(rows) :
           rows[i].params = Grid(limit)[i] /\ rows[i].timeframe = f /\ RowSound(rows[i], days)
    BY <1>10
  <2>3. SweepAssumption
    OBVIOUS
  <2> HIDE DEF p, days, limit, rows, f
  <2>4. Complete(p \o ranked, days, limit) /\ TimeframesOf(p \o ranked) \subseteq TimeframesOf(p) \cup {f}
    BY <2>1, <2>2, <2>3, CompletedBy DEF Adds
  <2>5. QED
    BY <2>4 DEF p, days, limit, f
<1> HIDE DEF pooled
<1>12. TimeframesOf(pooled) \cap RangeOf(Tail(sweep.timeframes)) = {}
  BY <1>3, <1>4, <1>11
<1>13. GoOn(pooled) /\ cache' = Stored(Len(g))
  BY DEF EvaluateAll, pooled, ranked
<1>14. /\ sweep'.phase \in {"none", "loaded"}
       /\ sweep' # NoSweep => SweepSound'
       /\ done'.finished => DoneSound'
  <2>1. records \in Records /\ tuning \in Tunings /\ tuning' = tuning
    BY <1>1 DEF InvParts, MarketTyped, EvaluateAll
  <2>2. QED
    BY <1>2, <1>11, <1>12, <1>13, <2>1, GoOnKeeps
<1>15. CacheSound(cache')
  <2>1. Len(g) \in 0..Len(g)
    BY <1>5
  <2>2. CacheSound(Stored(Len(g)))
    BY <1>2, <2>1, StoredSound
  <2>3. QED
    BY <1>13, <2>2
<1>16. /\ historical' = historical /\ sweeps' = sweeps /\ moment' = moment
       /\ downloads' = downloads /\ records' = records /\ tuning' = tuning /\ turns' = turns
  BY DEF EvaluateAll
<1>17. MarketTyped' /\ HistorySound'
  BY <1>1, <1>16 DEF InvParts, MarketTyped, HistorySound
<1>18. QED
  BY <1>14, <1>15, <1>17 DEF SweepInv, SweepTypeOK, MarketTyped, HistorySound, CacheSound

LEMMA CancelledKeeps == ASSUME SweepAssumption, SweepInv, Cancelled PROVE SweepInv'
<1>1. InvParts
  BY Parts
<1>2. SweepSound /\ CacheSound(cache) /\ sweep.candles # Nothing
  BY <1>1 DEF InvParts, Cancelled
<1>3. PICK i \in DOMAIN Grid(sweep.limit) : cache' = Stored(i - 1)
  BY DEF Cancelled
<1>4. i - 1 \in 0..Len(Grid(sweep.limit))
  BY <1>2, RowsAre
<1>5. CacheSound(cache')
  BY <1>2, <1>3, <1>4, StoredSound
<1>6. /\ historical' = historical /\ sweep' = NoSweep /\ done' = done
      /\ sweeps' = sweeps /\ moment' = moment /\ downloads' = downloads
      /\ records' = records /\ tuning' = tuning /\ turns' = turns
  BY DEF Cancelled
<1>7. MarketTyped' /\ HistorySound'
  BY <1>1, <1>6 DEF InvParts, MarketTyped, HistorySound
<1>8. sweep'.phase = "none" /\ (done'.finished => DoneSound')
  BY <1>1, <1>6 DEF InvParts, DoneSound, NoSweep
<1>9. QED
  BY <1>5, <1>6, <1>7, <1>8 DEF SweepInv, SweepTypeOK, MarketTyped, HistorySound, CacheSound

LEMMA KilledKeeps == ASSUME SweepAssumption, SweepInv, Killed PROVE SweepInv'
<1>1. InvParts
  BY Parts
<1>2. /\ historical' = historical /\ cache' = cache /\ sweep' = NoSweep /\ done' = done
      /\ sweeps' = sweeps /\ moment' = moment /\ downloads' = downloads
      /\ records' = records /\ tuning' = tuning /\ turns' = turns
  BY DEF Killed
<1>3. MarketTyped' /\ HistorySound' /\ CacheSound(cache')
  BY <1>1, <1>2 DEF InvParts, MarketTyped, HistorySound
<1>4. sweep'.phase = "none" /\ (done'.finished => DoneSound')
  BY <1>1, <1>2 DEF InvParts, DoneSound, NoSweep
<1>5. QED
  BY <1>2, <1>3, <1>4 DEF SweepInv, SweepTypeOK, MarketTyped, HistorySound, CacheSound

LEMMA SweepStays == ASSUME SweepAssumption, SweepInv, [SweepNext]_sweepVars PROVE SweepInv'
<1>1. CASE UNCHANGED sweepVars
  <2>1. /\ historical' = historical /\ cache' = cache /\ sweep' = sweep /\ done' = done
        /\ sweeps' = sweeps /\ moment' = moment /\ downloads' = downloads
      /\ records' = records /\ tuning' = tuning /\ turns' = turns
    BY <1>1 DEF sweepVars
  <2>2. QED
    BY <2>1 DEF SweepInv, SweepTypeOK, SweepSound, DoneSound, Today
<1>2. CASE SweepNext
  BY <1>2, AdvanceKeeps, DownloadKeeps, WorldKeeps, BeginKeeps, SkipTimeframeKeeps, EvaluateAllKeeps,
     CancelledKeeps, KilledKeeps DEF SweepNext
<1>3. QED
  BY <1>1, <1>2

LEMMA SweepHolds == ASSUME SweepAssumption PROVE SweepSpec => []SweepInv
<1>1. SweepInit => SweepInv
  BY SweepStarts
<1>2. SweepInv /\ [SweepNext]_sweepVars => SweepInv'
  BY SweepStays
<1>3. QED
  BY <1>1, <1>2, PTL DEF SweepSpec

LEMMA InvGivesSweep == ASSUME SweepAssumption, SweepInv PROVE SweepFromScratch
<1> SUFFICES ASSUME done.finished PROVE SweepFromScratch
  BY DEF SweepFromScratch
<1> DEFINE rows == done.ranking
           grid == RangeOf(Grid(done.limit))
<1>1. DoneSound
  BY DEF SweepInv
<1>2. /\ rows \in Seq(RangeOf(rows))
      /\ \A r \in RangeOf(rows) : RowSound(r, done.days) /\ ParamsOf(rows, r.timeframe) = grid
      /\ Len(rows) = Cardinality(TimeframesOf(rows)) * Cardinality(grid)
  BY <1>1 DEF DoneSound, Complete
<1>3. \A i, j \in 1..Len(rows) : i < j => rows[i].objective >= rows[j].objective
  BY <1>1 DEF DoneSound
<1> HIDE DEF rows, grid
<1>4. DOMAIN rows = 1..Len(rows) /\ Len(rows) \in Nat
  BY <1>2
<1>5. \A r \in RangeOf(rows) : {q.params : q \in {x \in RangeOf(rows) : x.timeframe = r.timeframe}} = grid
  BY <1>2 DEF ParamsOf
<1>6. Len(rows) = Cardinality({r.timeframe : r \in RangeOf(rows)}) * Cardinality(grid)
  BY <1>2 DEF TimeframesOf
<1>7. ASSUME NEW i \in DOMAIN rows, NEW j \in DOMAIN rows,
             rows[i].world.tuning.minTrades = rows[j].world.tuning.minTrades,
             Enough(rows[i]), ~Enough(rows[j])
      PROVE  i < j
  <2> DEFINE least == rows[i].world.tuning.minTrades
  <2>1. i \in 1..Len(rows) /\ j \in 1..Len(rows)
    BY <1>4
  <2>2. rows[i] \in RangeOf(rows) /\ rows[j] \in RangeOf(rows)
    BY <1>2, <2>1, InRange
  <2>3. Scored(rows[i], least) /\ Scored(rows[j], least)
    BY <1>2, <1>7, <2>2 DEF RowSound, Judged
  <2>4. /\ rows[i].objective \in Int /\ rows[j].objective \in Int /\ least \in Nat
        /\ rows[i].objective > (-9999000) + 1000 * least
        /\ rows[j].objective < (-9999000) + 1000 * least
    BY <1>7, <2>3 DEF Scored, Enough
  <2> HIDE DEF least
  <2>5. ~(j < i)
    <3> SUFFICES ASSUME j < i PROVE FALSE
      OBVIOUS
    <3>1. rows[j].objective >= rows[i].objective
      BY <1>3, <2>1
    <3>2. QED
      BY <2>4, <3>1
  <2>6. i # j
    BY <2>4
  <2>7. QED
    BY <2>1, <2>5, <2>6
<1>8. \A r \in RangeOf(rows) : r.of = r.on /\ r.world = r.today => Computed(r)
  BY <1>2 DEF RowSound, Computed
<1>9. \A i, j \in DOMAIN rows : i < j => rows[i].objective >= rows[j].objective
  BY <1>3, <1>4
<1>10. QED
  BY <1>5, <1>6, <1>7, <1>8, <1>9 DEF SweepFromScratch, rows, grid

\* The type invariant of the sweep and its cache.
THEOREM SweepTypeCorrect == ASSUME SweepAssumption PROVE SweepSpec => []SweepTypeOK
<1>1. SweepInv => SweepTypeOK
  BY DEF SweepInv
<1>2. QED
  BY <1>1, SweepHolds, PTL

\* For every search space, sample, set of timeframes, length of history, content of the other
\* tables and settings, and every order of cancellations, ends, downloads, changes and sweeps: a
\* finished sweep is complete and ranked, and each row computed on the candles and in the world of
\* that sweep is what its backtest gives.
THEOREM SweptFromScratch == ASSUME SweepAssumption PROVE SweepSpec => []SweepFromScratch
<1>1. SweepInv => SweepFromScratch
  BY InvGivesSweep
<1>2. QED
  BY <1>1, SweepHolds, PTL
===============================================================================

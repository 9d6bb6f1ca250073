------------------------------ MODULE Strategies ------------------------------
(***************************************************************************)
(* The decisions of the built-in strategies over one market snapshot:      *)
(* which gates a snapshot must pass, the direction, the score and the      *)
(* suggested stop and take.  Percentages are in basis points, ratios and   *)
(* score points in hundredths; names, reasons and contexts are left out.   *)
(* channel_4_touch reads candles, not a snapshot: see ChannelTouch.        *)
(***************************************************************************)
EXTENDS Absent, Integers

CONSTANTS
    PriceChange5m,    \* thresholds of config.yaml
    OiChange15m,
    VolumeSpike,
    DensityRules      \* density_strategy of config.yaml, a record

LOCAL Least(a, b) == IF a < b THEN a ELSE b
LOCAL Greatest(a, b) == IF a > b THEN a ELSE b
Magnitude(x) == IF x < 0 THEN -x ELSE x

\* The first value that is there.
Known(a, b) == IF a = None THEN b ELSE a

\* scale_points: nothing at the threshold, everything at twice the threshold.
ScalePoints(value, threshold, most) ==
    IF value = None \/ threshold <= 0 THEN 0
    ELSE IF value <= threshold THEN 0
    ELSE Least(most, ((value - threshold) * most) \div threshold)

SpreadBonus(spread) ==
    IF spread = None THEN 0 ELSE IF spread <= 2 THEN 50 ELSE IF spread <= 5 THEN 25 ELSE 0

\* clamp_score: round() to the nearest point, halves to the even one, within 1..10.
ClampScore(points) ==
    LET whole == points \div 100
        rest == points % 100
        up == rest > 50 \/ (rest = 50 /\ whole % 2 = 1)
    IN  Greatest(1, Least(10, IF up THEN whole + 1 ELSE whole))

Signal(long, points, stop, take) ==
    [direction |-> IF long THEN "LONG" ELSE "SHORT", score |-> ClampScore(points),
     stop |-> stop, take |-> take]

Ratio(s, over, most) == ScalePoints(s.ratio, over, most)

\* Price moved within five minutes, with open interest, volume and a narrow spread.
Impulse(s, oi, move, oiRise, spike) ==
    /\ s.change # None /\ oi # None
    /\ Magnitude(s.change) >= move
    /\ oi >= oiRise
    /\ s.ratio >= spike
    /\ s.spread # None => s.spread <= 5

ImpulsePoints(s, oi, move, oiRise, spike) ==
    500 + ScalePoints(Magnitude(s.change), move, 200) + ScalePoints(oi, oiRise, 200)
        + Ratio(s, spike, 100) + SpreadBonus(s.spread)

OIPumpPriceMove(s) ==
    IF ~Impulse(s, s.oi15, PriceChange5m, OiChange15m, VolumeSpike) THEN None
    ELSE Signal(s.change > 0,
                ImpulsePoints(s, s.oi15, PriceChange5m, OiChange15m, VolumeSpike), 50, 150)

\* `oi_change_5m_pct or oi_change_15m_pct`: a change of exactly zero counts as unknown.
OIMomentumScalper(s) ==
    LET oi == IF s.oi5 \in {None, 0} THEN s.oi15 ELSE s.oi5
    IN  IF ~Impulse(s, oi, 35, 100, 150) THEN None
        ELSE Signal(s.change > 0, ImpulsePoints(s, oi, 35, 100, 150), 45, 110)

\* A fall of the open interest that is known cancels a sweep.
Leaving(s) == Known(s.oi5, s.oi15) # None /\ Known(s.oi5, s.oi15) < -50

\* s.low and s.high are the swept levels the price has returned from.  A sweep of both
\* sides at once counts as one of the low.
Swept(s) == Known(s.low, s.high)

Reclaim(s) == (Magnitude(s.price - Swept(s)) * 10000) \div Swept(s)

StopHuntSweep(s) ==
    LET floor == Greatest(100, (VolumeSpike * 4) \div 5)
    IN  IF s.ratio < floor \/ Leaving(s) \/ Swept(s) = None THEN None
        ELSE Signal(s.low # None,
                    500 + Ratio(s, floor, 200)
                        + ScalePoints(Known(s.oi5, s.oi15), OiChange15m \div 2, 200)
                        + SpreadBonus(s.spread), 50, 150)

MicroStopHuntReclaim(s) ==
    IF s.ratio < 130 \/ Swept(s) = None \/ Leaving(s) THEN None
    ELSE IF Reclaim(s) < 15 THEN None
    ELSE LET oi == Known(s.oi5, s.oi15)
             rising == IF oi = None THEN FALSE ELSE oi > 0
         IN  Signal(s.low # None,
                    500 + ScalePoints(Reclaim(s), 15, 200) + Ratio(s, 130, 200)
                        + (IF rising THEN 50 ELSE 0) + SpreadBonus(s.spread), 40, 120)

FailedBreakoutFade(s) ==
    IF Swept(s) = None THEN None
    ELSE IF Reclaim(s) < 20 \/ s.ratio < 110 THEN None
    ELSE Signal(s.low # None,
                500 + ScalePoints(Reclaim(s), 20, 250) + Ratio(s, 110, 200)
                    + SpreadBonus(s.spread), 50, 130)

\* Named a pullback; the code enters with the move of the last five minutes.
TrendPullbackScalper(s) ==
    IF s.change = None THEN None
    ELSE IF Magnitude(s.change) < 30 \/ s.ratio < 120 THEN None
    ELSE Signal(s.change > 0,
                500 + ScalePoints(Magnitude(s.change), 30, 250) + Ratio(s, 120, 200)
                    + SpreadBonus(s.spread), 40, 100)

-----------------------------------------------------------------------------
\* _direction_for_event: the setup a density event makes, and its direction.
Setup(type) ==
    CASE type \in {"holding", "refilled"} -> "density_bounce"
      [] type = "eaten" -> "density_breakout"
      [] type = "pulled" -> "spoof_pull"
      [] type = "absorbed" -> "absorption"
      [] OTHER -> "unknown"

Long(event) == (event.side = "bid") <=> Setup(event.type) \in {"density_bounce", "absorption"}

TrendAllows(long, trend) ==
    IF long THEN trend >= -DensityRules.minTrend ELSE trend <= DensityRules.minTrend

DensityGates(s, e) ==
    /\ e.size >= DensityRules.minSize
    /\ e.distance <= DensityRules.maxDistance
    /\ e.lifetime >= DensityRules.minLifetime
    /\ DensityRules.needSpike => s.ratio >= DensityRules.spike
    /\ Setup(e.type) # "unknown"
    /\ DensityRules.needTrend => TrendAllows(Long(e), s.trend)
    /\ DensityRules.needAbsorption =>
          e.absorption >= 500 \/ Setup(e.type) \in {"density_breakout", "spoof_pull"}

DensityPoints(s, e) ==
    500 + (IF Setup(e.type) \in {"density_breakout", "absorption"} THEN 200 ELSE 100)
        + (IF s.ratio >= DensityRules.spike THEN 100 ELSE 0)
        + (IF TrendAllows(Long(e), s.trend) THEN 100 ELSE 0)
        + Least(200, e.absorption \div 4)
        + Least(150, (e.eaten * 100) \div 70)
        + Least(100, e.pulled)
        - (IF Setup(e.type) = "spoof_pull" THEN 100 ELSE 0)

DensityStrategy(s) ==
    IF s.event = None THEN None
    ELSE IF ~DensityGates(s, s.event) THEN None
    ELSE Signal(Long(s.event), DensityPoints(s, s.event),
                DensityRules.stop, (DensityRules.stop * DensityRules.takeRR) \div 100)

StrategyNames ==
    {"oi_pump_price_move", "oi_momentum_scalper", "stop_hunt_sweep", "micro_stop_hunt_reclaim",
     "failed_breakout_fade", "trend_pullback_scalper", "density_strategy"}

\* StrategyRegistry.get and generate_signal.
Decision(strategy, s) ==
    CASE strategy = "oi_pump_price_move" -> OIPumpPriceMove(s)
      [] strategy = "oi_momentum_scalper" -> OIMomentumScalper(s)
      [] strategy = "stop_hunt_sweep" -> StopHuntSweep(s)
      [] strategy = "micro_stop_hunt_reclaim" -> MicroStopHuntReclaim(s)
      [] strategy = "failed_breakout_fade" -> FailedBreakoutFade(s)
      [] strategy = "trend_pullback_scalper" -> TrendPullbackScalper(s)
      [] strategy = "density_strategy" -> DensityStrategy(s)
===============================================================================

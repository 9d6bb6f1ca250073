------------------------------- MODULE MCSweep -------------------------------
(* Small instance of Sweep: two timeframes, two parameters of two values. *)
EXTENDS Sweep, SequencesExt

\* What a candle holds once it has closed.
MCClosed(timeframe, at) == 2 * ((at + timeframe) % 2)

\* Which combinations a limit below their number leaves.
MCSampled(total, limit) == {i \in 0..(total - 1) : i % 2 = 1}

\* The first parameter chooses the candles to trade, the second what is earned on a rise.
MCBacktested(parameters, candles, seen, set) ==
    LET taken == SelectSeq(candles, LAMBDA c : c >= parameters[1])
    IN  [i \in DOMAIN taken |-> IF taken[i] = 2 THEN parameters[2] - set.cost ELSE -1]

\* Snapshots and settings that do not change.
MCTuning == [minTrades |-> 1, cost |-> 0]
MCTunings == {MCTuning}

MCSpace == << <<0, 1>>, <<1, 3>> >>
==============================================================================

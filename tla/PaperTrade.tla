----------------------------- MODULE PaperTrade -----------------------------
(***************************************************************************)
(* The life of one virtual position, from the row PaperExecutor inserts to *)
(* the tick that closes it: PaperTradeManager._update_trade and the four   *)
(* helpers it calls, in the order it calls them.                           *)
(*                                                                         *)
(* Prices are integers.  Percentages and multiples of the risk ("R") are   *)
(* integers too, R in hundredths, and every comparison of the code is      *)
(* cross-multiplied, so nothing is rounded while the entry and the prices  *)
(* are multiples of 100.  The size of the position is 100 (per cent of     *)
(* position_size_usd); gains are before fees and slippage.                 *)
(***************************************************************************)
EXTENDS Integers

CONSTANTS
    Entry,            \* entry_price of the plan
    StopPct,          \* stop_loss_pct of the profile when the trade opened
    TakePct,          \* take_profit_pct of the profile when the trade opened
    PartialEnabled,   \* paper.partial_tp.enabled
    FirstTpPct,       \* paper.partial_tp.first_tp_pct
    FirstTargetRR,    \* paper.partial_tp.first_target_rr, in hundredths
    Prices,           \* the prices a tick can carry
    Ages,             \* timestamp - opened_at of a tick, in minutes
    Configs           \* the settings the profile may be given while open

Config == [breakeven: BOOLEAN, breakevenRR: Nat, trailing: BOOLEAN,
           trailingRR: Nat, distance: 0..100, maxHolding: Nat \ {0}]

\* The validators of PaperProfileConfig, and what calculate_paper_plan needs
\* to return a position of positive size.
ASSUME PlanAssumption ==
    /\ Entry \in Nat \ {0}
    /\ StopPct \in 1..100
    /\ TakePct \in 1..100
    /\ (Entry * TakePct) \div 100 > 0

\* first_tp_pct is not validated by the code; 0..100 are its sensible values.
ASSUME PartialAssumption ==
    /\ PartialEnabled \in BOOLEAN
    /\ FirstTpPct \in 0..100
    /\ FirstTargetRR \in Nat

ASSUME FeedAssumption ==
    /\ Prices \subseteq Nat \ {0}
    /\ Ages \subseteq Int
    /\ Configs \subseteq Config

VARIABLES
    dir,          \* trade.direction
    stop,         \* trade.stop_price
    watermark,    \* high_watermark of a LONG, low_watermark of a SHORT
    partial,      \* trade.partial_closed
    remaining,    \* trade.remaining_size_usd, per cent of the position
    status,       \* trade.status
    gain,         \* trade.pnl_usd before fees: price difference * per cent
    cfg           \* settings.paper.profiles[trade.profile_key]

vars == <<dir, stop, watermark, partial, remaining, status, gain, cfg>>

Closed == {"EXPIRED", "CLOSED_TP", "CLOSED_SL"}

-----------------------------------------------------------------------------
Pct(x, p) == (x * p) \div 100

\* Price p is as good as q for the holder of the position, or better.
AtOrBeyond(p, q) == IF dir = "LONG" THEN p >= q ELSE p <= q

Better(p, q) == IF AtOrBeyond(p, q) THEN p ELSE q

\* pnl_for_exit
Gain(exit, size) == IF dir = "LONG" THEN (exit - Entry) * size
                                    ELSE (Entry - exit) * size

\* stop_price and take_price of calculate_paper_plan
PlannedStop(d) == IF d = "LONG" THEN Entry - Pct(Entry, StopPct)
                                ELSE Entry + Pct(Entry, StopPct)

\* Faulty: the direction is forgotten.
TakeAbove == Entry + Pct(Entry, TakePct)

take == IF dir = "LONG" THEN Entry + Pct(Entry, TakePct)
                        ELSE Entry - Pct(Entry, TakePct)

\* _trade_rr(trade, price) >= rr.  The code measures a SHORT's move against
\* the current price, not against the entry.
RRReached(price, rr) ==
    IF dir = "LONG" THEN (price - Entry) * 10000 >= rr * StopPct * Entry
                    ELSE (Entry - price) * 10000 >= rr * StopPct * price

Init ==
    /\ dir \in {"LONG", "SHORT"}
    /\ stop = PlannedStop(dir)
    /\ watermark = Entry
    /\ partial = FALSE
    /\ remaining = 100
    /\ status = "OPEN"
    /\ gain = 0
    /\ cfg \in Configs

-----------------------------------------------------------------------------
\* Faulty: the flag that the partial profit was taken is not looked at.
PartialAgain(price) ==
    PartialEnabled /\ RRReached(price, FirstTargetRR) /\ Pct(remaining, FirstTpPct) > 0

PartialDue(price) ==
    /\ PartialEnabled
    /\ ~partial
    /\ RRReached(price, FirstTargetRR)
    /\ Pct(remaining, FirstTpPct) > 0

\* What _maybe_partial_close leaves of the position, and what it has banked.
Left(price) ==
    IF PartialDue(price) THEN remaining - Pct(remaining, FirstTpPct)
                         ELSE remaining

Banked(price) ==
    IF PartialDue(price) THEN gain + Gain(price, Pct(remaining, FirstTpPct))
                         ELSE gain

\* Faulty: breakeven moves the stop to the entry wherever it was.
BackToEntry(price) ==
    IF cfg.breakeven /\ RRReached(price, cfg.breakevenRR) THEN Entry ELSE stop

\* _maybe_update_breakeven_stop
BreakevenStop(price) ==
    IF cfg.breakeven /\ RRReached(price, cfg.breakevenRR)
    THEN Better(stop, Entry)
    ELSE stop

TrailFrom(mark) ==
    IF dir = "LONG" THEN Pct(mark, 100 - cfg.distance)
                    ELSE Pct(mark, 100 + cfg.distance)

\* _maybe_update_trailing_stop, applied to the stop breakeven has left
TrailedStop(price) ==
    IF cfg.trailing /\ RRReached(price, cfg.trailingRR)
    THEN Better(BreakevenStop(price),
                Better(Entry, TrailFrom(Better(watermark, price))))
    ELSE BreakevenStop(price)

\* The part of _update_trade every tick runs before it looks for an exit.
Manage(price) ==
    /\ status = "OPEN"
    /\ watermark' = Better(watermark, price)
    /\ partial' = (partial \/ PartialDue(price))
    /\ stop' = TrailedStop(price)
    /\ UNCHANGED <<dir, cfg>>

\* _close_trade: a position with nothing left returns before the status is set.
Close(outcome, trigger, price) ==
    IF Left(price) <= 0
    THEN /\ remaining' = Left(price)
         /\ gain' = Banked(price)
         /\ UNCHANGED status
    ELSE /\ remaining' = 0
         /\ gain' = Banked(price) + Gain(trigger, Left(price))
         /\ status' = outcome

Expire(price, age) ==
    /\ age >= cfg.maxHolding
    /\ Manage(price)
    /\ Close("EXPIRED", price, price)

TakeProfit(price, age) ==
    /\ age < cfg.maxHolding
    /\ AtOrBeyond(price, take)
    /\ Manage(price)
    /\ Close("CLOSED_TP", take, price)

\* Faulty: a stop is filled at the price of the tick.
StopAtMarket(price, age) ==
    /\ age < cfg.maxHolding
    /\ ~AtOrBeyond(price, take)
    /\ AtOrBeyond(TrailedStop(price), price)
    /\ Manage(price)
    /\ Close("CLOSED_SL", price, price)

StopOut(price, age) ==
    /\ age < cfg.maxHolding
    /\ ~AtOrBeyond(price, take)
    /\ AtOrBeyond(TrailedStop(price), price)
    /\ Manage(price)
    /\ Close("CLOSED_SL", TrailedStop(price), price)

Hold(price, age) ==
    /\ age < cfg.maxHolding
    /\ ~AtOrBeyond(price, take)
    /\ ~AtOrBeyond(TrailedStop(price), price)
    /\ Manage(price)
    /\ remaining' = Left(price)
    /\ gain' = Banked(price)
    /\ UNCHANGED status

Tick(price, age) ==
    Expire(price, age) \/ TakeProfit(price, age) \/ StopOut(price, age) \/ Hold(price, age)

\* Faulty: a setting is stored without the validators of PaperProfileConfig.
ReconfigureUnchecked ==
    /\ status = "OPEN"
    /\ cfg' = [cfg EXCEPT !.maxHolding = 0]
    /\ UNCHANGED <<dir, stop, watermark, partial, remaining, status, gain>>

\* A settings button replaces the profile's PaperProfileConfig object; the
\* next tick of an open trade reads the new one.
Reconfigure ==
    /\ status = "OPEN"
    /\ cfg' \in Configs \ {cfg}
    /\ UNCHANGED <<dir, stop, watermark, partial, remaining, status, gain>>

Next == Reconfigure \/ \E price \in Prices, age \in Ages : Tick(price, age)

Spec == Init /\ [][Next]_vars
-----------------------------------------------------------------------------
\* Values every variable takes.
TypeOK ==
    /\ dir \in {"LONG", "SHORT"}
    /\ stop \in Int
    /\ watermark \in Nat
    /\ partial \in BOOLEAN
    /\ remaining \in 0..100
    /\ status \in {"OPEN"} \cup Closed
    /\ gain \in Int
    /\ cfg \in Configs

\* The bracket of an open trade stays in order: however often the settings
\* change, neither breakeven nor trailing carries the stop to or past the take
\* price, and the best price seen so far is still short of it (so the code never
\* skips a take-profit it has seen).
BracketOrdered ==
    status = "OPEN" => /\ ~AtOrBeyond(stop, take)
                       /\ ~AtOrBeyond(watermark, take)

\* The bookkeeping of the size: a trade is open exactly while something of it
\* is left, and the partial close has taken its share at most once.
SizeBooked ==
    IF status = "OPEN"
    THEN /\ remaining > 0
         /\ remaining = IF partial THEN 100 - Pct(100, FirstTpPct) ELSE 100
    ELSE remaining = 0

\* A stop-loss close never costs more than the risk the plan was sized for, and
\* nothing at all once the stop has reached the entry (breakeven or trailing,
\* whatever was switched off since); a take-profit close always gains.
ExitsMatchTheirName ==
    /\ status = "CLOSED_SL" => gain >= -100 * Pct(Entry, StopPct)
    /\ (status = "CLOSED_SL" /\ AtOrBeyond(stop, Entry)) => gain >= 0
    /\ status = "CLOSED_TP" => gain > 0

\* The stop only ever moves towards profit, also across a change of settings
\* that switches trailing off or widens its distance.
StopOnlyTightens == [][AtOrBeyond(stop', stop)]_vars
=============================================================================

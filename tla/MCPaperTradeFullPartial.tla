----------------------- MODULE MCPaperTradeFullPartial ------------------------
(* A position whose first target takes all of it, with the age each tick finds. *)
EXTENDS MCPaperTrade

VARIABLE age    \* history: timestamp - opened_at of the last tick, in minutes

MCInit == Init /\ age = 0

MCNext ==
    \/ \E price \in Prices : age' \in Ages /\ age' >= age /\ Tick(price, age')
    \/ Reconfigure /\ UNCHANGED age

MCSpec == MCInit /\ [][MCNext]_<<vars, age>>

\* README.md:483 "Ticks from public market data check TP, SL, timeout, partial TP": what a
\* partial close has left of a trade is closed by the tick that finds it as old as
\* max_holding_minutes (_update_trade, its EXPIRED branch).
TimeoutCloses ==
    [][(partial /\ age' # age /\ age' >= cfg.maxHolding) => status' # "OPEN"]_<<vars, age>>
===============================================================================

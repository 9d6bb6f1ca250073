------------------------------ MODULE LiveTrader ------------------------------
(***************************************************************************)
(* What a simulation over a stored history promises: its closed trades are *)
(* those of a trader who is shown the bars one at a time, keeps at most    *)
(* one position, manages it with each new bar, and decides from the bars   *)
(* seen so far when there is no position.                                  *)
(***************************************************************************)
EXTENDS Integers, Sequences

CONSTANTS
    None,             \* no position
    Decide(_, _),     \* setup, bars seen: the position to take, or None
    Manage(_, _, _),  \* setup, position, new bar: the position, its status set once closed
    AgainAtExit       \* does the bar that closes a position allow a new decision?

\* The trader after one more bar has been added to those seen.  A position that turns out
\* to be void has never been one.
Manages(setup, trader, managed, seen) ==
    IF managed.status = "OPEN" THEN [trader EXCEPT !.position = managed]
    ELSE [closed |-> IF managed.status = "VOID" THEN trader.closed
                     ELSE Append(trader.closed, managed),
          position |-> IF AgainAtExit THEN Decide(setup, seen) ELSE None]

See(setup, trader, seen) ==
    IF trader.position = None THEN [trader EXCEPT !.position = Decide(setup, seen)]
    ELSE Manages(setup, trader, Manage(setup, trader.position, seen[Len(seen)]), seen)

Trader(setup, bars) ==
    LET after[n \in 0..Len(bars)] ==
            IF n = 0 THEN [closed |-> <<>>, position |-> None]
            ELSE LET before == after[n - 1] IN See(setup, before, SubSeq(bars, 1, n))
    IN  after[Len(bars)]

\* The trades closed by the bars.
LiveTrades(setup, bars) == Trader(setup, bars).closed
===============================================================================

----------------------------- MODULE Portfolio ------------------------------
(***************************************************************************)
(* combine of the research package: the candidates of all symbols share    *)
(* one equity.  A candidate is an entry and an exit time, the distance of  *)
(* its stop and its result, both in percent of its notional; it is sized   *)
(* when its turn comes and paid when the first later candidate finds it    *)
(* past its exit.  Money is in whole units, divisions round down.          *)
(***************************************************************************)
EXTENDS Integers, Sequences, FiniteSets, FiniteSetsExt

CONSTANTS
    RiskPct,          \* of the equity, for each trade
    MaxLeverage,      \* of one trade
    MaxGross,         \* max_gross_leverage, of all open trades together
    MaxConcurrent     \* open trades

PortfolioAssumption ==
    RiskPct \in Nat /\ MaxLeverage \in Nat /\ MaxGross \in Nat /\ MaxConcurrent \in Nat

TotalOf(numbers) ==
    LET total[i \in 0..Len(numbers)] == IF i = 0 THEN 0 ELSE total[i - 1] + numbers[i]
    IN  total[Len(numbers)]
NotionalOf(trades) == TotalOf([i \in DOMAIN trades |-> trades[i].notional])
ResultOf(trades) == TotalOf([i \in DOMAIN trades |-> trades[i].pnl])

\* Sorting by a field keeps the order of equal ones: each comes after those that are no later.
Inserted(sorted, item, field) ==
    LET before == Cardinality({k \in DOMAIN sorted : sorted[k][field] <= item[field]})
    IN  [k \in 1..(Len(sorted) + 1) |->
            IF k <= before THEN sorted[k] ELSE IF k = before + 1 THEN item ELSE sorted[k - 1]]
SortedBy(field, items) ==
    LET sorted[n \in 0..Len(items)] ==
            IF n = 0 THEN <<>> ELSE Inserted(sorted[n - 1], items[n], field)
    IN  sorted[Len(items)]
ByEntry(pool) == SortedBy("entry", pool)
ByExit(trades) == SortedBy("exit", trades)

\* The first n of the open trades to exit are paid.
Pay(account, n) ==
    LET queue == ByExit(account.open)
    IN  [account EXCEPT
            !.equity = @ + ResultOf(SubSeq(queue, 1, n)),
            !.open = SubSeq(queue, n + 1, Len(queue)),
            !.trades = @ \o SubSeq(queue, 1, n)]

\* settle: the open trades that have ended are paid.
Settle(account, until) ==
    LET queue == ByExit(account.open)
    IN  Pay(account, Cardinality({k \in DOMAIN queue : queue[k].exit <= until}))

Notional(account, candidate) ==
    Min({(account.equity * RiskPct) \div candidate.stop,
         account.equity * MaxLeverage,
         Max({0, account.equity * MaxGross - NotionalOf(account.open)})})

WithTrade(account, candidate, notional, equity) ==
    [account EXCEPT !.open = Append(@,
        [entry |-> candidate.entry, exit |-> candidate.exit, notional |-> notional,
         equity |-> equity, pnl |-> (notional * candidate.pnl) \div 100])]

\* A candidate that found an equity, after the settlement.
Sized(settled, candidate, notional, equity) ==
    IF Len(settled.open) >= MaxConcurrent \/ candidate.stop <= 0 THEN settled
    ELSE IF equity <= 0 THEN [settled EXCEPT !.stopped = TRUE]
    ELSE IF notional <= 0 THEN settled
    ELSE WithTrade(settled, candidate, notional, equity)

\* A fault: a candidate is sized before the trades that ended are paid.
OfferUnsettled(account, candidate) ==
    IF account.stopped THEN account
    ELSE Sized(Settle(account, candidate.entry), candidate,
               Notional(account, candidate), account.equity)

\* One candidate of the loop.
Offer(account, candidate) ==
    LET settled == Settle(account, candidate.entry)
    IN  IF account.stopped THEN account
        ELSE Sized(settled, candidate, Notional(settled, candidate), settled.equity)

\* combine: the loop, and a last settlement of everything.
Opened(equity) == [equity |-> equity, open |-> <<>>, trades |-> <<>>, stopped |-> FALSE]
Filled(queue, equity) ==
    LET account[i \in 0..Len(queue)] ==
            IF i = 0 THEN Opened(equity) ELSE Offer(account[i - 1], queue[i])
    IN  account[Len(queue)]
PayAll(account) == Pay(account, Len(account.open))
Combine(pool, equity) ==
    LET settled == PayAll(Filled(ByEntry(pool), equity))
    IN  [equity |-> settled.equity, trades |-> ByExit(settled.trades)]

-----------------------------------------------------------------------------
(***************************************************************************)
(* portfolio.py: "real capital is shared, positions compete for it".  The  *)
(* equity a trade was sized on is the initial one and the results of the   *)
(* first trades to exit: of all that had ended by its entry, except some   *)
(* of those that were entered and left in the very bar of its entry.  At   *)
(* no entry are there too many open trades, or more notional than that     *)
(* equity carries.                                                         *)
(***************************************************************************)
Beside(u, t) == u.entry < t.entry /\ u.exit > t.entry
SizedOn(trades, equity) ==
    \A i \in DOMAIN trades :
        LET t == trades[i] IN
        /\ \E n \in 0..(i - 1) :
              /\ t.equity = equity + ResultOf(SubSeq(trades, 1, n))
              /\ \A j \in 1..n : trades[j].exit <= t.entry
              /\ \A j \in (n + 1)..Len(trades) :
                    \/ trades[j].exit > t.entry
                    \/ trades[j].exit = t.entry /\ trades[j].entry = t.entry
        /\ TotalOf([j \in DOMAIN trades |-> IF Beside(trades[j], t) THEN 1 ELSE 0]) < MaxConcurrent
        /\ TotalOf([j \in DOMAIN trades |->
                IF Beside(trades[j], t) THEN trades[j].notional ELSE 0]) + t.notional
              <= t.equity * MaxGross
===============================================================================

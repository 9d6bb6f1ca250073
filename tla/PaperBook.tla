------------------------------ MODULE PaperBook ------------------------------
(***************************************************************************)
(* What the paper book promises, whatever the number of sessions that work *)
(* on it: a profile opens a trade on a signal at most once and only within *)
(* its limits, judged at the moment the trade becomes visible; the trades  *)
(* of one market are settled together; and the row of a closed trade is    *)
(* final.                                                                  *)
(***************************************************************************)
EXTENDS Integers, FiniteSets

CONSTANTS Signals, Profiles, Symbols, SymbolOf, MaxOpen, MaxPerSymbol, EntryFee

VARIABLES status, pnl

book == <<status, pnl>>

Trades == Signals \X Profiles

OpenTrades == {t \in Trades : status[t] = "OPEN"}
OpenOf(p) == {t \in OpenTrades : t[2] = p}
OpenOn(p, s) == {t \in OpenOf(p) : SymbolOf[t[1]] = s}

Init ==
    /\ status = [t \in Trades |-> "NONE"]
    /\ pnl = [t \in Trades |-> 0]

Open(t) ==
    /\ status[t] = "NONE"
    /\ Cardinality(OpenOf(t[2])) < MaxOpen[t[2]]
    /\ Cardinality(OpenOn(t[2], SymbolOf[t[1]])) < MaxPerSymbol[t[2]]
    /\ status' = [status EXCEPT ![t] = "OPEN"]
    /\ pnl' = [pnl EXCEPT ![t] = -EntryFee]

\* Some open trades of one market gain or lose, some of them for the last time.
Settle(s) ==
    LET settled == {t \in OpenTrades : SymbolOf[t[1]] = s}
    IN  /\ \E closed \in SUBSET settled :
             status' = [t \in Trades |-> IF t \in closed THEN "CLOSED" ELSE status[t]]
        /\ DOMAIN pnl' = Trades
        /\ \A t \in Trades \ settled : pnl'[t] = pnl[t]

Next == (\E t \in Trades : Open(t)) \/ (\E s \in Symbols : Settle(s))

Spec == Init /\ [][Next]_book
=============================================================================

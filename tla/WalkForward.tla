----------------------------- MODULE WalkForward -----------------------------
(***************************************************************************)
(* walk_forward: the history is cut into windows, each window picks its    *)
(* parameters on the bars before its test slice and trades the slice with  *)
(* them, and the slices share one equity.  What a strategy offers on a     *)
(* slice (the harness, see Research) and which parameters win on the       *)
(* training slice are arbitrary here; Portfolio makes trades of the offers.*)
(***************************************************************************)
EXTENDS Portfolio

CONSTANTS
    Lengths,        \* lengths of the shortest series
    Fractions,      \* values of train_fraction, in percent
    Windows,        \* windows
    MinBars,        \* bars a window must have at least (20 in the code)
    Offers,         \* offers as bars after the start of the slice, and results
    MaxOffers,      \* bound: offers in one slice
    InitialEquity

VARIABLES shortest, fraction, rolled, reported, forward, capital

walkVars == <<shortest, fraction, rolled, reported, forward, capital>>

\* What the constants must satisfy.  An offer is not left before it is entered.
WalkForwardAssumption ==
    /\ PortfolioAssumption
    /\ Windows \in Nat \ {0} /\ InitialEquity \in Nat \ {0} /\ MinBars \in Nat /\ MaxOffers \in Nat
    /\ Lengths \subseteq Nat /\ Fractions \subseteq 0..100
    /\ \A o \in Offers : /\ o = [entry |-> o.entry, exit |-> o.exit, stop |-> o.stop, pnl |-> o.pnl]
                         /\ o.entry \in Nat /\ o.exit \in Nat /\ o.entry <= o.exit
                         /\ o.stop \in Int /\ o.pnl \in Int

TestSpan == ((shortest * (100 - fraction)) \div 100) \div Windows
TrainSpan == (shortest * fraction) \div 100

\* A fault: the parameters are picked with the test slice in view.
SliceLeaking(k) ==
    LET testEnd == shortest - (Windows - k - 1) * TestSpan
        testStart == testEnd - TestSpan
    IN  [trainStart |-> Max({0, testStart - TrainSpan}), trainEnd |-> testEnd,
         testStart |-> testStart, testEnd |-> testEnd]

Slice(k) ==
    LET testEnd == shortest - (Windows - k - 1) * TestSpan
        testStart == testEnd - TestSpan
    IN  [trainStart |-> Max({0, testStart - TrainSpan}), trainEnd |-> testStart,
         testStart |-> testStart, testEnd |-> testEnd]

\* The harness on a slice: the entry is the bar after a signal, the exit within the slice.
Offered(slice) ==
    LET bars == (slice.testStart + 1)..(slice.testEnd - 1)
        placed == {[o EXCEPT !.entry = slice.testStart + @,
                             !.exit = Min({slice.testStart + @, slice.testEnd - 1})] : o \in Offers}
    IN  {o \in placed : o.entry \in bars}

WalkInit ==
    /\ shortest \in {n \in Lengths : n >= Windows * MinBars}
    /\ fraction \in Fractions
    /\ rolled = 0 /\ reported = <<>> /\ forward = <<>>
    /\ capital = InitialEquity

\* No bars to train on, or no parameters that traded there.
SkipWindow ==
    /\ rolled < Windows
    /\ rolled' = rolled + 1
    /\ UNCHANGED <<shortest, fraction, reported, forward, capital>>

\* The parameters that won on the training slice trade the test slice.
TradeWindow ==
    /\ rolled < Windows
    /\ Slice(rolled).testStart > Slice(rolled).trainStart
    /\ \E n \in 0..MaxOffers : \E pool \in [1..n -> Offered(Slice(rolled))] :
          LET result == Combine(pool, capital)
          IN  /\ capital' = result.equity
              /\ forward' = ByExit(forward \o result.trades)
    /\ reported' = Append(reported, Slice(rolled))
    /\ rolled' = rolled + 1
    /\ UNCHANGED <<shortest, fraction>>

WalkNext == SkipWindow \/ TradeWindow

WalkSpec == WalkInit /\ [][WalkNext]_walkVars

-----------------------------------------------------------------------------
(***************************************************************************)
(* walkforward.py: "The point is to never report a number that was chosen  *)
(* with knowledge of the period it is reported on", "every step trades the   *)
(* same amount of unseen data", and the equity is "the one an account       *)
(* would actually have experienced".                                       *)
(***************************************************************************)
OutOfSample ==
    /\ \A i \in DOMAIN reported :
          LET w == reported[i]
          IN  /\ 0 <= w.trainStart /\ w.trainStart < w.trainEnd /\ w.trainEnd <= w.testStart
              /\ w.testEnd - w.testStart = TestSpan /\ w.testEnd <= shortest
              /\ \A j \in 1..(i - 1) : reported[j].testEnd <= w.testStart
    /\ \A i \in DOMAIN forward : \E j \in DOMAIN reported :
          forward[i].entry > reported[j].testStart /\ forward[i].exit < reported[j].testEnd
    /\ capital = InitialEquity + ResultOf(forward)

\* The trades of all slices together are sized as those of one account.
SizedOnSettledEquity == SizedOn(forward, InitialEquity)

WalkTypeOK ==
    /\ shortest \in Lengths /\ fraction \in Fractions /\ rolled \in 0..Windows
    /\ Len(reported) <= rolled /\ capital \in Int
===============================================================================

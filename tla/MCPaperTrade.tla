---------------------------- MODULE MCPaperTrade ----------------------------
(* Small instance of PaperTrade: 2 % stop, 6 % take, prices in steps of 1 %. *)
EXTENDS PaperTrade

Setting(be, beRR, tr, trRR, dist) ==
    [breakeven |-> be, breakevenRR |-> beRR, trailing |-> tr,
     trailingRR |-> trRR, distance |-> dist, maxHolding |-> 2]

\* Everything off; the shipped defaults; a wide and a tight trailing stop.
MCConfigs == { Setting(FALSE, 100, FALSE, 150, 1), Setting(TRUE, 100, TRUE, 150, 2),
               Setting(TRUE, 50, FALSE, 100, 1), Setting(FALSE, 100, TRUE, 0, 0) }

MCPrices == {9400, 9600, 9700, 9800, 9900, 10000, 10100, 10200, 10300, 10400, 10500,
             10600, 10700}
MCAges == 1..2
=============================================================================

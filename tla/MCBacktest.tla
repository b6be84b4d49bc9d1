----------------------------- MODULE MCBacktest -----------------------------
(* Two risky symbols over a few bars, prices that fall through the overlay's *)
(* classes, a deposit, and two allocations that need sells and buys.         *)
EXTENDS Backtest

Pair(a, b) == [s \in {1, 2} |-> IF s = 1 THEN a ELSE b]

MCMoves == {Pair(100, 100), Pair(75, 75), Pair(90, 104), Pair(106, 85)}
MCAllocations == {Pair(60, 40), Pair(20, 30)}
MCLevels == {-500, -1000, -1500, -2000}
=============================================================================

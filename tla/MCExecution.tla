---------------------------- MODULE MCExecution ----------------------------
(* Two symbols, one traded in lots, prices that move and a quote that fails. *)
EXTENDS Execution

Pair(a, b) == [s \in {1, 2} |-> IF s = 1 THEN a ELSE b]

MCLot == Pair(1, 10)
MCPrices == {Pair(4, 30), Pair(5, 26), Pair(4, 0)}
MCTargets == {Pair(2030, 3000), Pair(0, 10000)}
=============================================================================

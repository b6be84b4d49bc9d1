-------------------------- MODULE MCAllocationPolicy --------------------------
(* An index and gold in the core, bitcoin in the alternatives, and cash. *)
EXTENDS AllocationPolicy

CONSTANTS EQ, GOLD, BTC, CASH_CNY

MCSymbols == {EQ, GOLD, BTC, CASH_CNY}
MCSleeve == [s \in MCSymbols |->
  CASE s = BTC -> "alternative" [] s = CASH_CNY -> "cash" [] OTHER -> "core"]
Of4(eq, gold, btc, cash) == [s \in MCSymbols |->
  CASE s = EQ -> eq [] s = GOLD -> gold [] s = BTC -> btc [] OTHER -> cash]
MCMinWeight == Of4(0, 0, 0, 500)
MCMaxWeight == Of4(WHOLE, 1500, WHOLE, WHOLE)
MCSleeveBounds == <<[name |-> "core", lower |-> 4500, upper |-> 8000],
                    [name |-> "alternative", lower |-> 0, upper |-> 500]>>
MCBaseWeights == Of4(6000, 1200, 300, 2500)
MCTilts == {17, 100, 216}
MCScales == {40, 100}
MCOpening == {Of4(0, 0, 0, WHOLE), Of4(5500, 1200, 300, 3000), Of4(2000, 4000, 4000, 0)}
MCMoves == {Of4(1, 2, 2, 2), Of4(2, 2, 6, 2)}
=============================================================================

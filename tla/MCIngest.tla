------------------------------ MODULE MCIngest ------------------------------
(* One symbol of AKShare, two of Tiingo, one of Yahoo Finance. *)
EXTENDS Ingest

CONSTANTS CSI300, SP500, GOLD, BTC, Old, New

MCSymbols == {CSI300, SP500, GOLD, BTC}
MCProvider == [s \in MCSymbols |->
  CASE s = CSI300 -> "akshare" [] s = BTC -> "yfinance" [] OTHER -> "tiingo"]
MCRanges == {Old, New}
MCRequests == {{CSI300, BTC}, {SP500, GOLD}}
MCAKShareRequests == {{CSI300}}
MCMaxRetries == [p \in Providers |-> IF p = "yfinance" THEN 3 ELSE 2]
=============================================================================

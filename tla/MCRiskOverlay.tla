--------------------------- MODULE MCRiskOverlay ---------------------------
(* The overlay on drawdowns at and beside every threshold of DD_THRESHOLDS. *)
EXTENDS RiskOverlay

MCDrawdowns == {0, -599, -600, -800, -1000, -1500, -2500, -3000}
=============================================================================

-------------------------- MODULE MCFactorWindows --------------------------
(* Three instruments with gaps of their own, two of them in one market. *)
EXTENDS FactorWindows

MCMarkets == {{"a", "b"}, {"c"}}
MCSeen == {{"a", "b", "c"}, {"a"}, {"b", "c"}, {"a", "b"}}
=============================================================================

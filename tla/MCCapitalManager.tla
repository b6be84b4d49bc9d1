-------------------------- MODULE MCCapitalManager --------------------------
(* One pool, as the code makes it, or two that hold different amounts. *)
EXTENDS CapitalManager

Pools(cny, usd) == [c \in {"CNY", "USD"} |-> IF c = "CNY" THEN cny ELSE usd]

MCPools == {Pools(1000, None), Pools(900, 100)}
MCOnePool == {[c \in {"CNY"} |-> 1000]}
=============================================================================

----------------------------- MODULE Constraints -----------------------------
(***************************************************************************)
(* portfolio/constraints: what apply makes of wished weights, pass by      *)
(* pass, and what check finds wrong with weights.  Weights are basis       *)
(* points; there is one cash symbol, as in every portfolio of the program. *)
(***************************************************************************)
EXTENDS Bounds, Integers, SequencesExt

CONSTANTS
  Symbols,
  CASH,           \* the cash symbol
  Sleeve,         \* the sleeve of each symbol
  MinWeight, MaxWeight,
  SleeveBounds,   \* the sleeves with bounds in their order: name, lower, upper
  MaxTurnover,    \* in basis points
  MinCash,
  Equities,       \* the symbols that count as equity
  MaxEquity

WHOLE == 10000
Weights == [Symbols -> 0..WHOLE]
Risky == Symbols \ {CASH}

ASSUME ConstraintsAssumption ==
  /\ IsFiniteSet(Symbols) /\ CASH \in Symbols /\ Equities \subseteq Symbols
  /\ MinWeight \in Weights /\ MaxWeight \in Weights
  /\ SleeveBounds \in Seq(Range(SleeveBounds))
  /\ \A i \in DOMAIN SleeveBounds :
       /\ {SleeveBounds[i].lower, SleeveBounds[i].upper} \subseteq Nat
       /\ SleeveBounds[i].lower <= SleeveBounds[i].upper
       /\ \A j \in DOMAIN SleeveBounds : SleeveBounds[i].name = SleeveBounds[j].name => i = j
  /\ MaxTurnover \in 1..WHOLE /\ MinCash \in 0..WHOLE /\ MaxEquity \in 0..WHOLE

Of(sleeve) == {s \in Symbols : Sleeve[s] = sleeve}
Total(w, members) == SumFunctionOnSet(w, members)
Positive(x) == Greatest(x, 0)
Size(x) == Greatest(x, -x)

\* x * a / b without its fraction, whatever the sign of x.
Part(x, a, b) == IF x >= 0 THEN (x * a) \div b ELSE -((-x * a) \div b)

-----------------------------------------------------------------------------
(* The passes of apply. *)

Bounded(w) == [s \in Symbols |-> Greatest(MinWeight[s], Least(MaxWeight[s], w[s]))]

\* A sleeve below its lower bound gets equal shares of the cash there is.
Topped(w, members, deficit) ==
  LET share == Least(deficit, Positive(w[CASH])) \div Cardinality(members)
      added == [s \in Symbols |-> IF s \in members THEN w[s] + share ELSE w[s]]
  IN [added EXCEPT ![CASH] = Positive(@ - share * Cardinality(members))]

\* Fault: the members of a sleeve above its bound are multiplied by total / upper.
WithinSleeve_Inverted(w, bound) ==
  LET members == Of(bound.name)
      total == Total(w, members)
  IN IF members = {} THEN w
     ELSE IF total > bound.upper
     THEN [s \in Symbols |->
            IF s \in members THEN Part(w[s], total, bound.upper) ELSE w[s]]
     ELSE IF total < bound.lower THEN Topped(w, members, bound.lower - total)
     ELSE w

WithinSleeve(w, bound) ==
  LET members == Of(bound.name)
      total == Total(w, members)
  IN IF members = {} THEN w
     ELSE IF total > bound.upper
     THEN [s \in Symbols |->
            IF s \in members THEN Part(w[s], bound.upper, total) ELSE w[s]]
     ELSE IF total < bound.lower THEN Topped(w, members, bound.lower - total)
     ELSE w

\* One bound after the other, in their order.
WithinSleeves(w) ==
  LET passed[i \in 0..Len(SleeveBounds)] ==
        IF i = 0 THEN w ELSE WithinSleeve(passed[i - 1], SleeveBounds[i])
  IN passed[Len(SleeveBounds)]

\* Twice the turnover between two portfolios: what is bought and what is sold.
Traded(w, current) ==
  Total([s \in Symbols |-> Size(w[s] - current[s])], Symbols)

\* current + (w - current) * a / b.
Towards(w, current, a, b) == [s \in Symbols |-> current[s] + Part(w[s] - current[s], a, b)]

\* Fault: twice the turnover is taken for the turnover.
WithinTurnover_Doubled(w, current) ==
  LET traded == Traded(w, current)
  IN IF MaxTurnover < WHOLE /\ traded > 2 * MaxTurnover
     THEN Towards(w, current, MaxTurnover, traded) ELSE w

\* Fault: the turnover is halved twice.
WithinTurnover_Halved(w, current) ==
  LET traded == Traded(w, current)
  IN IF MaxTurnover < WHOLE /\ traded > 4 * MaxTurnover
     THEN Towards(w, current, 4 * MaxTurnover, traded) ELSE w

\* Fault: the fraction is upside down.
WithinTurnover_Inverted(w, current) ==
  LET traded == Traded(w, current)
  IN IF MaxTurnover < WHOLE /\ traded > 2 * MaxTurnover
     THEN Towards(w, current, traded, 2 * MaxTurnover) ELSE w

\* Too large a turnover is cut to the limit, by moving only part of the way.
WithinTurnover(w, current) ==
  LET traded == Traded(w, current)
  IN IF MaxTurnover < WHOLE /\ traded > 2 * MaxTurnover
     THEN Towards(w, current, 2 * MaxTurnover, traded) ELSE w

\* Cash is what the risky symbols leave of the whole.
WithCash(risky) ==
  [s \in Symbols |-> IF s = CASH THEN WHOLE - Total(risky, Risky) ELSE risky[s]]

\* Long only, the risky symbols at most the whole, and cash what is left.
Normalised(w) ==
  LET long == [s \in Symbols |-> Positive(w[s])]
      risky == Total(long, Risky)
      cut == [s \in Risky |->
               IF risky > WHOLE THEN Part(long[s], WHOLE, risky) ELSE long[s]]
  IN WithCash(cut)

\* apply without the weights held now, and with them.
Enforced(wish) == Normalised(WithinSleeves(Bounded(wish)))
Apply(wish, current) ==
  Normalised(WithinTurnover(WithinSleeves(Bounded(wish)), current))

-----------------------------------------------------------------------------
(* check: the errors; the bounds of markets and currencies only warn. *)

\* How far weights are outside each limit of check, in basis points.
Excess(w) ==
  LET sleeves == {SleeveBounds[i] : i \in {j \in DOMAIN SleeveBounds :
                    Of(SleeveBounds[j].name) # {}}}
  IN {<<"weight_sum", Size(Total(w, Symbols) - WHOLE)>>,
      <<"leverage", Max({Positive(-w[s]) : s \in Symbols})>>,
      <<"min_cash", Positive(MinCash - w[CASH])>>,
      <<"max_equity", Positive(Total(w, Equities) - MaxEquity)>>}
     \cup {<<"max_weight", Positive(w[s] - MaxWeight[s])>> : s \in Symbols}
     \cup {<<"min_weight", Positive(MinWeight[s] - w[s])>> : s \in Symbols}
     \cup {<<"sleeve_upper", Positive(Total(w, Of(b.name)) - b.upper)>> : b \in sleeves}
     \cup {<<"sleeve_lower", Positive(b.lower - Total(w, Of(b.name)))>> : b \in sleeves}

\* The checks that fail by more than a tolerance.
Check(w, tolerance) == {e[1] : e \in {x \in Excess(w) : x[2] > tolerance}}
=============================================================================

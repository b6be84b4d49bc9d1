--------------------------- MODULE AllocationPolicy ---------------------------
(***************************************************************************)
(* allocation/policy: the optimizer's wish, tilted by signals and scaled   *)
(* by volatility, brought within the constraints from the weights held.    *)
(* A portfolio follows its wish from one rebalance to the next while the   *)
(* market moves its weights and the signals its wish.                      *)
(***************************************************************************)
EXTENDS Constraints

CONSTANTS
  BaseWeights,
  Tilts,       \* percents that a base weight may be multiplied by
  Scales,      \* percents of risk that the volatility leaves, at most 100
  Opening,     \* the portfolios to start from
  Moves,       \* price moves: halves of each symbol's price
  MaxEvents,   \* bound on the moves and the new signals together
  Dust         \* what truncation adds up to, in basis points

ASSUME PolicyAssumption ==
  /\ BaseWeights \in Weights
  /\ Tilts \subseteq Nat /\ Scales \subseteq 1..100
  /\ Opening \subseteq {w \in Weights : Total(w, Symbols) = WHOLE}
  /\ Moves \subseteq [Symbols -> Nat \ {0}]
  /\ MaxEvents \in Nat /\ Dust \in Nat

VARIABLES
  weights,   \* the portfolio held
  wish,      \* what the optimizer asks for
  events,
  rest       \* history: rebalances since the market or the signals last moved

policyVars == <<weights, wish, events, rest>>

\* The rebalances that the turnover limit needs for the whole portfolio, and one.
Enough == WHOLE \div MaxTurnover + 1

\* compute_raw_weights: base weights times the multiplier of the signals, all of
\* them scaled by the volatility, and the rest in cash.
RawWeights(tilt, scale) ==
  LET risky == [s \in Risky |-> (BaseWeights[s] * tilt[s] * scale) \div 10000]
      raw == WithCash(risky)
  IN [raw EXCEPT ![CASH] = Positive(@)]

Wishes == {RawWeights(tilt, scale) : tilt \in [Risky -> Tilts], scale \in Scales}

\* generate_target_weights, and the trades that reach the target.
Rebalance ==
  /\ weights' = Apply(wish, weights)
  /\ rest' = Least(rest + 1, Enough)
  /\ UNCHANGED <<wish, events>>

\* New signals or a new volatility.
Signal ==
  /\ events < MaxEvents
  /\ wish' \in Wishes \ {wish}
  /\ events' = events + 1 /\ rest' = 0
  /\ UNCHANGED weights

\* Prices move; cash is the rest of the whole.
Drift(move) ==
  LET value == [s \in Symbols |-> weights[s] * move[s]]
      worth == Total(value, Symbols)
      drifted == [s \in Risky |-> Part(value[s], WHOLE, worth)]
  IN /\ events < MaxEvents
     /\ weights' = WithCash(drifted)
     /\ events' = events + 1 /\ rest' = 0
     /\ UNCHANGED wish

PolicyInit ==
  /\ weights \in Opening
  /\ wish \in Wishes
  /\ events = 0 /\ rest = 0

PolicyNext == Rebalance \/ Signal \/ \E move \in Moves : Drift(move)

PolicySpec == PolicyInit /\ [][PolicyNext]_policyVars

-----------------------------------------------------------------------------
(* Properties *)

\* Weights are long and add up to the whole, after every pass and every move.
PolicyTypeOK ==
  /\ weights \in Weights /\ Total(weights, Symbols) = WHOLE
  /\ wish \in [Symbols -> Nat]
  /\ events \in 0..MaxEvents /\ rest \in 0..Enough

\* docs/09 par. 5: the turnover limit.  The code does not keep this: the limit is on
\* weights that need not add up, and the passes after it leave the rest to cash.
TurnoverWithinLimit ==
  [][wish' = wish /\ events' = events =>
       Traded(weights', weights) <= 2 * MaxTurnover + Dust]_policyVars

\* How far the weights that the limit is applied to are from adding up to the whole.
Astray(w) == Size(Total(WithinSleeves(Bounded(w)), Symbols) - WHOLE)

\* What holds of it: a wish that adds up within the bounds is followed within the
\* limit, but for truncation; else the passes after the limit add what it is
\* astray, and never more than the limit again.
TurnoverBounded ==
  [][wish' = wish /\ events' = events =>
       Traded(weights', weights) <=
         2 * MaxTurnover + Least(2 * MaxTurnover, Astray(wish)) + 3 * Dust + 1]_policyVars

\* A portfolio that passes the check is left passing it when the wish does too:
\* no pass of apply, nor the way between the two, breaks a limit they both keep.
FeasibleStaysFeasible ==
  [][wish' = wish /\ events' = events =>
       (Check(weights, 0) = {} /\ Check(wish, 0) = {} =>
          Check(weights', Dust) = {})]_policyVars

\* How far a bounded sleeve is above its upper bound.
Overweight(w, i) ==
  Positive(Total(w, Of(SleeveBounds[i].name)) - SleeveBounds[i].upper)

\* A rebalance brings no sleeve further above its upper bound than the portfolio
\* was, whatever the passes for the other sleeves top up and cut in between.
OverweightNeverGrows ==
  [][wish' = wish /\ events' = events =>
       \A i \in DOMAIN SleeveBounds :
         Overweight(weights', i) <= Overweight(weights, i) + Dust]_policyVars

\* When signals and market rest, the portfolio arrives at the weights that apply
\* gives without a turnover limit, in the rebalances that the limit needs for the
\* whole of it: the limit delays and does nothing else, and on the way the
\* weights stay long and add up to the whole.
Arrives == PolicyTypeOK /\ (rest = Enough => Traded(weights, Enforced(wish)) <= 2 * Dust)
=============================================================================

--------------------------- MODULE FactorWindows ----------------------------
(***************************************************************************)
(* The factors of factors/ as chains of pandas operations on histories     *)
(* that grow by a bar at a time.  A bar names the instruments it has a     *)
(* price for.  A series maps the dates it has a value on to the            *)
(* observations the value is computed from: they stand for the value,      *)
(* which is a function of them, and a date outside the domain is missing.  *)
(* Windows have the names of the code's day counts.                        *)
(***************************************************************************)
EXTENDS Bounds, Integers, Sequences, FiniteSets

CONSTANTS
  Instruments,
  RiskFree,                                 \* the column that serves as risk-free rate
  Markets,                                  \* MarketSpecificPercentile.markets: sets of instruments
  D20, D21, D60, D63, D126, D200, D252,     \* windows, in bars
  D756, D1260, D2520,
  Min10, Min20, Min60, Min252,              \* min_periods
  Seen,                                     \* the instruments a bar may have prices for
  MaxBars                                   \* length of the longest history (bound)

ASSUME WindowAssumption ==
  /\ {D20, D21, D60, D63, D126, D200, D252, D756, D1260, D2520,
      Min10, Min20, Min60, Min252} \subseteq Nat \ {0}
  /\ RiskFree \in Instruments
  /\ Markets \subseteq SUBSET Instruments
  /\ \A m, k \in Markets : m = k \/ m \cap k = {}
  /\ Seen \subseteq SUBSET Instruments
  /\ MaxBars \in Nat

VARIABLE history       \* the bars so far, each with its identity and the instruments seen

Bars == [bar : Nat, seen : SUBSET Instruments]

Init == history = <<>>

\* The next bar of data, with prices for some of the instruments.
Extend(seen) ==
  /\ Len(history) < MaxBars
  /\ history' = Append(history, [bar |-> Len(history) + 1, seen |-> seen])

Next == \E seen \in Seen : Extend(seen)

Spec == Init /\ [][Next]_history

-----------------------------------------------------------------------------
(* pandas, on series over the first n dates *)

Dates(h) == 1..Len(h)

Column(h, i) ==
  [t \in {d \in Dates(h) : i \in h[d].seen} |-> {<<i, h[t].bar>>}]

Nowhere == [t \in {} |-> {}]
Zero(n) == [t \in 1..n |-> {}]

\* Arithmetic: missing where either side is.
Both(x, y) == [t \in DOMAIN x \cap DOMAIN y |-> x[t] \cup y[t]]

At(x, t) == IF t \in DOMAIN x THEN x[t] ELSE {}

\* add(..., fill_value=0), and where(..., 0.0) of a comparison: a missing side counts as zero.
Filled(x, y) == [t \in DOMAIN x \cup DOMAIN y |-> At(x, t) \cup At(y, t)]

Shift(x, k, n) == [t \in {d \in 1..n : d - k \in DOMAIN x} |-> x[t - k]]

PctChange(x, k, n) == Both(x, Shift(x, k, n))

\* The dates of a window that have a value.
InWindow(x, w, t) == {d \in DOMAIN x : t - w < d /\ d <= t}

\* rolling(w, min_periods=least) with an aggregate that skips missing values.
Rolling(x, w, least, n) ==
  [t \in {d \in 1..n : Cardinality(InWindow(x, w, d)) >= least} |->
     UNION {x[d] : d \in InWindow(x, w, t)}]

Expanding(x, n) == Rolling(x, n, 1, n)

\* The last w of the given dates up to t: the window of a frame whose other rows were dropped.
LastOf(dates, w, t) ==
  {d \in dates : d <= t /\ Cardinality({e \in dates : d < e /\ e <= t}) < w}

\* rolling over the kept rows, with an aggregate that needs the value of the day (rank).
RollingKept(x, kept, w, least) ==
  LET Used(t) == LastOf(kept, w, t) \cap DOMAIN x
  IN [t \in {d \in DOMAIN x : Cardinality(Used(d)) >= least} |->
        UNION {x[d] : d \in Used(t)}]

UpTo(x, t) == {d \in DOMAIN x : d <= t}
Latest(dates) == CHOOSE d \in dates : \A e \in dates : e <= d

\* Fault: gaps are filled from the next observation.
FFill_Backward(x, n) ==
  LET From(t) == {d \in DOMAIN x : d >= t}
  IN [t \in {d \in 1..n : From(d) # {}} |-> x[CHOOSE d \in From(t) : \A e \in From(t) : d <= e]]
FFill(x, n) == [t \in {d \in 1..n : UpTo(x, d) # {}} |-> x[Latest(UpTo(x, t))]]

\* rolling_zscore
ZScore(x, w, n) == Both(x, Rolling(x, w, Greatest(Min20, w \div 3), n))

-----------------------------------------------------------------------------
(* Trend factors of one instrument *)

Returns(x, n) == PctChange(x, 1, n)

\* _BaseMomentum._momentum; the legacy factor wants a full window of returns.
Momentum(x, period, least, n) ==
  Both(PctChange(x, period, n), Rolling(Returns(x, n), period, least, n))

Momentum12m1m(x, n) ==
  Both(Both(PctChange(x, D252, n), PctChange(x, D21, n)),
       Rolling(Returns(x, n), D252, Min60, n))

MovingAverage(x, n) == Rolling(x, D200, Greatest(1, D200 \div 2), n)
MASignal(x, n) == Both(x, MovingAverage(x, n))

MASlope(x, n) ==
  Both(PctChange(MovingAverage(x, n), D20, n), Shift(x, D20, n))

\* The momenta and the moving average, each counting as zero until it exists.
Consensus(x, least, n) ==
  Filled(Filled(Filled(Filled(Zero(n),
    Momentum(x, D63, least[D63], n)), Momentum(x, D126, least[D126], n)),
    Momentum(x, D252, least[D252], n)), MASignal(x, n))

DistanceFromHigh(x, n) == Both(x, Rolling(x, D252, 1, n))
DownsideTrendStrength(x, n) == Rolling(Returns(x, n), D60, Min10, n)

TrendFactors(x, n) ==
  LET Half(period) == Greatest(1, period \div 2)
      Halves == [period \in {D63, D126, D252} |-> Half(period)]
      Whole == [period \in {D63, D126, D252} |-> period]
  IN [momentum_3m |-> Momentum(x, D63, Half(D63), n),
      momentum_6m |-> Momentum(x, D126, Half(D126), n),
      momentum_12m |-> Momentum(x, D252, Half(D252), n),
      momentum_12m1m |-> Momentum12m1m(x, n),
      ma_signal |-> MASignal(x, n),
      distance_from_high |-> DistanceFromHigh(x, n),
      trend_consensus |-> Consensus(x, Halves, n),
      ma_slope |-> MASlope(x, n),
      downside_trend_strength |-> DownsideTrendStrength(x, n),
      trend_legacy |-> Consensus(x, Whole, n)]

-----------------------------------------------------------------------------
(* Risk factors of one instrument *)

Volatility(x, window, least, n) == Rolling(Returns(x, n), window, least, n)

\* A missing return counts as one that is not negative.
DownsideVolatility(x, n) == Rolling(Filled(Zero(n), Returns(x, n)), D60, Min20, n)

\* Drawdown from the highest price of the whole history.
Underwater(x, n) == Both(x, Expanding(x, n))

MaxDrawdown(x, n) == Rolling(Underwater(x, n), D252, 1, n)
HistoricalVaR(x, n) == Rolling(Returns(x, n), D252, Min60, n)
UlcerIndex(x, n) == Rolling(Underwater(x, n), D252, Min20, n)

\* Over the days with a return; nothing before there are 60 of them.
ExpectedShortfall(x, n) ==
  LET ret == Returns(x, n)
  IN IF Cardinality(DOMAIN ret) < Min60 THEN Nowhere
     ELSE RollingKept(ret, DOMAIN ret, D252, Min60)

RiskFactors(x, n) ==
  [volatility_20d |-> Volatility(x, D20, Min10, n),
   volatility_60d |-> Volatility(x, D60, Min20, n),
   volatility_252d |-> Volatility(x, D252, Min60, n),
   volatility_legacy |-> Volatility(x, D60, Greatest(Min20, D60 \div 3), n),
   downside_volatility |-> DownsideVolatility(x, n),
   max_drawdown |-> MaxDrawdown(x, n),
   historical_var |-> HistoricalVaR(x, n),
   ulcer_index |-> UlcerIndex(x, n),
   expected_shortfall |-> ExpectedShortfall(x, n)]

-----------------------------------------------------------------------------
(* Value factors of one instrument, on a valuation metric *)

\* Nothing until half of the lookback is there, then all dates at once.
HistoricalPercentile(x) ==
  IF Cardinality(DOMAIN x) < D1260 \div 2 THEN Nowhere
  ELSE RollingKept(x, DOMAIN x, D1260, Min60)

\* Fault: the metric is averaged over the whole history.
CapeApproximation_Whole(x, n) ==
  [t \in DOMAIN FFill(x, n) |-> UNION {x[d] : d \in DOMAIN x}]
CapeApproximation(x, n) ==
  ZScore(Rolling(FFill(x, n), D1260, Min252, n), D1260, n)

Yield(x, n) == ZScore(FFill(x, n), D756, n)

\* The yield less a rate that is carried forward, the difference carried forward in turn.
EquityRiskPremium(x, rate, n) == ZScore(FFill(Both(x, FFill(rate, n)), n), D756, n)

\* The premium over the constant rate of the default, and over a rate that is given.
ValueFactors(x, rate, n) ==
  [pe_earnings_yield |-> Yield(x, n),
   pb_inverse |-> Yield(x, n),
   dividend_yield |-> Yield(x, n),
   historical_percentile |-> HistoricalPercentile(x),
   equity_risk_premium |-> EquityRiskPremium(x, Zero(n), n),
   equity_premium_over_rate |-> EquityRiskPremium(x, rate, n),
   cape_approximation |-> CapeApproximation(x, n)]

-----------------------------------------------------------------------------
(* Factors of several columns; for the composites the columns are the metrics *)

\* The sum of weighted scores, a missing one counting as zero.
Composite(scores) ==
  [t \in UNION {DOMAIN scores[i] : i \in Instruments} |->
     UNION {At(scores[i], t) : i \in Instruments}]

\* robust_cross_sectional_zscore: a lone value has no deviation from its median.
CrossSectional(c, i) ==
  [t \in {d \in DOMAIN c[i] : \E j \in Instruments \ {i} : d \in DOMAIN c[j]} |->
     UNION {At(c[j], t) : j \in Instruments}]

\* The mean over all pairs, missing as long as one pair is.
AverageCorrelation(c, n) ==
  LET pairs == {p \in Instruments \X Instruments : p[1] # p[2]}
      Joint(p) == Rolling(Both(Returns(c[p[1]], n), Returns(c[p[2]], n)), D60, Min20, n)
  IN [t \in {d \in 1..n : pairs # {} /\ \A p \in pairs : d \in DOMAIN Joint(p)} |->
        UNION {Joint(p)[t] : p \in pairs}]

\* Over the days on which every column has a return: a single zero on the
\* last date while they are too few, then zeros until the window is full.
MarginalRisk(c, n) ==
  LET ret == [i \in Instruments |-> Returns(c[i], n)]
      kept == {d \in 1..n : \A i \in Instruments : d \in DOMAIN ret[i]}
      Window(t) == LastOf(kept, D60, t)
  IN IF Cardinality(kept) < D60 THEN [t \in {d \in 1..n : d = n} |-> {}]
     ELSE [t \in kept |->
             IF Cardinality(Window(t)) < D60 THEN {}
             ELSE UNION {ret[i][d] : i \in Instruments, d \in Window(t)}]

\* The percentile within the days on which the market of the column is open.
MarketPercentile(c, i, n) ==
  LET market == CHOOSE m \in Markets : i \in m
  IN IF i \in UNION Markets
     THEN RollingKept(c[i], UNION {DOMAIN c[j] : j \in market}, D1260, Min60)
     ELSE Nowhere

CrossFactors(c, i, n) ==
  [valuation_composite |-> Composite([j \in Instruments |-> ZScore(FFill(c[j], n), D756, n)]),
   valuation_legacy |-> Composite([j \in Instruments |-> ZScore(c[j], D2520, n)]),
   cross_sectional_value |-> CrossSectional(c, i),
   rolling_correlation |-> AverageCorrelation(c, n),
   marginal_risk_contribution |-> MarginalRisk(c, n),
   market_percentile |-> MarketPercentile(c, i, n)]

\* All factors of an instrument on a history.
Factors(h, i) ==
  LET n == Len(h)
      x == Column(h, i)
  IN [trend |-> TrendFactors(x, n),
      risk |-> RiskFactors(x, n),
      value |-> ValueFactors(x, Column(h, RiskFree), n),
      cross |-> CrossFactors([j \in Instruments |-> Column(h, j)], i, n)]

-----------------------------------------------------------------------------
(* Properties *)

Agree(x, y) == \A t \in DOMAIN x \cap DOMAIN y : x[t] = y[t]

\* P(old, new) of every factor's series on two histories.
OnAllFactors(P(_, _), h, k) ==
  \A i \in Instruments :
    LET old == Factors(h, i)
        new == Factors(k, i)
    IN \A kind \in DOMAIN old : \A f \in DOMAIN old[kind] : P(old[kind][f], new[kind][f])

\* A value once published for a date is never revised by later bars: no
\* factor looks ahead, through windows, gaps, fills and percentiles
\* (docs/09 par. 1: a backtest sees what was known on the day).
PublishedStands == [][OnAllFactors(Agree, history, history')]_history

\* A date that was left without a value stays without it, and a value stays
\* published, once a factor has values beyond the current date.  The
\* percentile fills all its earlier dates when half of its lookback is there,
\* and the marginal risk drops its placeholder when its window is full: both
\* had nothing before the current date.
Settled(old, new) ==
  \/ DOMAIN old \subseteq {Len(history)}
  \/ DOMAIN old = DOMAIN new \cap Dates(history)
GapsStay == [][OnAllFactors(Settled, history, history')]_history

=============================================================================

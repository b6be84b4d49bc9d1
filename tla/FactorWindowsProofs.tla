------------------------ MODULE FactorWindowsProofs ------------------------
(***************************************************************************)
(* No factor revises what it has published or fills what it has left out,  *)
(* for every choice of windows, every number of instruments and markets    *)
(* and histories of every length.  One relation carries the proofs: two    *)
(* series, on n and on m dates, are the same up to a cutoff c.  Every      *)
(* pandas operation the factors are chained from keeps it (section 1), so  *)
(* the factors do (section 2), but for three that wait for a number of     *)
(* observations and stand for another reason (section 3).  The columns of  *)
(* a history and of its extension are the same up to the old end, from     *)
(* which both theorems follow (section 4).                                 *)
(***************************************************************************)
EXTENDS FactorWindows, FiniteSetTheorems, WellFoundedInduction, TLAPS

Bounds(c, n, m) == c \in Nat /\ n \in Nat /\ m \in Nat /\ c <= n /\ c <= m

\* Series x and y, on n and m dates, are the same up to c.
Same(x, y, c, n, m) ==
  /\ DOMAIN x \subseteq 1..n /\ DOMAIN y \subseteq 1..m
  /\ \A t \in 1..c : t \in DOMAIN x <=> t \in DOMAIN y
  /\ \A t \in 1..c : t \in DOMAIN x => x[t] = y[t]

-----------------------------------------------------------------------------
(* 1. The operations *)

\* The window of a date up to the cutoff holds the same dates and values.
LEMMA UnionSame ==
  ASSUME NEW c, NEW n, NEW m, NEW x, NEW y, Same(x, y, c, n, m), NEW S, S \subseteq 1..c,
         S \subseteq DOMAIN x
  PROVE  UNION {x[d] : d \in S} = UNION {y[d] : d \in S}
BY DEF Same

LEMMA WindowSame ==
  ASSUME NEW c, NEW n, NEW m, Bounds(c, n, m), NEW x, NEW y, Same(x, y, c, n, m),
         NEW w, NEW t \in 1..c
  PROVE  /\ InWindow(x, w, t) = InWindow(y, w, t)
         /\ InWindow(x, w, t) \subseteq DOMAIN x /\ InWindow(x, w, t) \subseteq 1..c
<1>1. \A d \in DOMAIN x : d <= t => d \in 1..c /\ d \in DOMAIN y
  BY SMT DEF Same, Bounds
<1>2. \A d \in DOMAIN y : d <= t => d \in 1..c /\ d \in DOMAIN x
  BY SMT DEF Same, Bounds
<1> QED BY <1>1, <1>2 DEF InWindow

LEMMA BothSame ==
  ASSUME NEW c, NEW n, NEW m, NEW x, NEW y, Same(x, y, c, n, m), NEW u, NEW v,
         Same(u, v, c, n, m)
  PROVE  Same(Both(x, u), Both(y, v), c, n, m)
BY DEF Same, Both

LEMMA FilledSame ==
  ASSUME NEW c, NEW n, NEW m, NEW x, NEW y, Same(x, y, c, n, m), NEW u, NEW v,
         Same(u, v, c, n, m)
  PROVE  Same(Filled(x, u), Filled(y, v), c, n, m)
BY DEF Same, Filled, At

LEMMA ZeroSame ==
  ASSUME NEW c, NEW n, NEW m, Bounds(c, n, m)
  PROVE  Same(Zero(n), Zero(m), c, n, m)
BY DEF Same, Zero, Bounds

LEMMA ShiftSame ==
  ASSUME NEW c, NEW n, NEW m, Bounds(c, n, m), NEW x, NEW y, Same(x, y, c, n, m), NEW k \in Nat
  PROVE  Same(Shift(x, k, n), Shift(y, k, m), c, n, m)
<1>1. \A t \in 1..c : t \in 1..n /\ t \in 1..m
  BY SMT DEF Bounds
<1>2. \A t \in 1..c : t - k \in DOMAIN x => t - k \in 1..c
  BY SMT DEF Same, Bounds
<1>3. \A t \in 1..c : t - k \in DOMAIN y => t - k \in 1..c
  BY SMT DEF Same, Bounds
<1>4. \A t \in 1..c : t - k \in DOMAIN x <=> t - k \in DOMAIN y
  BY <1>2, <1>3 DEF Same
<1>5. \A t \in 1..c : t - k \in DOMAIN x => x[t - k] = y[t - k]
  BY <1>2 DEF Same
<1> QED BY <1>1, <1>4, <1>5 DEF Same, Shift

LEMMA PctChangeSame ==
  ASSUME NEW c, NEW n, NEW m, Bounds(c, n, m), NEW x, NEW y, Same(x, y, c, n, m), NEW k \in Nat
  PROVE  Same(PctChange(x, k, n), PctChange(y, k, m), c, n, m)
BY ShiftSame, BothSame DEF PctChange

LEMMA RollingSame ==
  ASSUME NEW c, NEW n, NEW m, Bounds(c, n, m), NEW x, NEW y, Same(x, y, c, n, m),
         NEW w, NEW least
  PROVE  Same(Rolling(x, w, least, n), Rolling(y, w, least, m), c, n, m)
<1>1. \A t \in 1..c : t \in 1..n /\ t \in 1..m
  BY SMT DEF Bounds
<1>2. \A t \in 1..c : InWindow(x, w, t) = InWindow(y, w, t)
  BY WindowSame
<1>3. ASSUME NEW t \in 1..c
      PROVE  UNION {x[d] : d \in InWindow(x, w, t)} = UNION {y[d] : d \in InWindow(y, w, t)}
  BY WindowSame, UnionSame
<1> QED BY <1>1, <1>2, <1>3 DEF Same, Rolling

\* The window of an expanding aggregate is the whole past, however long the history.
LEMMA ExpandingSame ==
  ASSUME NEW c, NEW n, NEW m, Bounds(c, n, m), NEW x, NEW y, Same(x, y, c, n, m)
  PROVE  Same(Expanding(x, n), Expanding(y, m), c, n, m)
<1>1. \A t \in 1..c : t \in 1..n /\ t \in 1..m
  BY SMT DEF Bounds
<1>2. ASSUME NEW t \in 1..c
      PROVE  InWindow(y, n, t) = InWindow(y, m, t)
  BY <1>1, SMT DEF InWindow, Same, Bounds
<1>3. ASSUME NEW t \in 1..c
      PROVE  /\ InWindow(x, n, t) = InWindow(y, m, t)
             /\ UNION {x[d] : d \in InWindow(x, n, t)} = UNION {y[d] : d \in InWindow(y, m, t)}
  <2>1. InWindow(x, n, t) = InWindow(y, n, t)
    BY WindowSame
  <2> QED BY <1>2, <2>1, WindowSame, UnionSame
<1> QED BY <1>1, <1>3 DEF Same, Rolling, Expanding

\* A window over kept rows.
LEMMA LastOfSame ==
  ASSUME NEW c, NEW n, NEW m, Bounds(c, n, m), NEW A, NEW B, A \subseteq 1..n, B \subseteq 1..m,
         \A t \in 1..c : t \in A <=> t \in B, NEW w, NEW t \in 1..c
  PROVE  LastOf(A, w, t) = LastOf(B, w, t) /\ LastOf(A, w, t) \subseteq 1..c
<1>1. \A d \in A : d <= t => d \in 1..c /\ d \in B
  BY SMT DEF Bounds
<1>2. \A d \in B : d <= t => d \in 1..c /\ d \in A
  BY SMT DEF Bounds
<1>3. \A d : {e \in A : d < e /\ e <= t} = {e \in B : d < e /\ e <= t}
  BY <1>1, <1>2
<1> QED BY <1>1, <1>2, <1>3 DEF LastOf

LEMMA RollingKeptSame ==
  ASSUME NEW c, NEW n, NEW m, Bounds(c, n, m), NEW x, NEW y, Same(x, y, c, n, m),
         NEW A, NEW B, A \subseteq 1..n, B \subseteq 1..m,
         \A t \in 1..c : t \in A <=> t \in B, NEW w, NEW least
  PROVE  Same(RollingKept(x, A, w, least), RollingKept(y, B, w, least), c, n, m)
<1>1. ASSUME NEW t \in 1..c
      PROVE  /\ LastOf(A, w, t) \cap DOMAIN x = LastOf(B, w, t) \cap DOMAIN y
             /\ LastOf(A, w, t) \cap DOMAIN x \subseteq 1..c
  <2>1. LastOf(A, w, t) = LastOf(B, w, t) /\ LastOf(A, w, t) \subseteq 1..c
    BY LastOfSame
  <2> QED BY <2>1 DEF Same
<1>2. ASSUME NEW t \in 1..c
      PROVE  UNION {x[d] : d \in LastOf(A, w, t) \cap DOMAIN x}
               = UNION {y[d] : d \in LastOf(B, w, t) \cap DOMAIN y}
  <2>1. \A d \in LastOf(A, w, t) \cap DOMAIN x : x[d] = y[d]
    BY <1>1 DEF Same
  <2> QED BY <1>1, <2>1
<1> QED BY <1>1, <1>2 DEF Same, RollingKept

\* A set of dates has a latest one.
LEMMA LatestExists ==
  ASSUME NEW n \in Nat, NEW S, S \subseteq 1..n, S # {}
  PROVE  Latest(S) \in S
<1> DEFINE R == {n - d : d \in S}
<1>1. R \subseteq Nat /\ R # {}
  <2>1. \A d \in S : n - d \in Nat
    BY SMT
  <2> QED BY <2>1
<1>2. PICK r \in R : \A q \in R : ~ (<<q, r>> \in OpToRel(<, Nat))
  BY <1>1, NatLessThanWellFounded, WFMin
<1>3. PICK d \in S : r = n - d
  BY <1>2
<1>4. ASSUME NEW e \in S
      PROVE  e <= d
  <2>1. n - e \in Nat /\ n - d \in Nat /\ <<n - e, n - d>> \notin OpToRel(<, Nat)
    BY <1>1, <1>2, <1>3
  <2>2. ~ (n - e < n - d)
    BY <2>1 DEF OpToRel
  <2>3. e \in Int /\ d \in Int
    BY SMT
  <2> QED BY <2>2, <2>3, SMT
<1> QED BY <1>4 DEF Latest

LEMMA FFillSame ==
  ASSUME NEW c, NEW n, NEW m, Bounds(c, n, m), NEW x, NEW y, Same(x, y, c, n, m)
  PROVE  Same(FFill(x, n), FFill(y, m), c, n, m)
<1>1. \A t \in 1..c : t \in 1..n /\ t \in 1..m
  BY SMT DEF Bounds
<1>2. ASSUME NEW t \in 1..c
      PROVE  /\ UpTo(x, t) = UpTo(y, t) /\ UpTo(x, t) \subseteq 1..c
             /\ UpTo(x, t) \subseteq DOMAIN x
  <2>1. \A d : (d \in DOMAIN x /\ d <= t) <=> (d \in DOMAIN y /\ d <= t)
    BY SMT DEF Same, Bounds
  <2>2. \A d \in DOMAIN x : d <= t => d \in 1..c
    BY SMT DEF Same, Bounds
  <2> QED BY <2>1, <2>2 DEF UpTo
<1>3. ASSUME NEW t \in 1..c, UpTo(x, t) # {}
      PROVE  x[Latest(UpTo(x, t))] = y[Latest(UpTo(y, t))]
  <2>1. Latest(UpTo(x, t)) \in UpTo(x, t)
    BY <1>2, <1>3, LatestExists DEF Bounds
  <2> QED BY <1>2, <2>1 DEF Same
<1> QED BY <1>1, <1>2, <1>3 DEF Same, FFill

LEMMA ZScoreSame ==
  ASSUME NEW c, NEW n, NEW m, Bounds(c, n, m), NEW x, NEW y, Same(x, y, c, n, m), NEW w
  PROVE  Same(ZScore(x, w, n), ZScore(y, w, m), c, n, m)
BY RollingSame, BothSame DEF ZScore

LEMMA WindowType ==
  /\ {D20, D21, D60, D63, D126, D200, D252} \subseteq Nat
  /\ Min60 \in Nat /\ D60 \in Nat
BY WindowAssumption

-----------------------------------------------------------------------------
(* 2. The factors *)

LEMMA ReturnsSame ==
  ASSUME NEW c, NEW n, NEW m, Bounds(c, n, m), NEW x, NEW y, Same(x, y, c, n, m)
  PROVE  Same(Returns(x, n), Returns(y, m), c, n, m)
BY PctChangeSame DEF Returns

LEMMA MomentumSame ==
  ASSUME NEW c, NEW n, NEW m, Bounds(c, n, m), NEW x, NEW y, Same(x, y, c, n, m),
         NEW k \in Nat, NEW least
  PROVE  Same(Momentum(x, k, least, n), Momentum(y, k, least, m), c, n, m)
<1>1. Same(PctChange(x, k, n), PctChange(y, k, m), c, n, m)
  BY PctChangeSame
<1>2. Same(Rolling(Returns(x, n), k, least, n), Rolling(Returns(y, m), k, least, m), c, n, m)
  BY ReturnsSame, RollingSame
<1> QED BY <1>1, <1>2, BothSame DEF Momentum

LEMMA MovingAverageSame ==
  ASSUME NEW c, NEW n, NEW m, Bounds(c, n, m), NEW x, NEW y, Same(x, y, c, n, m)
  PROVE  /\ Same(MovingAverage(x, n), MovingAverage(y, m), c, n, m)
         /\ Same(MASignal(x, n), MASignal(y, m), c, n, m)
         /\ Same(MASlope(x, n), MASlope(y, m), c, n, m)
<1>1. Same(MovingAverage(x, n), MovingAverage(y, m), c, n, m)
  BY RollingSame DEF MovingAverage
<1>2. Same(MASignal(x, n), MASignal(y, m), c, n, m)
  BY <1>1, BothSame DEF MASignal
<1>3. Same(PctChange(MovingAverage(x, n), D20, n), PctChange(MovingAverage(y, m), D20, m), c, n, m)
  BY <1>1, PctChangeSame, WindowType
<1>4. Same(Shift(x, D20, n), Shift(y, D20, m), c, n, m)
  BY ShiftSame, WindowType
<1>5. Same(MASlope(x, n), MASlope(y, m), c, n, m)
  BY <1>3, <1>4, BothSame DEF MASlope
<1> QED BY <1>1, <1>2, <1>5

LEMMA ConsensusSame ==
  ASSUME NEW c, NEW n, NEW m, Bounds(c, n, m), NEW x, NEW y, Same(x, y, c, n, m), NEW least
  PROVE  Same(Consensus(x, least, n), Consensus(y, least, m), c, n, m)
<1>1. Same(Filled(Zero(n), Momentum(x, D63, least[D63], n)),
           Filled(Zero(m), Momentum(y, D63, least[D63], m)), c, n, m)
  BY ZeroSame, MomentumSame, FilledSame, WindowType
<1>2. Same(Momentum(x, D126, least[D126], n), Momentum(y, D126, least[D126], m), c, n, m)
  BY MomentumSame, WindowType
<1>3. Same(Momentum(x, D252, least[D252], n), Momentum(y, D252, least[D252], m), c, n, m)
  BY MomentumSame, WindowType
<1>4. Same(MASignal(x, n), MASignal(y, m), c, n, m)
  BY MovingAverageSame
<1>5. Same(Filled(Filled(Zero(n), Momentum(x, D63, least[D63], n)), Momentum(x, D126, least[D126], n)),
           Filled(Filled(Zero(m), Momentum(y, D63, least[D63], m)), Momentum(y, D126, least[D126], m)),
           c, n, m)
  BY <1>1, <1>2, FilledSame
<1> QED BY <1>3, <1>4, <1>5, FilledSame DEF Consensus

LEMMA TrendSame ==
  ASSUME NEW c, NEW n, NEW m, Bounds(c, n, m), NEW x, NEW y, Same(x, y, c, n, m)
  PROVE  \A f \in DOMAIN TrendFactors(x, n) :
           Same(TrendFactors(x, n)[f], TrendFactors(y, m)[f], c, n, m)
<1>1. \A k \in {D63, D126, D252} : \A least :
        Same(Momentum(x, k, least, n), Momentum(y, k, least, m), c, n, m)
  BY MomentumSame, WindowType
<1>2. Same(Momentum12m1m(x, n), Momentum12m1m(y, m), c, n, m)
  <2>1. Same(Both(PctChange(x, D252, n), PctChange(x, D21, n)),
             Both(PctChange(y, D252, m), PctChange(y, D21, m)), c, n, m)
    BY PctChangeSame, BothSame, WindowType
  <2>2. Same(Rolling(Returns(x, n), D252, Min60, n), Rolling(Returns(y, m), D252, Min60, m), c, n, m)
    BY ReturnsSame, RollingSame
  <2> QED BY <2>1, <2>2, BothSame DEF Momentum12m1m
<1>3. Same(DistanceFromHigh(x, n), DistanceFromHigh(y, m), c, n, m)
  BY RollingSame, BothSame DEF DistanceFromHigh
<1>4. Same(DownsideTrendStrength(x, n), DownsideTrendStrength(y, m), c, n, m)
  BY ReturnsSame, RollingSame DEF DownsideTrendStrength
<1>5. /\ Same(MASignal(x, n), MASignal(y, m), c, n, m)
      /\ Same(MASlope(x, n), MASlope(y, m), c, n, m)
  BY MovingAverageSame
<1>6. \A least : Same(Consensus(x, least, n), Consensus(y, least, m), c, n, m)
  BY ConsensusSame
<1> QED BY <1>1, <1>2, <1>3, <1>4, <1>5, <1>6 DEF TrendFactors

LEMMA RiskSame ==
  ASSUME NEW c, NEW n, NEW m, Bounds(c, n, m), NEW x, NEW y, Same(x, y, c, n, m)
  PROVE  \A f \in DOMAIN RiskFactors(x, n) \ {"expected_shortfall"} :
           Same(RiskFactors(x, n)[f], RiskFactors(y, m)[f], c, n, m)
<1>1. \A window, least :
        Same(Volatility(x, window, least, n), Volatility(y, window, least, m), c, n, m)
  BY ReturnsSame, RollingSame DEF Volatility
<1>2. Same(DownsideVolatility(x, n), DownsideVolatility(y, m), c, n, m)
  <2>1. Same(Filled(Zero(n), Returns(x, n)), Filled(Zero(m), Returns(y, m)), c, n, m)
    BY ZeroSame, ReturnsSame, FilledSame
  <2> QED BY <2>1, RollingSame DEF DownsideVolatility
<1>3. Same(Underwater(x, n), Underwater(y, m), c, n, m)
  BY ExpandingSame, BothSame DEF Underwater
<1>4. /\ Same(MaxDrawdown(x, n), MaxDrawdown(y, m), c, n, m)
      /\ Same(UlcerIndex(x, n), UlcerIndex(y, m), c, n, m)
  BY <1>3, RollingSame DEF MaxDrawdown, UlcerIndex
<1>5. Same(HistoricalVaR(x, n), HistoricalVaR(y, m), c, n, m)
  BY ReturnsSame, RollingSame DEF HistoricalVaR
<1> QED BY <1>1, <1>2, <1>4, <1>5 DEF RiskFactors

LEMMA ValueSame ==
  ASSUME NEW c, NEW n, NEW m, Bounds(c, n, m), NEW x, NEW y, Same(x, y, c, n, m),
         NEW q, NEW r, Same(q, r, c, n, m)
  PROVE  \A f \in DOMAIN ValueFactors(x, q, n) \ {"historical_percentile"} :
           Same(ValueFactors(x, q, n)[f], ValueFactors(y, r, m)[f], c, n, m)
<1>1. Same(FFill(x, n), FFill(y, m), c, n, m)
  BY FFillSame
<1>2. Same(Yield(x, n), Yield(y, m), c, n, m)
  BY <1>1, ZScoreSame DEF Yield
<1>4. ASSUME NEW a, NEW b, Same(a, b, c, n, m)
      PROVE  Same(EquityRiskPremium(x, a, n), EquityRiskPremium(y, b, m), c, n, m)
  <2>1. Same(FFill(a, n), FFill(b, m), c, n, m)
    BY <1>4, FFillSame
  <2>2. Same(Both(x, FFill(a, n)), Both(y, FFill(b, m)), c, n, m)
    BY <2>1, BothSame
  <2>3. Same(FFill(Both(x, FFill(a, n)), n), FFill(Both(y, FFill(b, m)), m), c, n, m)
    BY <2>2, FFillSame
  <2> QED BY <2>3, ZScoreSame DEF EquityRiskPremium
<1>5. /\ Same(EquityRiskPremium(x, Zero(n), n), EquityRiskPremium(y, Zero(m), m), c, n, m)
      /\ Same(EquityRiskPremium(x, q, n), EquityRiskPremium(y, r, m), c, n, m)
  BY <1>4, ZeroSame
<1>3. Same(CapeApproximation(x, n), CapeApproximation(y, m), c, n, m)
  <2>1. Same(Rolling(FFill(x, n), D1260, Min252, n), Rolling(FFill(y, m), D1260, Min252, m), c, n, m)
    BY <1>1, RollingSame
  <2> QED BY <2>1, ZScoreSame DEF CapeApproximation
<1> QED BY <1>2, <1>3, <1>5 DEF ValueFactors

\* Columns that are the same, instrument by instrument.
AllSame(u, v, c, n, m) == \A i \in Instruments : Same(u[i], v[i], c, n, m)

LEMMA CompositeSame ==
  ASSUME NEW c, NEW n, NEW m, NEW u, NEW v, AllSame(u, v, c, n, m)
  PROVE  Same(Composite(u), Composite(v), c, n, m)
<1>1. \A i \in Instruments : DOMAIN u[i] \subseteq 1..n /\ DOMAIN v[i] \subseteq 1..m
  BY DEF AllSame, Same
<1>2. \A t \in 1..c, i \in Instruments : (t \in DOMAIN u[i] <=> t \in DOMAIN v[i])
  BY DEF AllSame, Same
<1>3. \A t \in 1..c, i \in Instruments : At(u[i], t) = At(v[i], t)
  BY DEF AllSame, Same, At
<1> QED BY <1>1, <1>2, <1>3 DEF Same, Composite

LEMMA CrossSectionalSame ==
  ASSUME NEW c, NEW n, NEW m, NEW u, NEW v, AllSame(u, v, c, n, m), NEW i \in Instruments
  PROVE  Same(CrossSectional(u, i), CrossSectional(v, i), c, n, m)
<1>1. DOMAIN u[i] \subseteq 1..n /\ DOMAIN v[i] \subseteq 1..m
  BY DEF AllSame, Same
<1>2. \A t \in 1..c, j \in Instruments : (t \in DOMAIN u[j] <=> t \in DOMAIN v[j])
  BY DEF AllSame, Same
<1>3. \A t \in 1..c, j \in Instruments : At(u[j], t) = At(v[j], t)
  BY DEF AllSame, Same, At
<1> QED BY <1>1, <1>2, <1>3 DEF Same, CrossSectional

LEMMA AverageCorrelationSame ==
  ASSUME NEW c, NEW n, NEW m, Bounds(c, n, m), NEW u, NEW v, AllSame(u, v, c, n, m)
  PROVE  Same(AverageCorrelation(u, n), AverageCorrelation(v, m), c, n, m)
<1> DEFINE Pairs == {p \in Instruments \X Instruments : p[1] # p[2]}
           X(p) == Rolling(Both(Returns(u[p[1]], n), Returns(u[p[2]], n)), D60, Min20, n)
           Y(p) == Rolling(Both(Returns(v[p[1]], m), Returns(v[p[2]], m)), D60, Min20, m)
<1>1. ASSUME NEW p \in Pairs
      PROVE  Same(X(p), Y(p), c, n, m)
  <2>1. Same(Returns(u[p[1]], n), Returns(v[p[1]], m), c, n, m)
    BY ReturnsSame DEF AllSame
  <2>2. Same(Returns(u[p[2]], n), Returns(v[p[2]], m), c, n, m)
    BY ReturnsSame DEF AllSame
  <2>3. Same(Both(Returns(u[p[1]], n), Returns(u[p[2]], n)),
             Both(Returns(v[p[1]], m), Returns(v[p[2]], m)), c, n, m)
    BY <2>1, <2>2, BothSame
  <2> QED BY <2>3, RollingSame
<1>2. \A t \in 1..c : t \in 1..n /\ t \in 1..m
  BY SMT DEF Bounds
<1>3. AverageCorrelation(u, n) =
        [t \in {d \in 1..n : Pairs # {} /\ \A p \in Pairs : d \in DOMAIN X(p)} |->
           UNION {X(p)[t] : p \in Pairs}]
  BY DEF AverageCorrelation
<1>4. AverageCorrelation(v, m) =
        [t \in {d \in 1..m : Pairs # {} /\ \A p \in Pairs : d \in DOMAIN Y(p)} |->
           UNION {Y(p)[t] : p \in Pairs}]
  BY DEF AverageCorrelation
<1> HIDE DEF Pairs, X, Y
<1>5. \A t \in 1..c, p \in Pairs : (t \in DOMAIN X(p) <=> t \in DOMAIN Y(p))
  BY <1>1 DEF Same
<1>6. \A t \in 1..c, p \in Pairs : t \in DOMAIN X(p) => X(p)[t] = Y(p)[t]
  BY <1>1 DEF Same
<1>7. ASSUME NEW t \in 1..c, t \in DOMAIN AverageCorrelation(u, n)
      PROVE  AverageCorrelation(u, n)[t] = AverageCorrelation(v, m)[t]
  <2>1. \A p \in Pairs : X(p)[t] = Y(p)[t]
    BY <1>3, <1>6, <1>7
  <2>2. AverageCorrelation(u, n)[t] = UNION {X(p)[t] : p \in Pairs}
    BY <1>3, <1>7
  <2>3. t \in {d \in 1..m : Pairs # {} /\ \A p \in Pairs : d \in DOMAIN Y(p)}
    BY <1>2, <1>3, <1>5, <1>7
  <2>4. AverageCorrelation(v, m)[t] = UNION {Y(p)[t] : p \in Pairs}
    BY <1>4, <2>3
  <2>5. {X(p)[t] : p \in Pairs} = {Y(p)[t] : p \in Pairs}
    BY <2>1
  <2> QED BY <2>2, <2>4, <2>5
<1>8. \A t \in 1..c : t \in DOMAIN AverageCorrelation(u, n) <=> t \in DOMAIN AverageCorrelation(v, m)
  BY <1>2, <1>3, <1>4, <1>5
<1> QED BY <1>3, <1>4, <1>7, <1>8 DEF Same

LEMMA MarketPercentileSame ==
  ASSUME NEW c, NEW n, NEW m, Bounds(c, n, m), NEW u, NEW v, AllSame(u, v, c, n, m),
         NEW i \in Instruments
  PROVE  Same(MarketPercentile(u, i, n), MarketPercentile(v, i, m), c, n, m)
<1>1. CASE i \notin UNION Markets
  BY <1>1 DEF MarketPercentile, Nowhere, Same
<1>2. CASE i \in UNION Markets
  <2> DEFINE market == CHOOSE k \in Markets : i \in k
             A == UNION {DOMAIN u[j] : j \in market}
             B == UNION {DOMAIN v[j] : j \in market}
  <2>1. market \in Markets
    BY <1>2
  <2>2. market \subseteq Instruments
    BY <2>1, WindowAssumption
  <2> HIDE DEF market
  <2>3. A \subseteq 1..n /\ B \subseteq 1..m /\ \A t \in 1..c : t \in A <=> t \in B
    BY <2>2 DEF AllSame, Same
  <2>4. MarketPercentile(u, i, n) = RollingKept(u[i], A, D1260, Min60)
        /\ MarketPercentile(v, i, m) = RollingKept(v[i], B, D1260, Min60)
    BY <1>2 DEF MarketPercentile, market
  <2> HIDE DEF A, B
  <2>5. Same(u[i], v[i], c, n, m)
    BY DEF AllSame
  <2> QED BY <2>3, <2>4, <2>5, RollingKeptSame
<1> QED BY <1>1, <1>2

LEMMA CrossSame ==
  ASSUME NEW c, NEW n, NEW m, Bounds(c, n, m), NEW u, NEW v, AllSame(u, v, c, n, m),
         NEW i \in Instruments
  PROVE  \A f \in DOMAIN CrossFactors(u, i, n) \ {"marginal_risk_contribution"} :
           Same(CrossFactors(u, i, n)[f], CrossFactors(v, i, m)[f], c, n, m)
<1>1. AllSame([j \in Instruments |-> ZScore(FFill(u[j], n), D756, n)],
              [j \in Instruments |-> ZScore(FFill(v[j], m), D756, m)], c, n, m)
  BY FFillSame, ZScoreSame DEF AllSame
<1>2. AllSame([j \in Instruments |-> ZScore(u[j], D2520, n)],
              [j \in Instruments |-> ZScore(v[j], D2520, m)], c, n, m)
  BY ZScoreSame DEF AllSame
<1>3. Same(Composite([j \in Instruments |-> ZScore(FFill(u[j], n), D756, n)]),
           Composite([j \in Instruments |-> ZScore(FFill(v[j], m), D756, m)]), c, n, m)
  BY <1>1, CompositeSame
<1>4. Same(Composite([j \in Instruments |-> ZScore(u[j], D2520, n)]),
           Composite([j \in Instruments |-> ZScore(v[j], D2520, m)]), c, n, m)
  BY <1>2, CompositeSame
<1> QED BY <1>3, <1>4, CrossSectionalSame, AverageCorrelationSame, MarketPercentileSame
        DEF CrossFactors

-----------------------------------------------------------------------------
(* 3. The factors that wait for a number of observations *)

\* What both properties say of a series on n dates and of the one a bar later.
Stands(x, y, n) ==
  /\ Agree(x, y)
  /\ DOMAIN x \subseteq {n} \/ DOMAIN x = DOMAIN y \cap 1..n

LEMMA SameStands ==
  ASSUME NEW n \in Nat, NEW x, NEW y, Same(x, y, n, n, n + 1)
  PROVE  Stands(x, y, n)
BY DEF Same, Stands, Agree

LEMMA NextBounds ==
  ASSUME NEW n \in Nat
  PROVE  Bounds(n, n, n + 1)
BY DEF Bounds

\* As many observations as there were are still there.
LEMMA NoFewer ==
  ASSUME NEW n \in Nat, NEW A, NEW B, A \subseteq 1..n, B \subseteq 1..(n + 1),
         \A t \in 1..n : t \in A <=> t \in B
  PROVE  /\ Cardinality(A) \in Nat /\ Cardinality(B) \in Nat
         /\ Cardinality(A) <= Cardinality(B)
<1>1. IsFiniteSet(B)
  <2>1. n + 1 \in Int
    OBVIOUS
  <2>2. IsFiniteSet(1..(n + 1))
    BY <2>1, FS_Interval
  <2> QED BY <2>2, FS_Subset
<1>2. A \subseteq B
  OBVIOUS
<1> QED BY <1>1, <1>2, FS_Subset, FS_CardinalityType

LEMMA ExpectedShortfallStands ==
  ASSUME NEW n \in Nat, NEW x, NEW y, Same(x, y, n, n, n + 1)
  PROVE  Stands(ExpectedShortfall(x, n), ExpectedShortfall(y, n + 1), n)
<1> DEFINE r == Returns(x, n)
           s == Returns(y, n + 1)
<1>1. Same(r, s, n, n, n + 1)
  BY NextBounds, ReturnsSame
<1>2. /\ ExpectedShortfall(x, n) = IF Cardinality(DOMAIN r) < Min60 THEN Nowhere
                                   ELSE RollingKept(r, DOMAIN r, D252, Min60)
      /\ ExpectedShortfall(y, n + 1) = IF Cardinality(DOMAIN s) < Min60 THEN Nowhere
                                       ELSE RollingKept(s, DOMAIN s, D252, Min60)
  BY DEF ExpectedShortfall
<1> HIDE DEF r, s
<1>3. CASE Cardinality(DOMAIN r) < Min60
  BY <1>2, <1>3 DEF Nowhere, Stands, Agree
<1>4. CASE ~ (Cardinality(DOMAIN r) < Min60)
  <2>1. ~ (Cardinality(DOMAIN s) < Min60)
    <3>1. /\ Cardinality(DOMAIN r) \in Nat /\ Cardinality(DOMAIN s) \in Nat
          /\ Cardinality(DOMAIN r) <= Cardinality(DOMAIN s)
      BY <1>1, NoFewer DEF Same
    <3> QED BY <1>4, <3>1, WindowType, SMT
  <2>2. Same(RollingKept(r, DOMAIN r, D252, Min60), RollingKept(s, DOMAIN s, D252, Min60), n, n, n + 1)
    <3>1. /\ DOMAIN r \subseteq 1..n /\ DOMAIN s \subseteq 1..(n + 1)
          /\ \A t \in 1..n : t \in DOMAIN r <=> t \in DOMAIN s
      BY <1>1 DEF Same
    <3> QED BY <1>1, <3>1, NextBounds, RollingKeptSame
  <2> QED BY <1>2, <1>4, <2>1, <2>2, SameStands
<1> QED BY <1>3, <1>4

LEMMA HistoricalPercentileStands ==
  ASSUME NEW n \in Nat, NEW x, NEW y, Same(x, y, n, n, n + 1)
  PROVE  Stands(HistoricalPercentile(x), HistoricalPercentile(y), n)
<1>1. CASE Cardinality(DOMAIN x) < D1260 \div 2
  BY <1>1 DEF HistoricalPercentile, Nowhere, Stands, Agree
<1>2. CASE ~ (Cardinality(DOMAIN x) < D1260 \div 2)
  <2>1. ~ (Cardinality(DOMAIN y) < D1260 \div 2)
    <3>1. /\ Cardinality(DOMAIN x) \in Nat /\ Cardinality(DOMAIN y) \in Nat
          /\ Cardinality(DOMAIN x) <= Cardinality(DOMAIN y)
      BY NoFewer DEF Same
    <3>2. D1260 \in Nat
      BY WindowAssumption
    <3> QED BY <1>2, <3>1, <3>2, SMT
  <2>2. Same(RollingKept(x, DOMAIN x, D1260, Min60), RollingKept(y, DOMAIN y, D1260, Min60), n, n, n + 1)
    <3>1. /\ DOMAIN x \subseteq 1..n /\ DOMAIN y \subseteq 1..(n + 1)
          /\ \A t \in 1..n : t \in DOMAIN x <=> t \in DOMAIN y
      BY DEF Same
    <3> QED BY <3>1, NextBounds, RollingKeptSame
  <2> QED BY <1>2, <2>1, <2>2, SameStands DEF HistoricalPercentile
<1> QED BY <1>1, <1>2

LEMMA LastOfNext ==
  ASSUME NEW n \in Nat, NEW A, NEW B, A \subseteq 1..n, B \subseteq 1..(n + 1),
         \A t \in 1..n : t \in A <=> t \in B, NEW w
  PROVE  \A t \in 1..n : LastOf(A, w, t) = LastOf(B, w, t)
<1> TAKE t \in 1..n
<1>1. /\ \A d \in A : d <= t => d \in B
      /\ \A d \in B : d <= t => d \in A
  BY SMT
<1>2. \A d : {e \in A : d < e /\ e <= t} = {e \in B : d < e /\ e <= t}
  BY <1>1
<1> QED BY <1>1, <1>2 DEF LastOf

LEMMA MarginalRiskStands ==
  ASSUME NEW n \in Nat, NEW u, NEW v, AllSame(u, v, n, n, n + 1)
  PROVE  Stands(MarginalRisk(u, n), MarginalRisk(v, n + 1), n)
<1> DEFINE r == [i \in Instruments |-> Returns(u[i], n)]
           s == [i \in Instruments |-> Returns(v[i], n + 1)]
           A == {d \in 1..n : \A i \in Instruments : d \in DOMAIN r[i]}
           B == {d \in 1..(n + 1) : \A i \in Instruments : d \in DOMAIN s[i]}
           Old(t) == IF Cardinality(LastOf(A, D60, t)) < D60 THEN {}
                     ELSE UNION {r[i][d] : i \in Instruments, d \in LastOf(A, D60, t)}
           New(t) == IF Cardinality(LastOf(B, D60, t)) < D60 THEN {}
                     ELSE UNION {s[i][d] : i \in Instruments, d \in LastOf(B, D60, t)}
<1>1. AllSame(r, s, n, n, n + 1)
  BY NextBounds, ReturnsSame DEF AllSame
<1>2. /\ MarginalRisk(u, n) = IF Cardinality(A) < D60 THEN [t \in {d \in 1..n : d = n} |-> {}]
                              ELSE [t \in A |-> Old(t)]
      /\ MarginalRisk(v, n + 1) =
           IF Cardinality(B) < D60 THEN [t \in {d \in 1..(n + 1) : d = n + 1} |-> {}]
           ELSE [t \in B |-> New(t)]
  BY DEF MarginalRisk
<1> HIDE DEF r, s, Old, New
<1>3. A \subseteq 1..n /\ B \subseteq 1..(n + 1) /\ \A t \in 1..n : t \in A <=> t \in B
  BY <1>1 DEF AllSame, Same
<1>4. \A t \in A, i \in Instruments : r[i][t] = s[i][t]
  BY <1>1 DEF AllSame, Same
<1> HIDE DEF A, B
<1>5. /\ Cardinality(A) \in Nat /\ Cardinality(B) \in Nat
      /\ Cardinality(A) <= Cardinality(B)
  BY <1>3, NoFewer
<1>6. \A w : \A t \in 1..n : LastOf(A, w, t) = LastOf(B, w, t)
  BY <1>3, LastOfNext
<1>7. CASE Cardinality(A) < D60
  <2>1. DOMAIN MarginalRisk(u, n) \subseteq {n}
    BY <1>2, <1>7
  <2>2. ASSUME NEW t \in DOMAIN MarginalRisk(u, n) \cap DOMAIN MarginalRisk(v, n + 1)
        PROVE  MarginalRisk(u, n)[t] = MarginalRisk(v, n + 1)[t]
    <3>1. t = n /\ t \in 1..n /\ MarginalRisk(u, n)[t] = {}
      BY <1>2, <1>7
    <3>2. CASE Cardinality(B) < D60
      <4>1. t = n + 1
        BY <1>2, <3>2
      <4> QED BY <3>1, <4>1
    <3>3. CASE ~ (Cardinality(B) < D60)
      <4>1. t \in B /\ MarginalRisk(v, n + 1)[t] = New(t)
        BY <1>2, <3>3
      <4>2. LastOf(B, D60, t) \subseteq A
        <5>1. LastOf(B, D60, t) = LastOf(A, D60, t)
          BY <1>6, <3>1
        <5> QED BY <5>1 DEF LastOf
      <4>3. Cardinality(LastOf(B, D60, t)) < D60
        <5>1. IsFiniteSet(A)
          <6>1. IsFiniteSet(1..n)
            BY FS_Interval
          <6> QED BY <1>3, <6>1, FS_Subset
        <5>2. /\ Cardinality(LastOf(B, D60, t)) <= Cardinality(A)
              /\ Cardinality(LastOf(B, D60, t)) \in Nat
          BY <4>2, <5>1, FS_Subset, FS_CardinalityType
        <5> QED BY <1>5, <1>7, <5>2, WindowType, SMT
      <4>4. New(t) = {}
        BY <4>3 DEF New
      <4> QED BY <3>1, <4>1, <4>4
    <3> QED BY <3>2, <3>3
  <2> QED BY <2>1, <2>2 DEF Stands, Agree
<1>8. CASE ~ (Cardinality(A) < D60)
  <2>1. ~ (Cardinality(B) < D60)
    BY <1>5, <1>8, WindowType, SMT
  <2>2. MarginalRisk(u, n) = [t \in A |-> Old(t)] /\ MarginalRisk(v, n + 1) = [t \in B |-> New(t)]
    BY <1>2, <1>8, <2>1
  <2>3. ASSUME NEW t \in A
        PROVE  Old(t) = New(t)
    <3>1. LastOf(A, D60, t) = LastOf(B, D60, t) /\ LastOf(A, D60, t) \subseteq A
      BY <1>3, <1>6 DEF LastOf
    <3> DEFINE P == {r[i][d] : i \in Instruments, d \in LastOf(A, D60, t)}
               Q == {s[i][d] : i \in Instruments, d \in LastOf(B, D60, t)}
    <3>2. P = Q
      <4>1. \A i \in Instruments, d \in LastOf(A, D60, t) : r[i][d] = s[i][d]
        BY <1>4, <3>1
      <4> QED BY <3>1, <4>1
    <3>3. Old(t) = IF Cardinality(LastOf(A, D60, t)) < D60 THEN {} ELSE UNION P
      BY DEF Old
    <3>4. New(t) = IF Cardinality(LastOf(B, D60, t)) < D60 THEN {} ELSE UNION Q
      BY DEF New
    <3> HIDE DEF P, Q
    <3> QED BY <3>1, <3>2, <3>3, <3>4
  <2>4. DOMAIN MarginalRisk(u, n) = DOMAIN MarginalRisk(v, n + 1) \cap 1..n
    BY <1>3, <2>2
  <2>5. Agree(MarginalRisk(u, n), MarginalRisk(v, n + 1))
    BY <1>3, <2>2, <2>3 DEF Agree
  <2> QED BY <2>4, <2>5 DEF Stands
<1> QED BY <1>7, <1>8

-----------------------------------------------------------------------------
(* 4. Histories *)

LEMMA ColumnSame ==
  ASSUME NEW h \in Seq(Bars), NEW b \in Bars, NEW i
  PROVE  Same(Column(h, i), Column(Append(h, b), i), Len(h), Len(h), Len(h) + 1)
<1>1. Len(h) \in Nat /\ Len(Append(h, b)) = Len(h) + 1
  OBVIOUS
<1>2. \A t \in 1..Len(h) : t \in 1..(Len(h) + 1) /\ Append(h, b)[t] = h[t]
  BY SMT
<1> QED BY <1>1, <1>2 DEF Same, Column, Dates

\* Every factor stands when a bar is added.
LEMMA FactorsStand ==
  ASSUME NEW h \in Seq(Bars), NEW b \in Bars, NEW i \in Instruments
  PROVE  LET old == Factors(h, i)
             new == Factors(Append(h, b), i)
         IN \A kind \in DOMAIN old : \A f \in DOMAIN old[kind] :
              Stands(old[kind][f], new[kind][f], Len(h))
<1> DEFINE n == Len(h)
           x == Column(h, i)
           y == Column(Append(h, b), i)
           q == Column(h, RiskFree)
           r == Column(Append(h, b), RiskFree)
           u == [j \in Instruments |-> Column(h, j)]
           v == [j \in Instruments |-> Column(Append(h, b), j)]
<1>1. n \in Nat /\ Len(Append(h, b)) = n + 1
  OBVIOUS
<1>2. Same(x, y, n, n, n + 1) /\ Same(q, r, n, n, n + 1)
  BY ColumnSame
<1>3. AllSame(u, v, n, n, n + 1)
  BY ColumnSame DEF AllSame
<1>4. /\ Factors(h, i) = [trend |-> TrendFactors(x, n), risk |-> RiskFactors(x, n),
                          value |-> ValueFactors(x, q, n), cross |-> CrossFactors(u, i, n)]
      /\ Factors(Append(h, b), i) =
           [trend |-> TrendFactors(y, n + 1), risk |-> RiskFactors(y, n + 1),
            value |-> ValueFactors(y, r, n + 1), cross |-> CrossFactors(v, i, n + 1)]
  BY <1>1 DEF Factors
<1> HIDE DEF n, x, y, q, r, u, v
<1>5. Bounds(n, n, n + 1)
  BY <1>1, NextBounds
<1>6. \A f \in DOMAIN TrendFactors(x, n) :
        Stands(TrendFactors(x, n)[f], TrendFactors(y, n + 1)[f], n)
  BY <1>1, <1>2, <1>5, TrendSame, SameStands
<1>7. \A f \in DOMAIN RiskFactors(x, n) :
        Stands(RiskFactors(x, n)[f], RiskFactors(y, n + 1)[f], n)
  <2>1. \A f \in DOMAIN RiskFactors(x, n) \ {"expected_shortfall"} :
          Stands(RiskFactors(x, n)[f], RiskFactors(y, n + 1)[f], n)
    BY <1>1, <1>2, <1>5, RiskSame, SameStands
  <2>2. /\ RiskFactors(x, n)["expected_shortfall"] = ExpectedShortfall(x, n)
        /\ RiskFactors(y, n + 1)["expected_shortfall"] = ExpectedShortfall(y, n + 1)
    BY DEF RiskFactors
  <2> QED BY <1>1, <1>2, <2>1, <2>2, ExpectedShortfallStands
<1>8. \A f \in DOMAIN ValueFactors(x, q, n) :
        Stands(ValueFactors(x, q, n)[f], ValueFactors(y, r, n + 1)[f], n)
  <2>1. \A f \in DOMAIN ValueFactors(x, q, n) \ {"historical_percentile"} :
          Stands(ValueFactors(x, q, n)[f], ValueFactors(y, r, n + 1)[f], n)
    BY <1>1, <1>2, <1>5, ValueSame, SameStands
  <2>2. /\ ValueFactors(x, q, n)["historical_percentile"] = HistoricalPercentile(x)
        /\ ValueFactors(y, r, n + 1)["historical_percentile"] = HistoricalPercentile(y)
    BY DEF ValueFactors
  <2> QED BY <1>1, <1>2, <2>1, <2>2, HistoricalPercentileStands
<1>9. \A f \in DOMAIN CrossFactors(u, i, n) :
        Stands(CrossFactors(u, i, n)[f], CrossFactors(v, i, n + 1)[f], n)
  <2>1. \A f \in DOMAIN CrossFactors(u, i, n) \ {"marginal_risk_contribution"} :
          Stands(CrossFactors(u, i, n)[f], CrossFactors(v, i, n + 1)[f], n)
    BY <1>1, <1>3, <1>5, CrossSame, SameStands
  <2>2. /\ CrossFactors(u, i, n)["marginal_risk_contribution"] = MarginalRisk(u, n)
        /\ CrossFactors(v, i, n + 1)["marginal_risk_contribution"] = MarginalRisk(v, n + 1)
    BY DEF CrossFactors
  <2> QED BY <1>1, <1>3, <2>1, <2>2, MarginalRiskStands
<1>10. \A kind \in DOMAIN Factors(h, i) : \A f \in DOMAIN Factors(h, i)[kind] :
         Stands(Factors(h, i)[kind][f], Factors(Append(h, b), i)[kind][f], n)
  BY <1>4, <1>6, <1>7, <1>8, <1>9
<1> QED BY <1>10 DEF n

LEMMA HistoryGrows ==
  ASSUME history \in Seq(Bars), Next
  PROVE  \E b \in Bars : history' = Append(history, b)
<1>1. PICK seen \in Seen : Extend(seen)
  BY DEF Next
<1>2. [bar |-> Len(history) + 1, seen |-> seen] \in Bars
  BY WindowAssumption DEF Bars
<1> QED BY <1>1, <1>2 DEF Extend

\* A history is a sequence of bars.
THEOREM HistoryType == Spec => [](history \in Seq(Bars))
<1>1. Init => history \in Seq(Bars)
  BY DEF Init
<1>2. history \in Seq(Bars) /\ [Next]_history => (history \in Seq(Bars))'
  <2> SUFFICES ASSUME history \in Seq(Bars), [Next]_history
               PROVE  history' \in Seq(Bars)
    OBVIOUS
  <2>1. CASE Next
    <3>1. PICK b \in Bars : history' = Append(history, b)
      BY <2>1, HistoryGrows
    <3> QED BY <3>1
  <2>2. CASE UNCHANGED history
    BY <2>2
  <2> QED BY <2>1, <2>2
<1> QED BY <1>1, <1>2, PTL DEF Spec

\* No factor ever revises a value it has published for a date (value_factors.py,
\* trend_factors.py, risk_factors.py): for every choice of windows, any number
\* of instruments and markets, and histories of every length.
THEOREM NothingIsRevised == Spec => PublishedStands
<1>1. history \in Seq(Bars) /\ [Next]_history => [OnAllFactors(Agree, history, history')]_history
  <2> SUFFICES ASSUME history \in Seq(Bars), Next
               PROVE  OnAllFactors(Agree, history, history')
    OBVIOUS
  <2>1. PICK b \in Bars : history' = Append(history, b)
    BY HistoryGrows
  <2> QED BY <2>1, FactorsStand DEF OnAllFactors, Stands
<1> QED BY <1>1, HistoryType, PTL DEF PublishedStands, Spec

\* No factor fills a date it has left out, or takes one back, except before it
\* has begun.
THEOREM NoGapIsFilled == Spec => GapsStay
<1>1. history \in Seq(Bars) /\ [Next]_history => [OnAllFactors(Settled, history, history')]_history
  <2> SUFFICES ASSUME history \in Seq(Bars), Next
               PROVE  OnAllFactors(Settled, history, history')
    OBVIOUS
  <2>1. PICK b \in Bars : history' = Append(history, b)
    BY HistoryGrows
  <2>2. \A x, y : Stands(x, y, Len(history)) => Settled(x, y)
    BY DEF Stands, Settled, Dates
  <2> QED BY <2>1, <2>2, FactorsStand DEF OnAllFactors
<1> QED BY <1>1, HistoryType, PTL DEF GapsStay, Spec
=============================================================================

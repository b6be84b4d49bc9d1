--------------------------- MODULE BacktestProofs ---------------------------
(***************************************************************************)
(* Proofs about the day loop of the backtest, for all symbols, prices,     *)
(* rates, thresholds and allocations and any number of bars.               *)
(***************************************************************************)
EXTENDS Backtest, Sums, TLAPS

-----------------------------------------------------------------------------
(* Operators *)

\* The total of a function on the symbols is its sum over them.
LEMMA TotalIsSum ==
  ASSUME NEW f, DOMAIN f = Symbols
  PROVE  Total(f) = SumFunctionOnSet(f, Symbols)
  BY DEF Total, FoldFunction, SumFunctionOnSet

LEMMA TotalType ==
  ASSUME NEW f \in [Symbols -> Int]
  PROVE  Total(f) \in Int
  BY SymbolsAssumption, TotalIsSum, SumType

LEMMA TotalNat ==
  ASSUME NEW f \in [Symbols -> Nat]
  PROVE  Total(f) \in Nat /\ \A s \in Symbols : f[s] <= Total(f)
  BY SymbolsAssumption, TotalIsSum, SumNat

\* A fill moves the total by its notional.
LEMMA TotalChange ==
  ASSUME NEW f \in [Symbols -> Int], NEW s \in Symbols, NEW x \in Int
  PROVE  Total([f EXCEPT ![s] = @ + x]) = Total(f) + x
<1> DEFINE g == [f EXCEPT ![s] = @ + x]
<1>1. g \in [Symbols -> Int] /\ g[s] = f[s] + x /\ f[s] \in Int
  OBVIOUS
<1>2. \A t \in Symbols \ {s} : g[t] = f[t]
  OBVIOUS
<1>3. SumFunctionOnSet(g, Symbols) = SumFunctionOnSet(f, Symbols) + g[s] - f[s]
  <2> HIDE DEF g
  <2> QED
    BY <1>1, <1>2, SymbolsAssumption, SumChange
<1>4. Total(g) = SumFunctionOnSet(g, Symbols) /\ Total(f) = SumFunctionOnSet(f, Symbols)
  <2>1. DOMAIN g = Symbols /\ DOMAIN f = Symbols
    OBVIOUS
  <2> HIDE DEF g
  <2> QED
    BY <2>1, TotalIsSum
<1>5. Total(f) \in Int
  BY TotalType
<1> HIDE DEF g
<1>6. Total(g) = Total(f) + x
  BY <1>1, <1>3, <1>4, <1>5
<1> QED
  BY <1>6 DEF g

\* A larger position on every symbol is a larger total.
LEMMA TotalMonotone ==
  ASSUME NEW f \in [Symbols -> Int], NEW g \in [Symbols -> Int],
         \A s \in Symbols : f[s] <= g[s]
  PROVE  Total(f) <= Total(g)
<1>1. SumFunctionOnSet(f, Symbols) <= SumFunctionOnSet(g, Symbols)
  BY SymbolsAssumption, SumMonotone
<1> QED
  BY <1>1, TotalIsSum

\* ... and a sum of functions the sum of the totals.
LEMMA SumOfSymbols ==
  ASSUME NEW f, NEW g, NEW h, NEW a \in Int,
         \A s \in Symbols : f[s] \in Int /\ g[s] \in Int /\ h[s] = a * f[s] + g[s]
  PROVE  SumFunctionOnSet(h, Symbols)
           = a * SumFunctionOnSet(f, Symbols) + SumFunctionOnSet(g, Symbols)
<1>1. IsFiniteSet(Symbols)
  BY SymbolsAssumption
<1> QED
  BY <1>1, SumLinear

\* The rates are between nothing and all that is traded.
LEMMA Rates ==
  /\ WHOLE \in Nat \ {0}
  /\ BuyBps \in 0..WHOLE /\ SellBps \in 0..WHOLE
  BY MoneyAssumption DEF WHOLE

\* A cost is never negative, and never more than what is traded.
LEMMA CostRange ==
  ASSUME NEW notional \in Int, NEW bps \in 0..WHOLE
  PROVE  /\ Cost(notional, bps) \in Nat
         /\ Cost(notional, bps) <= Size(notional)
         /\ Cost(notional, bps) * WHOLE <= Size(notional) * bps
<1> DEFINE n == Size(notional)
           q == (n * bps) \div WHOLE
<1>1. n \in Nat /\ n \in Int /\ bps \in Int /\ 0 \in Int
  BY Rates DEF Size
<1> HIDE DEF n
<1>2. n * bps \in Int /\ bps * n <= WHOLE * n /\ 0 * n <= bps * n
  BY <1>1, Rates, MulMono
<1>3. bps * n = n * bps /\ WHOLE * n = n * WHOLE /\ 0 * n = 0 /\ 0 * WHOLE = 0
  BY <1>1, Rates
<1>4. n * bps <= n * WHOLE /\ 0 * WHOLE <= n * bps
  BY <1>2, <1>3
<1>5. q <= n /\ 0 <= q
  BY <1>1, <1>2, <1>4, Rates, DivBound, DivFloor, Zenon
<1>6. q \in Int /\ q * WHOLE <= n * bps
  BY <1>2, Rates, DivRange, Zenon
<1>7. Cost(notional, bps) = q
  BY DEF Cost, n
<1> HIDE DEF q
<1>8. q \in Nat
  BY <1>5, <1>6
<1> QED
  BY <1>5, <1>6, <1>7, <1>8 DEF n

LEMMA CostOfNat ==
  ASSUME NEW n \in Nat, NEW bps \in 0..WHOLE
  PROVE  Cost(n, bps) \in Nat /\ Cost(n, bps) <= n /\ Cost(n, bps) * WHOLE <= n * bps
<1>1. n \in Int /\ Size(n) = n
  BY DEF Size
<1>2. /\ Cost(n, bps) \in Nat
      /\ Cost(n, bps) <= Size(n)
      /\ Cost(n, bps) * WHOLE <= Size(n) * bps
  BY <1>1, CostRange, Zenon
<1> QED
  BY <1>1, <1>2, Zenon

\* What a buy takes after it was shrunk is not negative, not more than was
\* wanted, and paid for with its cost.
LEMMA AffordableRange ==
  ASSUME NEW notional \in Nat, cash \in Nat
  PROVE  /\ Affordable(notional) \in Nat
         /\ Affordable(notional) <= notional
         /\ Affordable(notional) + Cost(Affordable(notional), BuyBps) <= cash
<1> DEFINE c == Cost(notional, BuyBps)
           w == WHOLE + BuyBps
           n == (cash * WHOLE) \div w
<1>0. w \in Nat \ {0} /\ w \in Int
  BY Rates
<1>1. c \in Nat /\ c * WHOLE <= notional * BuyBps
  BY Rates, CostOfNat, Zenon
<1>2. CASE notional + c <= cash
  <2>1. Affordable(notional) = notional
    BY <1>1, <1>2 DEF Affordable
  <2> QED
    BY <1>2, <2>1
<1>3. CASE notional + c > cash
  <2> HIDE DEF c, w
  <2>1. cash * WHOLE \in Int /\ 0 * w = 0 /\ 0 <= cash * WHOLE /\ 0 \in Int
    BY <1>0, Rates
  <2>2. 0 * w <= cash * WHOLE
    BY <2>1
  <2>3. n \in Int /\ 0 <= n /\ n * w <= cash * WHOLE
    BY <1>0, <2>1, <2>2, DivRange, DivFloor, Zenon
  <2>4. Affordable(notional) = n
    BY <1>0, <1>1, <1>3, <2>3, Rates DEF Affordable, Greatest, c, w
  <2>5. n <= notional
    <3>1. notional * w = notional * WHOLE + notional * BuyBps /\ notional * BuyBps \in Int
      BY Rates DEF w
    <3>2. cash * WHOLE <= (notional + c) * WHOLE
      BY <1>1, <1>3, Rates, MulMono
    <3>3. (notional + c) * WHOLE = notional * WHOLE + c * WHOLE /\ c * WHOLE \in Int
      BY <1>1, Rates
    <3>4. cash * WHOLE <= notional * w
      BY <1>1, <2>1, <3>1, <3>2, <3>3, Rates
    <3>5. notional \in Int
      OBVIOUS
    <3> QED
      BY <1>0, <2>1, <3>4, <3>5, DivBound, Zenon
  <2> HIDE DEF n
  <2>6. n + Cost(n, BuyBps) <= cash
    <3> DEFINE p == Cost(n, BuyBps)
    <3>1. n \in Nat
      BY <2>3
    <3>2. p \in Nat /\ p * WHOLE <= n * BuyBps
      BY <3>1, Rates, CostOfNat, Zenon
    <3> HIDE DEF p
    <3>3. n * w = n * WHOLE + n * BuyBps /\ n * BuyBps \in Int /\ n * WHOLE \in Int
      BY Rates, <3>1 DEF w
    <3>4. (n + p) * WHOLE = n * WHOLE + p * WHOLE /\ p * WHOLE \in Int
      BY Rates, <3>1, <3>2
    <3>5. (n + p) * WHOLE <= cash * WHOLE
      BY <2>1, <2>3, <3>2, <3>3, <3>4
    <3>6. SUFFICES ASSUME cash + 1 <= n + p PROVE FALSE
      BY <3>1, <3>2 DEF p
    <3>7. (cash + 1) * WHOLE <= (n + p) * WHOLE
      BY <3>1, <3>2, <3>6, Rates, MulMono
    <3>8. (cash + 1) * WHOLE = cash * WHOLE + WHOLE
      BY Rates
    <3> QED
      BY <2>1, <3>1, <3>2, <3>4, <3>5, <3>7, <3>8, Rates
  <2> QED
    BY <2>3, <2>4, <2>5, <2>6
<1> QED
  BY <1>1, <1>2, <1>3

\* A buy is only ever scaled down.
LEMMA ShareRange ==
  ASSUME NEW trade \in Nat, funding \in [available : Nat, required : Nat]
  PROVE  Share(trade) \in Nat /\ Share(trade) <= trade
<1> DEFINE a == funding.available
           r == funding.required
<1>1. a \in Nat /\ r \in Nat
  OBVIOUS
<1>2. CASE a < r
  <2>0. Share(trade) = (trade * a) \div r
    BY <1>2 DEF Share
  <2> HIDE DEF a, r
  <2>1. trade * a \in Int /\ a * trade <= r * trade /\ 0 * a <= trade * a
    BY <1>1, <1>2, MulMono
  <2>2. a * trade = trade * a /\ r * trade = trade * r /\ 0 * a = 0 /\ 0 * r = 0
    BY <1>1
  <2>3. r \in Nat \ {0}
    BY <1>1, <1>2
  <2>4. (trade * a) \div r <= trade /\ 0 <= (trade * a) \div r
    BY <2>1, <2>2, <2>3, DivBound, DivFloor
  <2>5. (trade * a) \div r \in Int
    BY <2>1, <2>3, DivRange
  <2> QED
    BY <2>0, <2>4, <2>5
<1>3. CASE ~(a < r)
  BY <1>3 DEF Share
<1> QED
  BY <1>1, <1>2, <1>3
-----------------------------------------------------------------------------
(* The inductive invariants *)

Trading == phase \in {"sell", "buy"}

\* The kind of every variable, whatever flows the bars bring.
Types ==
  /\ step \in 0..LastStep /\ date \in Nat
  /\ phase \in {"mark", "flow", "decide", "sell", "buy", "close", "done"}
  /\ cash \in Int /\ position \in [Symbols -> Int]
  /\ trades \in [Symbols -> Int] /\ desired \in [Symbols -> Int]
  /\ peak_nav \in Nat \ {0} /\ day_cost \in Nat /\ flow \in Int
  /\ funding \in [available : Nat, required : Nat]
  /\ books \in [earned : Int, funded : Int, paid : Nat]
  /\ traded_on \in Nat \cup {None}

\* The fields of the overlay and of the trigger.
Engines ==
  /\ multiplier \in 10..100
  /\ drawdown_state \in Overlay!DrawdownStates
  /\ overlay_state \in Overlay!OverlayStates \ {"paused"}
  /\ recovery_cooldown \in 0..10
  /\ previous_drawdown \in Int
  /\ spike \in BOOLEAN
  /\ calm \in 0..11
  /\ Trigger!TriggerTypeOK

\* What is held is never negative, and no sell still to do exceeds its position.
Holdings ==
  /\ cash >= 0 /\ \A s \in Symbols : position[s] >= 0
  /\ units \in Nat /\ flow \in Nat /\ close \in [nav : Nat, units : Nat]
  /\ target \in [Symbols -> Nat] /\ desired \in [Symbols -> Nat]
  /\ previous_drawdown \in -WHOLE..0
  /\ Trading => \A s \in Symbols : trades[s] < 0 => position[s] + trades[s] >= 0

\* Until the flow of the bar comes no units are issued.
UnitsAtClose == phase \in {"mark", "flow"} => units = close.units

\* A rebalance under way: what is still to do leads at most to what is desired,
\* but for a trade too small to do, and what is desired is within the overlay.
Ratio == IF step = 0 THEN DeploymentRatio ELSE 100
TooSmall == (DecisionNAV * MinTradeBps) \div WHOLE
Rebalance ==
  /\ Trading => decision.should
  /\ phase = "buy" => \A s \in Symbols : trades[s] >= 0
  /\ phase = "close" /\ decision.should => \A s \in Symbols : trades[s] = 0
  /\ Trading \/ (phase = "close" /\ decision.should) =>
       /\ \A s \in Symbols : position[s] + trades[s] <= desired[s] + TooSmall
       /\ Total(desired) * WHOLE <= DecisionNAV * multiplier * Ratio

\* Before the first decision nothing has happened but a deposit.
FirstBar ==
  step = 0 /\ phase \in {"mark", "flow", "decide"} =>
    /\ last_rebalance = None /\ traded_on = None
    /\ position = Nothing /\ cash >= InitialCapital /\ peak_nav = InitialCapital
    /\ multiplier = 100 /\ overlay_state = "full_risk" /\ spike = FALSE

\* The trigger remembers the last rebalance.
Remembered == traded_on = last_rebalance

-----------------------------------------------------------------------------
(* The engines *)

\* One update of the overlay, whatever the drawdown.
LEMMA OverlayStep ==
  ASSUME Engines, NEW dd \in Int, Overlay!Update(dd, "none")
  PROVE  /\ multiplier' \in 10..100
         /\ drawdown_state' \in Overlay!DrawdownStates
         /\ overlay_state' \in Overlay!OverlayStates \ {"paused"}
         /\ recovery_cooldown' \in 0..10
         /\ previous_drawdown' = dd
         /\ spike' \in BOOLEAN
         /\ calm' \in 0..11
<1>1. drawdown_state' \in Overlay!DrawdownStates
  BY DEF Overlay!Update, Overlay!Observe, Overlay!Classify, Overlay!DrawdownStates
<1>2. spike' = spike /\ spike' \in BOOLEAN /\ previous_drawdown' = dd
  BY DEF Overlay!Update, Overlay!Observe, Engines
<1>3. calm' \in 0..11
  BY DEF Overlay!Update, Overlay!Observe, Engines, Overlay!Least, Overlay!CALM, Overlay!COOLDOWN
<1>4. ASSUME NEW m \in Nat, NEW p \in BOOLEAN
      PROVE  Overlay!Settle(m, p) \in 10..100
  BY DEF Overlay!Settle, Overlay!Greatest, Overlay!Least, Overlay!FLOOR, Overlay!FULL
<1>5. \A s : Overlay!RiskMultiplier(s) \in {100, 80, 55, 30, 10}
  BY DEF Overlay!RiskMultiplier
<1>6. /\ multiplier' \in 10..100
      /\ overlay_state' \in Overlay!OverlayStates \ {"paused"}
      /\ recovery_cooldown' \in 0..10
  <2>1. CASE Overlay!Cut(dd)
    <3>1. Overlay!Least(multiplier, Overlay!RiskMultiplier(Overlay!Classify(dd))) \in Nat
      BY <1>5 DEF Engines, Overlay!Least
    <3> QED
      BY <2>1, <3>1, <1>2, <1>4 DEF Overlay!Cut, Overlay!OverlayStates, Overlay!COOLDOWN
  <2>2. CASE Overlay!Cool(dd)
    BY <2>2, <1>2, <1>4 DEF Overlay!Cool, Engines, Overlay!OverlayStates
  <2>3. CASE Overlay!Recover(dd)
    <3> DEFINE raised == Overlay!Least(Overlay!RiskMultiplier("normal"), multiplier + RecoveryStep)
               last == raised >= Overlay!NEARLY_FULL
    <3>1. raised \in Nat
      BY <1>5, OverlayAssumption DEF Engines, Overlay!Least
    <3>2. (IF last THEN Overlay!FULL ELSE raised) \in Nat
      BY <3>1 DEF Overlay!FULL
    <3>3. multiplier' = Overlay!Settle(IF last THEN Overlay!FULL ELSE raised, spike')
      BY <2>3 DEF Overlay!Recover
    <3>4. overlay_state' = IF last THEN "full_risk" ELSE "recovering"
      BY <2>3 DEF Overlay!Recover
    <3>5. recovery_cooldown' = recovery_cooldown
      BY <2>3 DEF Overlay!Recover
    <3> HIDE DEF raised, last
    <3> QED
      BY <3>2, <3>3, <3>4, <3>5, <1>2, <1>4 DEF Engines, Overlay!OverlayStates
  <2>4. CASE Overlay!Hold(dd)
    BY <2>4, <1>2, <1>4 DEF Overlay!Hold, Engines, Overlay!OverlayStates
  <2> QED
    BY <2>1, <2>2, <2>3, <2>4 DEF Overlay!Update
<1> QED
  BY <1>1, <1>2, <1>3, <1>6

\* The trigger counts with the same operator.
LEMMA SameCardinality == \A S : Trigger!Cardinality(S) = Cardinality(S)
  BY DEF Trigger!Cardinality, Cardinality

\* A number of drawdown levels.
LEMMA LevelType ==
  ASSUME NEW dd
  PROVE  Trigger!Level(dd) \in 0..Cardinality(DrawdownLevels)
<1> DEFINE L == {t \in DrawdownLevels : dd <= t}
<1>1. L \subseteq DrawdownLevels /\ IsFiniteSet(DrawdownLevels)
  BY TriggerAssumption
<1>2. /\ IsFiniteSet(L) /\ Cardinality(L) <= Cardinality(DrawdownLevels)
  BY <1>1, FS_Subset
<1>3. Cardinality(L) \in Nat /\ Cardinality(DrawdownLevels) \in Nat
  BY <1>1, <1>2, FS_CardinalityType
<1>4. Trigger!Level(dd) = Cardinality(L)
  BY SameCardinality DEF Trigger!Level
<1> QED
  BY <1>2, <1>3, <1>4

\* What the trigger says and remembers.
LEMMA TriggerStep ==
  ASSUME Types, Engines, NEW drift \in BOOLEAN, NEW bucket, NEW breach \in BOOLEAN,
         NEW dd, NEW f, Trigger!Evaluate(date, drift, bucket, breach, dd, f)
  PROVE  /\ last_rebalance' \in Nat \cup {None}
         /\ previous_level' \in 0..Cardinality(DrawdownLevels)
         /\ Trigger!Verdict(date, drift, bucket, breach, dd, f)
              \in [should : BOOLEAN, reasons : SUBSET Trigger!Reasons]
<1> DEFINE v == Trigger!Verdict(date, drift, bucket, breach, dd, f)
<1>1. last_rebalance' \in Nat \cup {None}
  BY DEF Trigger!Evaluate, Engines, Types, Trigger!TriggerTypeOK
<1>2. previous_level' \in 0..Cardinality(DrawdownLevels)
  BY LevelType DEF Trigger!Evaluate
<1>3. Trigger!Collected(drift, bucket, breach, dd, f) \subseteq Trigger!Reasons
  BY DEF Trigger!Collected, Trigger!Reasons, Trigger!RiskReasons
<1>4. v \in [should : BOOLEAN, reasons : SUBSET Trigger!Reasons]
  BY <1>3 DEF Trigger!Verdict
<1> QED
  BY <1>1, <1>2, <1>4
-----------------------------------------------------------------------------
(* One step, whatever the flows *)

LEMMA NAVType ==
  ASSUME Types
  PROVE  NAV \in Int
  BY TotalType DEF Types, NAV

\* The drawdown is a number, because the peak is never nothing.
LEMMA DrawdownType ==
  ASSUME NEW nav \in Int, NEW peak \in Nat \ {0}
  PROVE  Drawdown(nav, peak) \in Int
<1>1. (peak - nav) * WHOLE \in Int
  BY Rates
<1>2. ((peak - nav) * WHOLE) \div peak \in Int
  BY <1>1, DivRange, Zenon
<1> QED
  BY <1>2 DEF Drawdown

\* The weights that are traded on.
LEMMA WeightsType ==
  ASSUME Types, NEW alloc \in Allocations, NEW mult \in Nat
  PROVE  Deployed(Scaled(alloc, mult)) \in [Symbols -> Nat]
<1>1. \A s \in Symbols : alloc[s] \in 0..100
  BY InputsAssumption
<1>2. Scaled(alloc, mult) \in [Symbols -> Nat]
  BY <1>1 DEF Scaled
<1>3. DeploymentRatio \in Nat
  BY MoneyAssumption
<1> DEFINE w == Scaled(alloc, mult)
<1> HIDE DEF w
<1>4. \A s \in Symbols : (w[s] * DeploymentRatio) \div 100 \in Nat
  <2> SUFFICES ASSUME NEW s \in Symbols PROVE (w[s] * DeploymentRatio) \div 100 \in Nat
    OBVIOUS
  <2>1. w[s] * DeploymentRatio \in Nat
    BY <1>2, <1>3 DEF w
  <2> QED
    BY <2>1
<1>5. Deployed(w) \in [Symbols -> Nat]
  BY <1>2, <1>4 DEF Deployed, w
<1> QED
  BY <1>5 DEF w

\* What a decision works out.
LEMMA DecideFacts ==
  ASSUME Types, Engines, NEW alloc \in Allocations, NEW bucket \in Buckets,
         NEW breach \in BOOLEAN, Decide(alloc, bucket, breach)
  PROVE  /\ peak_nav' \in Nat \ {0} /\ peak_nav' >= NAV
         /\ Drawdown(NAV, peak_nav') \in Int
         /\ Engines'
         /\ decision'.should =>
              /\ target' = Deployed(Scaled(alloc, multiplier')) /\ target' \in [Symbols -> Nat]
              /\ desired' = Wanted(target', NAV) /\ desired' \in [Symbols -> Int]
              /\ trades' = Worthwhile(desired', NAV) /\ trades' \in [Symbols -> Int]
<1> DEFINE dd == Drawdown(NAV, peak_nav')
           drift == Drifted(NAV, Scaled(alloc, multiplier'))
<1>1. peak_nav' \in Nat \ {0} /\ peak_nav' >= NAV
  BY NAVType DEF Decide, Types, Greatest
<1>2. dd \in Int
  BY <1>1, NAVType, DrawdownType
<1>3. Overlay!Update(dd, "none") /\ Trigger!Evaluate(date, drift, bucket, breach, dd, flow)
  BY DEF Decide
<1>4. decision' = IF step = 0
                  THEN [should |-> TRUE, reasons |-> {"initial_deployment"}]
                  ELSE Trigger!Verdict(date, drift, bucket, breach, dd, flow)
  BY DEF Decide
<1>5. drift \in BOOLEAN
  BY DEF Drifted
<1> HIDE DEF dd, drift
<1>6. /\ multiplier' \in 10..100
      /\ drawdown_state' \in Overlay!DrawdownStates
      /\ overlay_state' \in Overlay!OverlayStates \ {"paused"}
      /\ recovery_cooldown' \in 0..10
      /\ previous_drawdown' = dd
      /\ spike' \in BOOLEAN
      /\ calm' \in 0..11
  BY <1>2, <1>3, OverlayStep
<1>7. /\ last_rebalance' \in Nat \cup {None}
      /\ previous_level' \in 0..Cardinality(DrawdownLevels)
      /\ Trigger!Verdict(date, drift, bucket, breach, dd, flow)
           \in [should : BOOLEAN, reasons : SUBSET Trigger!Reasons]
  BY <1>3, <1>5, TriggerStep
<1>8. decision' \in [should : BOOLEAN, reasons : SUBSET Trigger!Reasons]
  BY <1>4, <1>7 DEF Trigger!Reasons
<1>9. Engines'
  BY <1>2, <1>6, <1>7, <1>8, SameCardinality DEF Engines, Trigger!TriggerTypeOK
<1>10. ASSUME decision'.should
       PROVE  /\ target' = Deployed(Scaled(alloc, multiplier')) /\ target' \in [Symbols -> Nat]
              /\ desired' = Wanted(target', NAV) /\ desired' \in [Symbols -> Int]
              /\ trades' = Worthwhile(desired', NAV) /\ trades' \in [Symbols -> Int]
  <2>1. /\ target' = Deployed(Scaled(alloc, multiplier'))
        /\ desired' = Wanted(target', NAV)
        /\ trades' = Worthwhile(desired', NAV)
    BY <1>10 DEF Decide
  <2>2. target' \in [Symbols -> Nat]
    BY <1>6, <2>1, WeightsType
  <2>3. \A s \in Symbols : (target'[s] * NAV) \div WHOLE \in Int
    <3> SUFFICES ASSUME NEW s \in Symbols PROVE (target'[s] * NAV) \div WHOLE \in Int
      OBVIOUS
    <3>1. target'[s] * NAV \in Int
      BY <2>2, NAVType
    <3> QED
      BY <3>1, Rates, DivRange, Zenon
  <2>4. desired' \in [Symbols -> Int]
    BY <2>1, <2>3 DEF Wanted
  <2>5. trades' \in [Symbols -> Int]
    BY <2>1, <2>4 DEF Worthwhile, Types
  <2> QED
    BY <2>1, <2>2, <2>4, <2>5
<1> QED
  BY <1>1, <1>2, <1>9, <1>10 DEF dd

\* The notional of a buy.
LEMMA BuyNotional ==
  ASSUME Types, NEW trade \in Nat
  PROVE  /\ Affordable(Share(trade)) \in Nat
         /\ Affordable(Share(trade)) <= trade
         /\ Cost(Affordable(Share(trade)), BuyBps) \in Nat
         /\ cash >= 0 => Affordable(Share(trade))
                           + Cost(Affordable(Share(trade)), BuyBps) <= cash
<1> DEFINE n == Share(trade)
           a == Affordable(n)
<1>1. n \in Nat /\ n <= trade
  BY ShareRange DEF Types
<1> HIDE DEF n
<1>2. a \in Nat /\ a <= n /\ (cash >= 0 => a + Cost(a, BuyBps) <= cash)
  <2>1. CASE cash >= 0
    <3>1. cash \in Nat
      BY <2>1 DEF Types
    <3> QED
      BY <1>1, <3>1, AffordableRange, Zenon
  <2>2. CASE cash < 0
    <3>1. Cost(n, BuyBps) \in Nat
      BY <1>1, Rates, CostOfNat, Zenon
    <3>2. n + Cost(n, BuyBps) > cash
      BY <1>1, <2>2, <3>1 DEF Types
    <3>3. a = Greatest(0, (cash * WHOLE) \div (WHOLE + BuyBps))
      BY <3>2 DEF Affordable
    <3>4. cash * WHOLE \in Int /\ WHOLE + BuyBps \in Nat \ {0} /\ cash * WHOLE <= 0
          /\ 0 \in Int /\ 0 * (WHOLE + BuyBps) = 0
      BY <2>2, Rates DEF Types
    <3>5. cash * WHOLE <= 0 * (WHOLE + BuyBps)
      BY <3>4
    <3>6. (cash * WHOLE) \div (WHOLE + BuyBps) <= 0 /\ (cash * WHOLE) \div (WHOLE + BuyBps) \in Int
      BY <3>4, <3>5, DivBound, DivRange, Zenon
    <3>7. a = 0
      BY <3>3, <3>6 DEF Greatest
    <3> QED
      BY <1>1, <2>2, <3>7 DEF Types
  <2> QED
    BY <2>1, <2>2 DEF Types
<1> HIDE DEF a
<1>3. Cost(a, BuyBps) \in Nat
  BY <1>2, Rates, CostOfNat, Zenon
<1> QED
  BY <1>1, <1>2, <1>3 DEF a, n, Types

\* The first symbol is one.
LEMMA FirstIn ==
  ASSUME NEW S \in SUBSET Symbols, S # {}
  PROVE  First(S) \in S
<1>1. S \in SUBSET Nat
  BY SymbolsAssumption
<1>2. \E x \in S : \A y \in S : x <= y
  BY <1>1, NatMinimum
<1> QED
  BY <1>2 DEF First

\* A fill of a natural cost moves value between cash and a position, and costs.
LEMMA FillFacts ==
  ASSUME Types, NEW s \in Symbols, NEW n \in Int, NEW c \in Nat, Fill(s, n, c)
  PROVE  /\ cash' \in Int /\ position' \in [Symbols -> Int] /\ trades' \in [Symbols -> Int]
         /\ day_cost' \in Nat /\ day_cost' = day_cost + c
         /\ books' \in [earned : Int, funded : Int, paid : Nat]
         /\ books'.earned = books.earned /\ books'.funded = books.funded
         /\ books'.paid = books.paid + c
         /\ NAV' = NAV - c
         /\ DecisionNAV' = DecisionNAV
<1>1. /\ cash' = cash - (n + c) /\ cash' \in Int
      /\ position' = [position EXCEPT ![s] = @ + n] /\ position' \in [Symbols -> Int]
      /\ trades' \in [Symbols -> Int]
      /\ day_cost' = day_cost + c /\ day_cost' \in Nat
  BY DEF Fill, Types
<1>2. /\ books' \in [earned : Int, funded : Int, paid : Nat]
      /\ books'.earned = books.earned /\ books'.funded = books.funded
      /\ books'.paid = books.paid + c
  BY DEF Fill, Types
<1>3. Total(position') = Total(position) + n
  BY <1>1, TotalChange DEF Types
<1>4. Total(position) \in Int
  BY TotalType DEF Types
<1>5. NAV' = NAV - c
  BY <1>1, <1>3, <1>4 DEF NAV, Types
<1> QED
  BY <1>1, <1>2, <1>5, NAVType DEF DecisionNAV, Types

\* A sell is a fill of a negative notional, a buy of a natural one; both cost.
LEMMA SellIsFill ==
  ASSUME Types, Sell
  PROVE  \E s \in Symbols :
           /\ trades[s] \in Int /\ trades[s] < 0
           /\ Cost(trades[s], SellBps) \in Nat
           /\ Cost(trades[s], SellBps) <= -trades[s]
           /\ Fill(s, trades[s], Cost(trades[s], SellBps))
<1> DEFINE s == First(Sells)
<1>1. s \in Sells
  BY FirstIn DEF Sells, Sell
<1>2. s \in Symbols /\ trades[s] \in Int /\ trades[s] < 0
  BY <1>1 DEF Sells, Types
<1>3. Fill(s, trades[s], Cost(trades[s], SellBps))
  BY DEF Sell
<1> HIDE DEF s
<1>4. Cost(trades[s], SellBps) \in Nat /\ Cost(trades[s], SellBps) <= Size(trades[s])
  BY <1>2, Rates, CostRange, Zenon
<1>5. Size(trades[s]) = -trades[s]
  BY <1>2 DEF Size
<1> QED
  BY <1>2, <1>3, <1>4, <1>5

LEMMA BuyIsFill ==
  ASSUME Types, Buy
  PROVE  \E s \in Symbols, n \in Nat :
           /\ trades[s] \in Int /\ n <= trades[s]
           /\ Cost(n, BuyBps) \in Nat
           /\ cash >= 0 => n + Cost(n, BuyBps) <= cash
           /\ Fill(s, n, Cost(n, BuyBps))
<1> DEFINE s == First(Buys)
           n == Affordable(Share(trades[s]))
<1>1. s \in Buys
  BY FirstIn DEF Buys, Buy
<1>2. s \in Symbols /\ trades[s] \in Nat
  BY <1>1 DEF Buys, Types
<1>3. Fill(s, n, Cost(n, BuyBps))
  BY DEF Buy
<1> HIDE DEF s
<1>4. /\ n \in Nat /\ n <= trades[s] /\ Cost(n, BuyBps) \in Nat
      /\ cash >= 0 => n + Cost(n, BuyBps) <= cash
  BY <1>2, BuyNotional, Zenon
<1> HIDE DEF n
<1> QED
  BY <1>2, <1>3, <1>4

\* What the market does to cash and to the positions.
LEMMA MarkFacts ==
  ASSUME Types, NEW move \in Moves, NEW ret \in CashReturns, Mark(move, ret)
  PROVE  /\ cash' \in Int /\ position' \in [Symbols -> Int]
         /\ books' \in [earned : Int, funded : Int, paid : Nat]
         /\ books'.earned = books.earned + NAV' - NAV
         /\ books'.funded = books.funded /\ books'.paid = books.paid
<1>1. move \in [Symbols -> Nat] /\ ret \in Nat
  BY InputsAssumption
<1>2. cash' \in Int
  <2>1. cash * (WHOLE + ret) \in Int
    BY <1>1, Rates DEF Types
  <2>2. (cash * (WHOLE + ret)) \div WHOLE \in Int
    BY <2>1, Rates, DivRange, Zenon
  <2> QED
    BY <2>2 DEF Mark, Types
<1>3. position' \in [Symbols -> Int]
  <2>1. \A s \in Symbols : (position[s] * move[s]) \div 100 \in Int
    <3> SUFFICES ASSUME NEW s \in Symbols PROVE (position[s] * move[s]) \div 100 \in Int
      OBVIOUS
    <3>1. position[s] * move[s] \in Int
      BY <1>1 DEF Types
    <3> QED
      BY <3>1
  <2> QED
    BY <2>1 DEF Mark
<1>4. Total(position) \in Int /\ Total(position') \in Int
  BY <1>3, TotalType DEF Types
<1>5. books' = [books EXCEPT !.earned =
                  @ + cash' - cash + Total(position') - Total(position)]
  BY DEF Mark
<1>6. books.earned \in Int /\ books.funded \in Int /\ books.paid \in Nat
  BY DEF Types
<1>7. books'.earned = books.earned + NAV' - NAV
  BY <1>2, <1>4, <1>5, <1>6 DEF NAV, Types
<1> QED
  BY <1>2, <1>3, <1>4, <1>5, <1>6, <1>7 DEF Types

-----------------------------------------------------------------------------
(* The account *)

LEMMA TypesInit == Init => Types /\ Engines
<1> SUFFICES ASSUME Init PROVE Types /\ Engines
  OBVIOUS
<1>1. Nothing \in [Symbols -> Int]
  BY DEF Nothing
<1>2. LastStep \in Nat /\ InitialCapital \in Nat \ {0}
  BY InputsAssumption, MoneyAssumption
<1>i. Types
  BY <1>1, <1>2 DEF Init, Types
<1>3. Cardinality(DrawdownLevels) \in Nat
  BY TriggerAssumption, FS_CardinalityType
<1>4. Trigger!TriggerTypeOK
  BY <1>3, SameCardinality DEF Init, Trigger!TriggerInit, Trigger!TriggerTypeOK
<1>s. spike \in BOOLEAN
  BY DEF Init, Overlay!Init
<1>5. Engines
  BY <1>4, <1>s DEF Init, Engines, Overlay!Init, Overlay!FULL, Overlay!DrawdownStates,
     Overlay!OverlayStates
<1> QED
  BY <1>i, <1>5

\* Only the decision touches the engines.
LEMMA EnginesKept ==
  ASSUME Engines, UNCHANGED <<overlayVars, triggerVars>>
  PROVE  Engines'
  BY DEF Engines, overlayVars, triggerVars, Trigger!TriggerTypeOK

LEMMA TypesStep == Types /\ Engines /\ [Next]_vars => Types' /\ Engines'
<1> SUFFICES ASSUME Types, Engines, [Next]_vars PROVE Types' /\ Engines'
  OBVIOUS
<1>1. ASSUME NEW move \in Moves, NEW ret \in CashReturns, Mark(move, ret)
      PROVE  Types' /\ Engines'
  <2>1. Engines'
    BY <1>1, EnginesKept DEF Mark
  <2>2. Types'
    BY <1>1, MarkFacts DEF Mark, Types, clockVars, markVars, tradeVars
  <2> QED
    BY <2>1, <2>2
<1>2. ASSUME NEW f \in Flows, ApplyFlow(f) PROVE Types' /\ Engines'
  <2>1. f \in Int
    BY InputsAssumption
  <2>2. Engines'
    BY <1>2, EnginesKept DEF ApplyFlow
  <2>3. Types'
    BY <1>2, <2>1 DEF ApplyFlow, Types, clockVars, tradeVars
  <2> QED
    BY <2>2, <2>3
<1>3. ASSUME NEW alloc \in Allocations, NEW bucket \in Buckets, NEW breach \in BOOLEAN,
             Decide(alloc, bucket, breach)
      PROVE  Types' /\ Engines'
  <2>1. /\ peak_nav' \in Nat \ {0}
        /\ Engines'
        /\ decision'.should => /\ desired' \in [Symbols -> Int]
                               /\ trades' \in [Symbols -> Int]
    BY <1>3, DecideFacts
  <2>2. /\ ~decision'.should => UNCHANGED <<desired, trades, traded_on>> /\ phase' = "close"
        /\ decision'.should => traded_on' = date /\ phase' = "sell"
        /\ UNCHANGED <<clockVars, cash, position, units, books, close, flow, funding>>
        /\ day_cost' = 0
    BY <1>3 DEF Decide
  <2>3. Types'
    BY <2>1, <2>2 DEF Types, clockVars
  <2> QED
    BY <2>1, <2>3
<1>4. CASE Sell
  <2>1. Engines'
    BY <1>4, EnginesKept DEF Sell
  <2>2. PICK s \in Symbols : /\ trades[s] \in Int
                             /\ Cost(trades[s], SellBps) \in Nat
                             /\ Fill(s, trades[s], Cost(trades[s], SellBps))
    BY <1>4, SellIsFill
  <2>3. Types'
    BY <1>4, <2>2, FillFacts DEF Sell, Types, clockVars, markVars
  <2> QED
    BY <2>1, <2>3
<1>5. CASE StartBuys
  <2>1. Engines'
    BY <1>5, EnginesKept DEF StartBuys
  <2>2. [s \in Symbols |-> Greatest(0, trades[s])] \in [Symbols -> Nat]
    BY DEF Types, Greatest
  <2>3. funding' \in [available : Nat, required : Nat]
    BY <1>5, <2>2, TotalNat DEF StartBuys, Types, Greatest
  <2>4. Types'
    BY <1>5, <2>3 DEF StartBuys, Types, clockVars, moneyVars, markVars
  <2> QED
    BY <2>1, <2>4
<1>6. CASE Buy
  <2>1. Engines'
    BY <1>6, EnginesKept DEF Buy
  <2>2. PICK s \in Symbols, n \in Nat : /\ Cost(n, BuyBps) \in Nat
                                        /\ Fill(s, n, Cost(n, BuyBps))
    BY <1>6, BuyIsFill
  <2>3. Types'
    BY <1>6, <2>2, FillFacts DEF Buy, Types, clockVars, markVars
  <2> QED
    BY <2>1, <2>3
<1>7. CASE EndBuys
  <2>1. Engines'
    BY <1>7, EnginesKept DEF EndBuys
  <2>2. Types'
    BY <1>7 DEF EndBuys, Types, clockVars, moneyVars, markVars, tradeVars
  <2> QED
    BY <2>1, <2>2
<1>8. ASSUME NEW gap \in Gaps, Close(gap) PROVE Types' /\ Engines'
  <2>1. Engines'
    BY <1>8, EnginesKept DEF Close
  <2>2. peak_nav' \in Nat \ {0}
    BY <1>8, NAVType DEF Close, Types, Greatest
  <2>3. step' \in 0..LastStep /\ date' \in Nat
        /\ phase' \in {"mark", "flow", "decide", "sell", "buy", "close", "done"}
    <3>1. LastStep \in Nat /\ gap \in Nat
      BY InputsAssumption
    <3> QED
      BY <1>8, <3>1 DEF Close, Types, clockVars
  <2>4. Types'
    BY <1>8, <2>2, <2>3 DEF Close, Types, moneyVars, tradeVars
  <2> QED
    BY <2>1, <2>4
<1>9. CASE UNCHANGED vars
  BY <1>9, EnginesKept
     DEF vars, Types, clockVars, moneyVars, markVars, tradeVars, overlayVars, triggerVars
<1> QED
  BY <1>1, <1>2, <1>3, <1>4, <1>5, <1>6, <1>7, <1>8, <1>9 DEF Next, Finished

\* In every run every variable keeps its kind.
THEOREM TypesInvariant == Spec => [](Types /\ Engines)
  BY TypesInit, TypesStep, PTL DEF Spec

LEMMA AccountInit == Init => Books!Init
<1> SUFFICES ASSUME Init PROVE Books!Init
  OBVIOUS
<1>1. SumFunctionOnSet(Nothing, Symbols) = 0 * Cardinality(Symbols)
  <2>1. \A s \in Symbols : Nothing[s] = 0
    BY DEF Nothing
  <2>2. 0 \in Int
    OBVIOUS
  <2> QED
    BY <2>1, <2>2, SymbolsAssumption, SumConstant, Zenon
<1>2. Total(Nothing) = 0
  BY <1>1, TotalIsSum, SymbolsAssumption, FS_CardinalityType DEF Nothing
<1>3. NAV = InitialCapital
  BY <1>2, MoneyAssumption DEF Init, NAV
<1> QED
  BY <1>3 DEF Init, Books!Init

\* Each step of a bar is a step of the account, or leaves it alone.
LEMMA AccountStep ==
  Types /\ Engines /\ [Next]_vars => [Books!Next]_Books!accountVars
<1> SUFFICES ASSUME Types, Engines, [Next]_vars
             PROVE  [Books!Next]_Books!accountVars
  OBVIOUS
<1>0. /\ books.earned \in Int /\ books.funded \in Int /\ books.paid \in Nat
      /\ NAV \in Int
  BY NAVType DEF Types
<1>t. NAV' \in Int
  <2>1. cash' \in Int /\ position' \in [Symbols -> Int]
    BY TypesStep DEF Types
  <2> QED
    BY <2>1, TotalType DEF NAV
<1>1. ASSUME NEW move \in Moves, NEW ret \in CashReturns, Mark(move, ret)
      PROVE  Books!Earn
  BY <1>0, <1>t, <1>1, MarkFacts DEF Books!Earn
<1>2. ASSUME NEW f \in Flows, ApplyFlow(f) PROVE Books!Fund
  <2>1. f \in Int /\ Total(position) \in Int
    BY InputsAssumption, TotalType DEF Types
  <2>2. cash' = cash + f /\ position' = position /\ books' = [books EXCEPT !.funded = @ + f]
    BY <1>2 DEF ApplyFlow
  <2>3. NAV' = NAV + f
    BY <2>1, <2>2 DEF NAV, Types
  <2>4. /\ books'.funded = books.funded + f
        /\ books'.earned = books.earned /\ books'.paid = books.paid
    BY <2>2 DEF Types
  <2> QED
    BY <1>0, <2>1, <2>3, <2>4 DEF Books!Fund
<1>3. ASSUME NEW s \in Symbols, NEW n \in Int, NEW c \in Nat, Fill(s, n, c)
      PROVE  Books!Pay
  BY <1>0, <1>3, FillFacts DEF Books!Pay
<1>4. ASSUME UNCHANGED <<cash, position, books>>
      PROVE  UNCHANGED Books!accountVars
  BY <1>4 DEF Books!accountVars, NAV
<1>5. CASE Sell
  BY <1>3, <1>5, SellIsFill DEF Books!Next
<1>6. CASE Buy
  <2>1. PICK s \in Symbols, n \in Nat : /\ Cost(n, BuyBps) \in Nat
                                        /\ Fill(s, n, Cost(n, BuyBps))
    BY <1>6, BuyIsFill
  <2>2. n \in Int
    OBVIOUS
  <2> QED
    BY <1>3, <2>1, <2>2 DEF Books!Next
<1>7. ASSUME NEW alloc \in Allocations, NEW bucket \in Buckets, NEW breach \in BOOLEAN,
             Decide(alloc, bucket, breach)
      PROVE  UNCHANGED <<cash, position, books>>
  BY <1>7 DEF Decide
<1>8. CASE StartBuys
  BY <1>4, <1>8 DEF StartBuys, moneyVars
<1>9. CASE EndBuys
  BY <1>4, <1>9 DEF EndBuys, moneyVars
<1>10. ASSUME NEW gap \in Gaps, Close(gap) PROVE UNCHANGED <<cash, position, books>>
  BY <1>10 DEF Close, moneyVars
<1>11. CASE UNCHANGED vars
  BY <1>4, <1>11 DEF vars, moneyVars
<1> QED
  BY <1>1, <1>2, <1>4, <1>5, <1>6, <1>7, <1>8, <1>9, <1>10, <1>11
     DEF Next, Finished, Books!Next

\* The run implements the account, for every price, flow and rate: no step of
\* any bar moves NAV but by what the books name.
THEOREM RunImplementsAccount == Spec => AccountHonoured
  BY AccountInit, AccountStep, TypesInvariant, PTL DEF Spec, AccountHonoured, Books!Spec

-----------------------------------------------------------------------------
(* Solvency: without withdrawals nothing is ever overdrawn *)

LEMMA NAVNat ==
  ASSUME Types, Holdings
  PROVE  /\ cash \in Nat /\ position \in [Symbols -> Nat]
         /\ NAV \in Nat /\ NAV >= cash
<1>1. cash \in Nat /\ position \in [Symbols -> Nat]
  BY DEF Types, Holdings
<1>2. Total(position) \in Nat
  BY <1>1, TotalNat
<1> QED
  BY <1>1, <1>2 DEF NAV

\* A drawdown of a NAV between nothing and the peak is at most the whole.
LEMMA DrawdownRange ==
  ASSUME NEW nav \in Nat, NEW peak \in Nat \ {0}, nav <= peak
  PROVE  Drawdown(nav, peak) \in -WHOLE..0
<1> DEFINE d == (peak - nav) * WHOLE
<1>1. /\ peak - nav \in Int /\ peak \in Int /\ 0 \in Int /\ peak - nav <= peak /\ 0 <= peak - nav
      /\ WHOLE \in Nat /\ WHOLE \in Int
  BY Rates
<1>2. d <= peak * WHOLE /\ 0 * WHOLE <= d /\ d \in Int
  BY <1>1, MulMono, Zenon
<1>3. peak * WHOLE = WHOLE * peak /\ 0 * WHOLE = 0 /\ 0 * peak = 0
  BY <1>1
<1>4. d <= WHOLE * peak /\ 0 * peak <= d
  BY <1>2, <1>3
<1>5. d \div peak <= WHOLE /\ 0 <= d \div peak /\ d \div peak \in Int
  BY <1>1, <1>2, <1>4, DivBound, DivFloor, DivRange, Zenon
<1> QED
  BY <1>1, <1>5 DEF Drawdown

\* A deposit buys a natural number of units, between its worth of them and one less.
LEMMA IssuedRange ==
  ASSUME Types, Holdings, NEW f \in Nat, f = 0 \/ close.nav # 0
  PROVE  /\ Issued(f) \in Nat
         /\ Issued(f) * close.nav <= f * close.units
         /\ f = 0 \/ f * close.units < Issued(f) * close.nav + close.nav
<1>1. close.nav \in Nat /\ close.units \in Nat
  BY DEF Holdings
<1>2. CASE f = 0
  <2>1. Issued(f) = 0
    BY <1>2 DEF Issued
  <2>2. 0 * close.nav = 0 /\ 0 * close.units = 0
    BY <1>1
  <2> QED
    BY <1>1, <1>2, <2>1, <2>2
<1>3. CASE f # 0
  <2> DEFINE q == (f * close.units) \div close.nav
  <2>1. /\ f * close.units \in Int /\ 0 <= f * close.units /\ 0 \in Int
        /\ close.nav \in Nat \ {0} /\ 0 * close.nav = 0
    BY <1>1, <1>3
  <2>2. 0 * close.nav <= f * close.units
    BY <2>1
  <2>3. q \in Int /\ q * close.nav <= f * close.units /\ f * close.units < q * close.nav + close.nav
        /\ 0 <= q
    BY <2>1, <2>2, DivRange, DivFloor, Zenon
  <2>4. Issued(f) = q
    BY <1>3 DEF Issued
  <2> HIDE DEF q
  <2>5. q \in Nat
    BY <2>3
  <2> QED
    BY <2>3, <2>4, <2>5, Zenon
<1> QED
  BY <1>2, <1>3

LEMMA HoldingsInit == Init => Holdings
<1> SUFFICES ASSUME Init PROVE Holdings
  OBVIOUS
<1>1. InitialCapital \in Nat /\ 0 \in -WHOLE..0
  BY MoneyAssumption, Rates
<1>2. Nothing \in [Symbols -> Nat] /\ \A s \in Symbols : Nothing[s] >= 0
  BY DEF Nothing
<1> QED
  BY <1>1, <1>2 DEF Init, Overlay!Init, Holdings, Trading

\* The bar opens: what is not negative is multiplied by what is not negative.
LEMMA HoldingsMark ==
  ASSUME Types, Holdings, NEW move \in Moves, NEW ret \in CashReturns, Mark(move, ret)
  PROVE  Holdings'
<1>1. move \in [Symbols -> Nat] /\ ret \in Nat
  BY InputsAssumption
<1>2. cash' >= 0
  <2>1. cash * (WHOLE + ret) \in Int /\ 0 <= cash * (WHOLE + ret) /\ 0 * WHOLE = 0 /\ 0 \in Int
    BY <1>1, NAVNat, Rates
  <2>2. 0 * WHOLE <= cash * (WHOLE + ret)
    BY <2>1
  <2>3. 0 <= (cash * (WHOLE + ret)) \div WHOLE
    BY <2>1, <2>2, Rates, DivFloor, Zenon
  <2> QED
    BY <2>3 DEF Mark, Holdings, Types
<1>3. \A s \in Symbols : position'[s] >= 0
  <2> SUFFICES ASSUME NEW s \in Symbols PROVE position'[s] >= 0
    OBVIOUS
  <2>1. position[s] * move[s] \in Nat
    BY <1>1, NAVNat
  <2>2. (position[s] * move[s]) \div 100 \in Nat
    BY <2>1
  <2> QED
    BY <2>2 DEF Mark
<1> QED
  BY <1>2, <1>3 DEF Mark, Holdings, Trading, markVars, tradeVars, overlayVars

LEMMA HoldingsFlow ==
  ASSUME Types, Holdings, Flows \subseteq Nat, NEW f \in Flows, ApplyFlow(f)
  PROVE  Holdings'
<1>1. f \in Nat /\ (f = 0 \/ close.nav # 0)
  BY DEF ApplyFlow
<1>2. Issued(f) \in Nat
  BY <1>1, IssuedRange
<1> QED
  BY <1>1, <1>2 DEF ApplyFlow, Holdings, Types, Trading, tradeVars, overlayVars

LEMMA HoldingsDecide ==
  ASSUME Types, Engines, Holdings, NEW alloc \in Allocations, NEW bucket \in Buckets,
         NEW breach \in BOOLEAN, Decide(alloc, bucket, breach)
  PROVE  Holdings'
<1>1. /\ UNCHANGED <<cash, position, units, flow, close>>
      /\ ~decision'.should => UNCHANGED <<target, desired, trades>> /\ phase' = "close"
      /\ previous_drawdown' = Drawdown(NAV, peak_nav')
  BY DEF Decide, Overlay!Update, Overlay!Observe
<1>2. previous_drawdown' \in -WHOLE..0
  BY <1>1, DecideFacts, NAVNat, DrawdownRange
<1>3. CASE ~decision'.should
  BY <1>1, <1>2, <1>3 DEF Holdings, Trading
<1>4. CASE decision'.should
  <2>1. /\ target' \in [Symbols -> Nat]
        /\ desired' = Wanted(target', NAV) /\ desired' \in [Symbols -> Int]
        /\ trades' = Worthwhile(desired', NAV)
    BY <1>4, DecideFacts
  <2>2. ASSUME NEW s \in Symbols
        PROVE  /\ desired'[s] >= 0
               /\ trades'[s] < 0 => position[s] + trades'[s] >= 0
    <3>0. target'[s] \in Nat /\ NAV \in Nat
      BY <2>1, NAVNat
    <3>1. target'[s] * NAV \in Int /\ 0 <= target'[s] * NAV /\ 0 * WHOLE = 0 /\ 0 \in Int
      BY <3>0, Rates
    <3>2. 0 * WHOLE <= target'[s] * NAV
      BY <3>1
    <3>3. 0 <= (target'[s] * NAV) \div WHOLE
      BY <3>1, <3>2, Rates, DivFloor, Zenon
    <3>4. desired'[s] = (target'[s] * NAV) \div WHOLE
      BY <2>1 DEF Wanted
    <3>5. trades'[s] = desired'[s] - position[s] \/ trades'[s] = 0
      BY <2>1 DEF Worthwhile
    <3>6. desired'[s] \in Int /\ position[s] \in Int
      BY <2>1 DEF Types
    <3> QED
      BY <3>3, <3>4, <3>5, <3>6
  <2>3. desired' \in [Symbols -> Nat]
    BY <2>1, <2>2
  <2> QED
    BY <1>1, <1>2, <2>1, <2>2, <2>3 DEF Holdings
<1> QED
  BY <1>3, <1>4

LEMMA HoldingsStep ==
  ASSUME Flows \subseteq Nat, Types, Engines, Holdings, [Next]_vars
  PROVE  Holdings'
<1>1. CASE Sell
  <2>1. PICK s \in Symbols :
           /\ trades[s] \in Int /\ trades[s] < 0
           /\ Cost(trades[s], SellBps) \in Nat
           /\ Cost(trades[s], SellBps) <= -trades[s]
           /\ Fill(s, trades[s], Cost(trades[s], SellBps))
    BY <1>1, SellIsFill
  <2>2. cash' >= 0
    BY <2>1 DEF Fill, Types, Holdings
  <2>3. phase \in {"sell", "buy"}
    BY <1>1 DEF Sell
  <2>4. \A t \in Symbols : position'[t] >= 0 /\ (trades'[t] < 0 => position'[t] + trades'[t] >= 0)
    BY <2>1, <2>3 DEF Fill, Types, Holdings, Trading
  <2> QED
    BY <1>1, <2>2, <2>4 DEF Sell, Holdings, markVars, overlayVars
<1>2. CASE Buy
  <2>1. PICK s \in Symbols, n \in Nat :
           /\ trades[s] \in Int /\ n <= trades[s]
           /\ Cost(n, BuyBps) \in Nat
           /\ cash >= 0 => n + Cost(n, BuyBps) <= cash
           /\ Fill(s, n, Cost(n, BuyBps))
    BY <1>2, BuyIsFill
  <2>2. cash' >= 0
    BY <2>1 DEF Fill, Types, Holdings
  <2>3. phase \in {"sell", "buy"}
    BY <1>2 DEF Buy
  <2>4. \A t \in Symbols : position'[t] >= 0 /\ (trades'[t] < 0 => position'[t] + trades'[t] >= 0)
    BY <2>1, <2>3 DEF Fill, Types, Holdings, Trading
  <2> QED
    BY <1>2, <2>2, <2>4 DEF Buy, Holdings, markVars, overlayVars
<1>3. CASE StartBuys
  BY <1>3 DEF StartBuys, Holdings, Trading, moneyVars, markVars, overlayVars
<1>4. CASE EndBuys
  BY <1>4 DEF EndBuys, Holdings, Trading, moneyVars, markVars, tradeVars, overlayVars
<1>5. ASSUME NEW gap \in Gaps, Close(gap) PROVE Holdings'
  <2>1. close' \in [nav : Nat, units : Nat]
    BY <1>5, NAVNat DEF Close, Holdings
  <2> QED
    BY <1>5, <2>1 DEF Close, Holdings, Trading, moneyVars, tradeVars, overlayVars
<1>6. CASE UNCHANGED vars
  BY <1>6 DEF vars, Holdings, Trading, moneyVars, markVars, tradeVars, overlayVars
<1> QED
  BY <1>1, <1>2, <1>3, <1>4, <1>5, <1>6, HoldingsMark, HoldingsFlow, HoldingsDecide
     DEF Next, Finished

LEMMA HoldingsInvariant ==
  ASSUME Flows \subseteq Nat
  PROVE  Spec => [](Types /\ Engines /\ Holdings)
<1>1. Types /\ Engines /\ Holdings /\ [Next]_vars => Types' /\ Engines' /\ Holdings'
  BY TypesStep, HoldingsStep
<1> QED
  BY <1>1, TypesInit, HoldingsInit, PTL DEF Spec

\* No trade leaves cash negative or a position short, as long as nobody withdraws
\* money that is invested: the code takes a withdrawal from cash without selling.
THEOREM NothingOverdrawn ==
  ASSUME Flows \subseteq Nat
  PROVE  Spec => []Solvent
<1>1. Types /\ Engines /\ Holdings => Solvent
  <2> SUFFICES ASSUME Types, Engines, Holdings PROVE Solvent
    OBVIOUS
  <2>1. Overlay!TypeOK
    BY DEF Engines, Holdings, Overlay!TypeOK, Overlay!FLOOR, Overlay!FULL,
       Overlay!COOLDOWN, Overlay!CALM
  <2>2. Trigger!TriggerTypeOK
    BY DEF Engines
  <2>3. TypeOK
    BY <2>1, <2>2 DEF Types, Holdings, TypeOK
  <2> QED
    BY <2>3 DEF Holdings, Solvent
<1> QED
  BY <1>1, HoldingsInvariant, PTL

-----------------------------------------------------------------------------
(* The price of a flow *)

LEMMA UnitsAtCloseStep ==
  ASSUME UnitsAtClose, [Next]_vars
  PROVE  UnitsAtClose'
  BY DEF UnitsAtClose, Next, Finished, Mark, ApplyFlow, Decide, Sell, StartBuys, Buy, EndBuys,
     Close, vars, clockVars, moneyVars, markVars

\* The units after a flow lie between what the flow buys at the better and at the
\* worse of the two NAVs, that of the last close and that of the bar.
LEMMA FlowArithmetic ==
  ASSUME NEW nav \in Nat, NEW last \in Nat, NEW u \in Nat, NEW f \in Nat, NEW q \in Nat,
         q * last <= f * u, f * u <= q * last + last
  PROVE  /\ (nav + f) * u <= Greatest(nav, last) * (u + q + 1)
         /\ (nav + f) * u >= Least(nav, last) * (u + q)
<1> DEFINE g == Greatest(nav, last)
           l == Least(nav, last)
<1>1. g \in Nat /\ l \in Nat /\ nav <= g /\ last <= g /\ l <= nav /\ l <= last
  BY DEF Greatest, Least
<1> HIDE DEF g, l
<1>2. nav * u <= g * u /\ l * u <= nav * u
  BY <1>1, MulMono
<1>3. last * (q + 1) <= g * (q + 1)
  <2>1. q + 1 \in Nat
    OBVIOUS
  <2> QED
    BY <1>1, <2>1, MulMono
<1>4. l * q <= last * q
  BY <1>1, MulMono
<1>5. /\ (nav + f) * u = nav * u + f * u
      /\ g * (u + q + 1) = g * u + g * (q + 1)
      /\ l * (u + q) = l * u + l * q
      /\ last * (q + 1) = q * last + last /\ last * q = q * last
  BY <1>1
<1>6. /\ nav * u \in Int /\ f * u \in Int /\ g * u \in Int /\ g * (q + 1) \in Int
      /\ l * u \in Int /\ l * q \in Int /\ q * last \in Int
  BY <1>1
<1>7. nav * u + f * u <= g * u + g * (q + 1)
  BY <1>2, <1>3, <1>5, <1>6
<1>8. nav * u + f * u >= l * u + l * q
  BY <1>2, <1>4, <1>5, <1>6
<1> QED
  BY <1>5, <1>7, <1>8 DEF g, l

LEMMA FlowStep ==
  ASSUME Flows \subseteq Nat, Types, Holdings, UnitsAtClose, [Next]_vars, phase = "flow"
  PROVE  /\ NAV' * units <= Greatest(NAV, close.nav) * (units' + 1)
         /\ NAV' * units >= Least(NAV, close.nav) * units'
<1>1. NAV \in Nat /\ close.nav \in Nat /\ units \in Nat /\ units = close.units
  BY NAVNat DEF Holdings, UnitsAtClose
<1>2. (\E f \in Flows : ApplyFlow(f)) \/ UNCHANGED vars
  BY DEF Next, Finished, Mark, Decide, Sell, StartBuys, Buy, EndBuys, Close
<1>3. ASSUME NEW f \in Flows, ApplyFlow(f)
      PROVE  \E g, q \in Nat : /\ NAV' = NAV + g /\ units' = units + q
                               /\ q * close.nav <= g * units
                               /\ g * units <= q * close.nav + close.nav
  <2>1. f \in Nat /\ (f = 0 \/ close.nav # 0) /\ Total(position) \in Int
    BY <1>3, TotalType DEF ApplyFlow, Types
  <2>2. /\ Issued(f) \in Nat
        /\ Issued(f) * close.nav <= f * close.units
        /\ f = 0 \/ f * close.units < Issued(f) * close.nav + close.nav
    BY <2>1, IssuedRange
  <2>3. NAV' = NAV + f
    BY <1>3, <2>1 DEF ApplyFlow, NAV, Types
  <2>4. units' = units + Issued(f)
    BY <1>3 DEF ApplyFlow
  <2> DEFINE q == Issued(f)
  <2>5. q \in Nat /\ q * close.nav <= f * units
    BY <1>1, <2>2
  <2>6. f * units <= q * close.nav + close.nav
    <3> HIDE DEF q
    <3>1. q * close.nav \in Nat /\ f * units \in Nat /\ 0 * units = 0
      BY <1>1, <2>1, <2>5
    <3>2. CASE f = 0
      BY <1>1, <3>1, <3>2
    <3>3. CASE f # 0
      BY <1>1, <2>2, <3>1, <3>3 DEF q
    <3> QED
      BY <3>2, <3>3
  <2> HIDE DEF q
  <2> QED
    BY <2>1, <2>3, <2>4, <2>5, <2>6 DEF q
<1>4. PICK g \in Nat, q \in Nat : /\ NAV' = NAV + g /\ units' = units + q
                                  /\ q * close.nav <= g * units
                                  /\ g * units <= q * close.nav + close.nav
  <2>1. 0 * close.nav = 0 /\ 0 * units = 0
    BY <1>1
  <2>2. CASE UNCHANGED vars
    <3>1. NAV' = NAV + 0 /\ units' = units + 0
      BY <1>1, <2>2 DEF vars, moneyVars, NAV
    <3>2. 0 * close.nav <= 0 * units /\ 0 * units <= 0 * close.nav + close.nav
      BY <1>1, <2>1
    <3> QED
      BY <3>1, <3>2
  <2> QED
    BY <1>2, <1>3, <2>2
<1>5. /\ (NAV + g) * units <= Greatest(NAV, close.nav) * (units + q + 1)
      /\ (NAV + g) * units >= Least(NAV, close.nav) * (units + q)
  BY <1>1, <1>4, FlowArithmetic
<1> QED
  BY <1>4, <1>5

\* A deposit never moves the unit NAV by more than the market moved since the
\* close it is priced at.
THEOREM DepositsWithinTheMove ==
  ASSUME Flows \subseteq Nat
  PROVE  Spec => FlowWithinTheMove
<1>1. Init => UnitsAtClose
  BY DEF Init, UnitsAtClose
<1>2. UnitsAtClose /\ [Next]_vars => UnitsAtClose'
  BY UnitsAtCloseStep
<1>3. Types /\ Engines /\ Holdings /\ UnitsAtClose /\ [Next]_vars =>
        (phase = "flow" =>
           /\ NAV' * units <= Greatest(NAV, close.nav) * (units' + 1)
           /\ NAV' * units >= Least(NAV, close.nav) * units')
  BY FlowStep
<1> QED
  BY <1>1, <1>2, <1>3, HoldingsInvariant, PTL DEF Spec, FlowWithinTheMove

-----------------------------------------------------------------------------
(* What a rebalance leads to *)

LEMMA RatioType == Types => Ratio \in 0..100
  BY MoneyAssumption DEF Ratio, Types

\* The trades of a decision reach what is desired, but for those too small to do.
LEMMA TradesReach ==
  ASSUME NEW nav \in Nat, NEW wanted \in [Symbols -> Int], position \in [Symbols -> Int],
         NEW s \in Symbols
  PROVE  position[s] + Worthwhile(wanted, nav)[s] <= wanted[s] + (nav * MinTradeBps) \div WHOLE
<1> DEFINE trade == wanted[s] - position[s]
           small == (nav * MinTradeBps) \div WHOLE
<1>0. trade \in Int /\ nav * MinTradeBps \in Int /\ 0 <= nav * MinTradeBps
      /\ 0 \in Int /\ 0 * WHOLE = 0
  BY MoneyAssumption, Rates
<1>1. 0 * WHOLE <= nav * MinTradeBps
  BY <1>0
<1>2. small \in Int /\ 0 <= small
  BY <1>0, <1>1, Rates, DivRange, DivFloor, Zenon
<1>3. CASE Size(trade) * WHOLE >= nav * MinTradeBps
  <2>1. Worthwhile(wanted, nav)[s] = trade
    BY <1>3 DEF Worthwhile
  <2> HIDE DEF small
  <2> QED
    BY <1>2, <2>1 DEF small
<1>4. CASE ~(Size(trade) * WHOLE >= nav * MinTradeBps)
  <2>1. Worthwhile(wanted, nav)[s] = 0
    BY <1>4 DEF Worthwhile
  <2>2. -trade <= small
    <3>1. -trade \in Int /\ -trade <= Size(trade) /\ Size(trade) \in Int
      BY <1>0 DEF Size
    <3> DEFINE t == -trade
               z == Size(trade)
    <3>2. t * WHOLE <= z * WHOLE /\ t * WHOLE \in Int /\ z * WHOLE \in Int
      BY <3>1, Rates, MulMono
    <3>3. t * WHOLE <= nav * MinTradeBps
      <4> HIDE DEF t
      <4> QED
        BY <1>0, <1>4, <3>2
    <3> HIDE DEF t
    <3>4. t <= small
      BY <1>0, <3>1, <3>3, Rates, DivFloor, Zenon DEF t
    <3> QED
      BY <3>4 DEF t
  <2> HIDE DEF small
  <2> QED
    BY <1>0, <1>2, <2>1, <2>2 DEF small
<1> QED
  BY <1>3, <1>4

\* One symbol of the target: its part of the NAV that the overlay allows.
LEMMA DesiredOne ==
  ASSUME Types, NEW alloc \in Allocations, NEW mult \in Nat, NEW nav \in Nat, NEW s \in Symbols
  PROVE  LET d == Wanted(Deployed(Scaled(alloc, mult)), nav)[s]
         IN d \in Int /\ 100 * (d * WHOLE) <= alloc[s] * (nav * mult * Ratio)
<1> DEFINE w == Deployed(Scaled(alloc, mult))[s]
           d == (w * nav) \div WHOLE
<1>1. alloc[s] \in Nat /\ Ratio \in Nat
  BY InputsAssumption, RatioType
<1>2. w \in Nat
  BY WeightsType
<1>3. 100 * w <= alloc[s] * (mult * Ratio)
  <2>0. Scaled(alloc, mult)[s] = alloc[s] * mult /\ alloc[s] * mult \in Nat
    BY <1>1 DEF Scaled
  <2>1. CASE step = 0
    <3>1. w = (alloc[s] * mult * DeploymentRatio) \div 100 /\ Ratio = DeploymentRatio
      BY <2>0, <2>1 DEF Deployed, Ratio
    <3>2. alloc[s] * mult * DeploymentRatio \in Int
      BY <2>0, MoneyAssumption
    <3>3. w * 100 <= alloc[s] * mult * DeploymentRatio
      <4> DEFINE x == alloc[s] * mult * DeploymentRatio
      <4>1. x \in Int
        BY <3>2
      <4> HIDE DEF x
      <4>2. (x \div 100) * 100 <= x
        BY <4>1
      <4> QED
        BY <3>1, <4>2 DEF x
    <3>4. alloc[s] * mult * Ratio = alloc[s] * (mult * Ratio) /\ 100 * w = w * 100
      BY <1>1, <1>2
    <3> HIDE DEF w
    <3> QED
      BY <3>1, <3>3, <3>4
  <2>2. CASE step # 0
    <3>1. w = alloc[s] * mult /\ Ratio = 100
      BY <2>0, <2>2 DEF Deployed, Ratio
    <3>2. 100 * (alloc[s] * mult) = alloc[s] * (mult * 100) /\ alloc[s] * (mult * 100) \in Int
      BY <1>1
    <3> HIDE DEF w
    <3> QED
      BY <3>1, <3>2
  <2> QED
    BY <2>1, <2>2
<1> HIDE DEF w
<1>4. w * nav \in Int /\ d \in Int /\ d * WHOLE <= w * nav
  <2>1. w * nav \in Int
    BY <1>2
  <2> QED
    BY <2>1, Rates, DivRange, Zenon
<1>5. Wanted(Deployed(Scaled(alloc, mult)), nav)[s] = d
  BY DEF Wanted, w
<1> HIDE DEF d
<1>6. (100 * w) * nav <= (alloc[s] * (mult * Ratio)) * nav
  <2>1. 100 * w \in Int /\ alloc[s] * (mult * Ratio) \in Int
    BY <1>1, <1>2
  <2> QED
    BY <1>3, <2>1, MulMono
<1>7. /\ (100 * w) * nav = 100 * (w * nav)
      /\ (alloc[s] * (mult * Ratio)) * nav = alloc[s] * (nav * mult * Ratio)
  BY <1>1, <1>2
<1>8. 100 * (d * WHOLE) <= 100 * (w * nav)
  <2>1. d * WHOLE \in Int
    BY <1>4, Rates
  <2> QED
    BY <1>4, <2>1
<1>9. 100 * (d * WHOLE) \in Int /\ 100 * (w * nav) \in Int /\ alloc[s] * (nav * mult * Ratio) \in Int
  BY <1>1, <1>4, Rates
<1>10. 100 * (d * WHOLE) <= alloc[s] * (nav * mult * Ratio)
  BY <1>6, <1>7, <1>8, <1>9
<1> QED
  BY <1>4, <1>5, <1>10

\* All of them: the target is within the overlay, because the allocator's weights
\* add up to at most the whole.
LEMMA DesiredAll ==
  ASSUME Types, NEW alloc \in Allocations, NEW mult \in Nat, NEW nav \in Nat
  PROVE  Total(Wanted(Deployed(Scaled(alloc, mult)), nav)) * WHOLE <= nav * mult * Ratio
<1> DEFINE d == Wanted(Deployed(Scaled(alloc, mult)), nav)
           r == nav * mult * Ratio
           k == 100 * WHOLE
           zero == [s \in Symbols |-> 0]
           scaled == [s \in Symbols |-> k * d[s]]
           bound == [s \in Symbols |-> r * alloc[s]]
<1>1. r \in Nat /\ k \in Nat
  BY RatioType, Rates
<1>2. DOMAIN d = Symbols /\ DOMAIN alloc = Symbols
  BY InputsAssumption DEF Wanted
<1>3. \A s \in Symbols : alloc[s] \in Nat
  BY InputsAssumption
<1> HIDE DEF r, k
<1>4. ASSUME NEW s \in Symbols
      PROVE  d[s] \in Int /\ k * d[s] <= r * alloc[s]
  <2>1. d[s] \in Int /\ 100 * (d[s] * WHOLE) <= alloc[s] * r
    BY DesiredOne DEF r
  <2> HIDE DEF d
  <2>2. k * d[s] = 100 * (d[s] * WHOLE) /\ alloc[s] * r = r * alloc[s]
    BY <2>1, <1>1, <1>3, Rates DEF k
  <2> QED
    BY <2>1, <2>2
<1> HIDE DEF d
<1>5. \A s \in Symbols : /\ d[s] \in Int /\ alloc[s] \in Int /\ zero[s] \in Int
                         /\ scaled[s] \in Int /\ bound[s] \in Int
                         /\ scaled[s] = k * d[s] + zero[s]
                         /\ bound[s] = r * alloc[s] + zero[s]
                         /\ scaled[s] <= bound[s]
  BY <1>1, <1>3, <1>4
<1> HIDE DEF scaled, bound
<1>6. SumFunctionOnSet(zero, Symbols) = 0
  <2>1. (\A s \in Symbols : zero[s] = 0) /\ 0 \in Int
    OBVIOUS
  <2> HIDE DEF zero
  <2>2. SumFunctionOnSet(zero, Symbols) = 0 * Cardinality(Symbols)
    BY <2>1, SymbolsAssumption, SumConstant, Zenon
  <2> QED
    BY <2>2, SymbolsAssumption, FS_CardinalityType
<1> HIDE DEF zero
<1>7. SumFunctionOnSet(scaled, Symbols) = k * SumFunctionOnSet(d, Symbols) + 0
  <2>1. k \in Int
    BY <1>1
  <2>2. \A s \in Symbols : d[s] \in Int /\ zero[s] \in Int /\ scaled[s] = k * d[s] + zero[s]
    BY <1>5
  <2>3. SumFunctionOnSet(scaled, Symbols)
          = k * SumFunctionOnSet(d, Symbols) + SumFunctionOnSet(zero, Symbols)
    BY <2>1, <2>2, SumOfSymbols
  <2> QED
    BY <1>6, <2>3
<1>8. SumFunctionOnSet(bound, Symbols) = r * SumFunctionOnSet(alloc, Symbols) + 0
  <2>1. r \in Int
    BY <1>1
  <2>2. \A s \in Symbols : alloc[s] \in Int /\ zero[s] \in Int /\ bound[s] = r * alloc[s] + zero[s]
    BY <1>5
  <2>3. SumFunctionOnSet(bound, Symbols)
          = r * SumFunctionOnSet(alloc, Symbols) + SumFunctionOnSet(zero, Symbols)
    BY <2>1, <2>2, SumOfSymbols
  <2> QED
    BY <1>6, <2>3
<1>9. SumFunctionOnSet(scaled, Symbols) <= SumFunctionOnSet(bound, Symbols)
  BY <1>5, SymbolsAssumption, SumMonotone
<1>10. SumFunctionOnSet(d, Symbols) \in Int /\ SumFunctionOnSet(alloc, Symbols) \in Int
  BY <1>5, SymbolsAssumption, SumType
<1>11. Total(d) = SumFunctionOnSet(d, Symbols) /\ Total(alloc) = SumFunctionOnSet(alloc, Symbols)
  BY <1>2, TotalIsSum
<1>12. k * Total(d) <= r * Total(alloc) /\ Total(d) \in Int /\ Total(alloc) \in Int
  <2>1. k * Total(d) \in Int /\ r * Total(alloc) \in Int
    BY <1>1, <1>10, <1>11
  <2> QED
    BY <1>7, <1>8, <1>9, <1>10, <1>11, <2>1
<1>13. r * Total(alloc) <= r * 100
  <2>1. Total(alloc) <= 100
    BY AllocatorAssumption
  <2>2. Total(alloc) * r <= 100 * r
    BY <1>1, <1>12, <2>1, MulMono
  <2> QED
    BY <1>1, <1>12, <2>2
<1>14. Total(d) * WHOLE <= r
  <2> DEFINE t == Total(d)
  <2>1. t \in Int /\ k * t = 100 * (t * WHOLE) /\ t * WHOLE \in Int /\ r * 100 \in Int
        /\ r * Total(alloc) \in Int
    BY <1>1, <1>12, Rates DEF k
  <2> HIDE DEF t
  <2> QED
    BY <1>1, <1>12, <1>13, <2>1 DEF t
<1> QED
  BY <1>14 DEF d, r

LEMMA RebalanceDecide ==
  ASSUME Types, Engines, Holdings, NEW alloc \in Allocations, NEW bucket \in Buckets,
         NEW breach \in BOOLEAN, Decide(alloc, bucket, breach)
  PROVE  Rebalance'
<1>1. /\ UNCHANGED <<step, cash, position>> /\ day_cost' = 0
      /\ decision'.should => phase' = "sell"
      /\ ~decision'.should => phase' = "close"
  BY DEF Decide, clockVars
<1>2. CASE ~decision'.should
  BY <1>1, <1>2 DEF Rebalance, Trading
<1>3. CASE decision'.should
  <2>1. NAV \in Nat /\ DecisionNAV' = NAV /\ TooSmall' = (NAV * MinTradeBps) \div WHOLE
        /\ Ratio' = Ratio
    <3>1. NAV \in Nat
      BY NAVNat
    <3>2. NAV' = NAV
      BY <1>1 DEF NAV
    <3>3. DecisionNAV' = NAV
      BY <1>1, <3>1, <3>2 DEF DecisionNAV
    <3> QED
      BY <1>1, <3>1, <3>3 DEF TooSmall, Ratio
  <2>2. /\ desired' = Wanted(Deployed(Scaled(alloc, multiplier')), NAV)
        /\ desired' \in [Symbols -> Int]
        /\ trades' = Worthwhile(desired', NAV)
    BY <1>3, DecideFacts
  <2>3. multiplier' \in Nat
    BY DecideFacts DEF Engines
  <2>4. Total(desired') * WHOLE <= DecisionNAV' * multiplier' * Ratio'
    BY <2>1, <2>2, <2>3, DesiredAll
  <2>5. \A s \in Symbols : position[s] + trades'[s] <= desired'[s] + TooSmall'
    BY <2>1, <2>2, TradesReach DEF Types
  <2> QED
    BY <1>1, <1>3, <2>4, <2>5 DEF Rebalance
<1> QED
  BY <1>2, <1>3

\* A fill of no more than the trade leads no further than the trade did.
LEMMA RebalanceFill ==
  ASSUME Types, Engines, Rebalance, Trading, NEW s \in Symbols, NEW n \in Int, NEW c \in Nat,
         n <= trades[s], Fill(s, n, c), phase' = phase,
         UNCHANGED <<step, desired, multiplier, decision>>
  PROVE  Rebalance'
<1>1. DecisionNAV' = DecisionNAV
  BY FillFacts
<1>2. TooSmall' = TooSmall /\ Ratio' = Ratio
  BY <1>1 DEF TooSmall, Ratio
<1>3. DecisionNAV' * multiplier' * Ratio' = DecisionNAV * multiplier * Ratio
  BY <1>1, <1>2
<1>4. /\ position' = [position EXCEPT ![s] = @ + n]
      /\ trades' = [trades EXCEPT ![s] = 0]
  BY DEF Fill
<1>5. ASSUME NEW t \in Symbols
      PROVE  /\ position'[t] + trades'[t] <= position[t] + trades[t]
             /\ position'[t] + trades'[t] \in Int /\ position[t] + trades[t] \in Int
             /\ trades[t] >= 0 => trades'[t] >= 0
  BY <1>4 DEF Types
<1>6. TooSmall \in Int
  <2>1. DecisionNAV * MinTradeBps \in Int
    BY NAVType, MoneyAssumption DEF DecisionNAV, Types
  <2> QED
    BY <2>1, Rates, DivRange, Zenon DEF TooSmall
<1>7. \A t \in Symbols : position'[t] + trades'[t] <= desired'[t] + TooSmall'
  <2> SUFFICES ASSUME NEW t \in Symbols
               PROVE position'[t] + trades'[t] <= desired'[t] + TooSmall'
    OBVIOUS
  <2>1. position[t] + trades[t] <= desired[t] + TooSmall
    BY DEF Rebalance
  <2>2. desired[t] + TooSmall \in Int /\ desired'[t] + TooSmall' = desired[t] + TooSmall
    BY <1>2, <1>6 DEF Types
  <2> QED
    BY <1>5, <2>1, <2>2
<1>8. Total(desired') * WHOLE <= DecisionNAV' * multiplier' * Ratio'
  BY <1>3 DEF Rebalance
<1>9. phase = "buy" => \A t \in Symbols : trades'[t] >= 0
  BY <1>5 DEF Rebalance
<1> QED
  BY <1>7, <1>8, <1>9 DEF Rebalance, Trading

\* What the invariant reads stays as it is.
LEMMA RebalanceKept ==
  ASSUME UNCHANGED <<step, cash, position, day_cost, trades, desired, multiplier>>
  PROVE  /\ TooSmall' = TooSmall
         /\ DecisionNAV' * multiplier' * Ratio' = DecisionNAV * multiplier * Ratio
  BY DEF TooSmall, Ratio, DecisionNAV, NAV

LEMMA RebalanceStep ==
  ASSUME Types, Engines, Holdings, Rebalance, [Next]_vars
  PROVE  Rebalance'
<1>1. CASE Sell
  <2>1. PICK s \in Symbols :
           /\ trades[s] \in Int
           /\ Cost(trades[s], SellBps) \in Nat
           /\ Fill(s, trades[s], Cost(trades[s], SellBps))
    BY <1>1, SellIsFill
  <2>2. /\ phase' = phase /\ Trading
        /\ UNCHANGED <<step, desired, multiplier, decision>>
    BY <1>1 DEF Sell, Trading, clockVars, overlayVars, triggerVars
  <2>3. trades[s] <= trades[s]
    BY <2>1
  <2> QED
    BY <2>1, <2>2, <2>3, RebalanceFill
<1>2. CASE Buy
  <2>1. PICK s \in Symbols, n \in Nat :
           /\ n <= trades[s]
           /\ Cost(n, BuyBps) \in Nat
           /\ Fill(s, n, Cost(n, BuyBps))
    BY <1>2, BuyIsFill
  <2>2. /\ phase' = phase /\ Trading
        /\ UNCHANGED <<step, desired, multiplier, decision>>
    BY <1>2 DEF Buy, Trading, clockVars, overlayVars, triggerVars
  <2>3. n \in Int
    OBVIOUS
  <2> QED
    BY <2>1, <2>2, <2>3, RebalanceFill
<1>3. CASE StartBuys
  <2>1. /\ phase = "sell" /\ phase' = "buy" /\ Sells = {}
        /\ UNCHANGED <<step, cash, position, day_cost, trades, desired, multiplier, decision>>
    BY <1>3 DEF StartBuys, clockVars, moneyVars, overlayVars, triggerVars
  <2>2. \A s \in Symbols : trades[s] >= 0
    BY <2>1 DEF Sells, Types
  <2> QED
    BY <2>1, <2>2, RebalanceKept DEF Rebalance, Trading
<1>4. CASE EndBuys
  <2>1. /\ phase = "buy" /\ phase' = "close" /\ Buys = {}
        /\ UNCHANGED <<step, cash, position, day_cost, trades, desired, multiplier, decision>>
    BY <1>4 DEF EndBuys, clockVars, moneyVars, tradeVars, overlayVars, triggerVars
  <2>2. \A s \in Symbols : trades[s] = 0
    BY <2>1 DEF Buys, Types, Rebalance
  <2> QED
    BY <2>1, <2>2, RebalanceKept DEF Rebalance, Trading
<1>5. ASSUME NEW move \in Moves, NEW ret \in CashReturns, Mark(move, ret) PROVE Rebalance'
  BY <1>5 DEF Mark, Rebalance, Trading
<1>6. ASSUME NEW f \in Flows, ApplyFlow(f) PROVE Rebalance'
  BY <1>6 DEF ApplyFlow, Rebalance, Trading
<1>7. ASSUME NEW gap \in Gaps, Close(gap) PROVE Rebalance'
  BY <1>7 DEF Close, Rebalance, Trading
<1>8. CASE UNCHANGED vars
  <2>1. UNCHANGED <<phase, decision, step, cash, position, day_cost, trades, desired, multiplier>>
    BY <1>8 DEF vars, clockVars, moneyVars, tradeVars, overlayVars, triggerVars
  <2> QED
    BY <2>1, RebalanceKept DEF Rebalance, Trading
<1> QED
  BY <1>1, <1>2, <1>3, <1>4, <1>5, <1>6, <1>7, <1>8, RebalanceDecide DEF Next, Finished

\* When nothing is left to do, the positions are what is desired and the dust.
LEMMA RebalanceEnds ==
  ASSUME Types, Engines, Holdings, Rebalance
  PROVE  ExposureWithinOverlay
<1> SUFFICES ASSUME phase = "close", decision.should
             PROVE  Total(position) - Dust <= (DecisionNAV * multiplier * Ratio) \div WHOLE
  BY DEF ExposureWithinOverlay, Ratio
<1> DEFINE x == TooSmall
           more == [s \in Symbols |-> desired[s] + x]
           rest == [s \in Symbols |-> x]
<1>1. /\ \A s \in Symbols : trades[s] = 0 /\ position[s] + trades[s] <= desired[s] + x
      /\ Total(desired) * WHOLE <= DecisionNAV * multiplier * Ratio
  BY DEF Rebalance
<1>2. DecisionNAV * multiplier * Ratio \in Int /\ DecisionNAV * MinTradeBps \in Int
  BY NAVType, RatioType, MoneyAssumption DEF DecisionNAV, Types, Engines
<1>3. x \in Int
  BY <1>2, Rates, DivRange, Zenon DEF TooSmall
<1>4. Dust = Cardinality(Symbols) * (x + 1)
  BY DEF Dust, TooSmall
<1> HIDE DEF x
<1>5. more \in [Symbols -> Int] /\ \A s \in Symbols : position[s] <= more[s]
  BY <1>1, <1>3 DEF Types
<1>6. Total(position) <= Total(more)
  <2> HIDE DEF more
  <2> QED
    BY <1>5, TotalMonotone DEF Types
<1>7. Total(more) = Total(desired) + x * Cardinality(Symbols)
  <2>1. \A s \in Symbols : /\ desired[s] \in Int /\ rest[s] \in Int
                           /\ more[s] = 1 * desired[s] + rest[s]
    BY <1>3 DEF Types
  <2>2. (\A s \in Symbols : rest[s] = x) /\ DOMAIN more = Symbols /\ DOMAIN desired = Symbols
        /\ 1 \in Int
    BY DEF Types
  <2> HIDE DEF more, rest
  <2>3. SumFunctionOnSet(more, Symbols)
          = 1 * SumFunctionOnSet(desired, Symbols) + SumFunctionOnSet(rest, Symbols)
    BY <2>1, <2>2, SumOfSymbols
  <2>4. SumFunctionOnSet(rest, Symbols) = x * Cardinality(Symbols)
    BY <1>3, <2>2, SymbolsAssumption, SumConstant, Zenon
  <2>5. Total(more) = SumFunctionOnSet(more, Symbols)
        /\ Total(desired) = SumFunctionOnSet(desired, Symbols)
    BY <2>2, TotalIsSum
  <2>6. Total(desired) \in Int
    BY TotalType DEF Types
  <2> QED
    BY <2>3, <2>4, <2>5, <2>6
<1> DEFINE n == Cardinality(Symbols)
           all == DecisionNAV * multiplier * Ratio
           t == Total(desired)
<1>8. n \in Nat /\ t \in Int /\ Total(position) \in Int /\ all \in Int
  BY <1>2, SymbolsAssumption, FS_CardinalityType, TotalType DEF Types
<1>9. t * WHOLE <= all
  BY <1>1
<1> HIDE DEF n, all, t, more
<1>10. t <= all \div WHOLE /\ all \div WHOLE \in Int
  BY <1>8, <1>9, Rates, DivFloor, DivRange, Zenon
<1>11. n * (x + 1) = x * n + n /\ x * n \in Int
  BY <1>3, <1>8
<1>12. Total(position) - n * (x + 1) <= all \div WHOLE
  BY <1>6, <1>7, <1>8, <1>10, <1>11 DEF n, t
<1> QED
  BY <1>4, <1>12 DEF n, all

\* After a rebalance the risky positions are within the overlay's multiplier.
THEOREM ExposureBounded ==
  ASSUME Flows \subseteq Nat
  PROVE  Spec => []ExposureWithinOverlay
<1>1. Init => Rebalance
  BY DEF Init, Rebalance, Trading
<1>2. Types /\ Engines /\ Holdings /\ Rebalance /\ [Next]_vars => Rebalance'
  BY RebalanceStep
<1>3. Types /\ Engines /\ Holdings /\ Rebalance => ExposureWithinOverlay
  BY RebalanceEnds
<1> QED
  BY <1>1, <1>2, <1>3, HoldingsInvariant, PTL DEF Spec

-----------------------------------------------------------------------------
(* The cooldown *)

\* Every allocation is far enough from holding only cash for the trigger to see it.
Deploys == \A alloc \in Allocations : 100 * Total(alloc) >= DriftBps

LEMMA FirstBarInit == Init => FirstBar /\ Remembered
  BY MoneyAssumption DEF Init, FirstBar, Remembered, Trigger!TriggerInit, Overlay!Init, Overlay!FULL

LEMMA FirstBarStep ==
  ASSUME Flows \subseteq Nat, Types, FirstBar, [Next]_vars
  PROVE  FirstBar'
<1>0. Nothing = [s \in Symbols |-> 0] /\ InitialCapital \in Nat /\ Nothing' = Nothing
  BY MoneyAssumption DEF Nothing
<1>1. ASSUME NEW move \in Moves, NEW ret \in CashReturns, Mark(move, ret) PROVE FirstBar'
  <2>1. move \in [Symbols -> Nat]
    BY InputsAssumption
  <2>2. step = 0 => position' = Nothing
    <3> SUFFICES ASSUME step = 0 PROVE position' = Nothing
      OBVIOUS
    <3>1. position = Nothing
      BY <1>1 DEF Mark, FirstBar
    <3>2. \A s \in Symbols : (position[s] * move[s]) \div 100 = 0
      BY <1>0, <2>1, <3>1
    <3> QED
      BY <1>0, <1>1, <3>2 DEF Mark
  <2> QED
    BY <1>1, <2>2, <1>0 DEF Mark, FirstBar, clockVars, markVars, tradeVars, overlayVars, triggerVars
<1>2. ASSUME NEW f \in Flows, ApplyFlow(f) PROVE FirstBar'
  <2>1. f \in Nat
    OBVIOUS
  <2> QED
    BY <1>2, <2>1, <1>0 DEF ApplyFlow, FirstBar, Types, clockVars, tradeVars, overlayVars, triggerVars
<1>3. ASSUME NEW alloc \in Allocations, NEW bucket \in Buckets, NEW breach \in BOOLEAN,
             Decide(alloc, bucket, breach)
      PROVE  FirstBar'
  BY <1>3 DEF Decide, FirstBar
<1>4. CASE Sell \/ StartBuys \/ Buy \/ EndBuys
  BY <1>4 DEF Sell, StartBuys, Buy, EndBuys, FirstBar
<1>5. ASSUME NEW gap \in Gaps, Close(gap) PROVE FirstBar'
  <2>1. step' = 0 => phase' = "done"
    BY <1>5 DEF Close, Types
  <2> QED
    BY <2>1 DEF FirstBar
<1>6. CASE UNCHANGED vars
  BY <1>6, <1>0 DEF vars, FirstBar, clockVars, moneyVars, markVars, tradeVars, overlayVars, triggerVars
<1> QED
  BY <1>1, <1>2, <1>3, <1>4, <1>5, <1>6 DEF Next, Finished

\* Without a drawdown the overlay leaves the target whole.
LEMMA OverlayAtRest ==
  ASSUME Engines, overlay_state = "full_risk", multiplier = 100, spike = FALSE,
         Overlay!Update(0, "none")
  PROVE  multiplier' = 100
<1>1. Overlay!Classify(0) = "normal"
  BY DEF Overlay!Classify
<1>2. spike' = FALSE
  BY DEF Overlay!Update, Overlay!Observe
<1>3. ~Overlay!Worsening(0) /\ ~Overlay!Returning(0)
  BY <1>1 DEF Overlay!Worsening, Overlay!Returning
<1>4. multiplier' = Overlay!Settle(100, FALSE)
  BY <1>2, <1>3 DEF Overlay!Update, Overlay!Cut, Overlay!Cool, Overlay!Recover, Overlay!Hold
<1> QED
  BY <1>4 DEF Overlay!Settle, Overlay!Least, Overlay!Greatest, Overlay!FLOOR, Overlay!FULL

\* On the first bar all is cash, so the cash is away from its weight by all that
\* the allocation deploys: the trigger's own verdict is to rebalance as well.
LEMMA FirstVerdict ==
  ASSUME Flows \subseteq Nat, Deploys, Types, Engines, Holdings, FirstBar, step = 0,
         phase = "decide", NEW alloc \in Allocations, NEW bucket \in Buckets,
         NEW breach \in BOOLEAN, Decide(alloc, bucket, breach)
  PROVE  last_rebalance' = date
<1> DEFINE dd == Drawdown(NAV, peak_nav')
           weights == Scaled(alloc, multiplier')
           drift == Drifted(NAV, weights)
<1>1. /\ last_rebalance = None /\ position = Nothing /\ cash >= InitialCapital
      /\ peak_nav = InitialCapital /\ multiplier = 100 /\ overlay_state = "full_risk"
      /\ spike = FALSE
  BY DEF FirstBar
<1>2. InitialCapital \in Nat \ {0} /\ cash \in Nat \ {0}
  BY <1>1, MoneyAssumption DEF Types
<1>3. Total(Nothing) = 0
  <2>1. (\A s \in Symbols : Nothing[s] = 0) /\ 0 \in Int /\ DOMAIN Nothing = Symbols
    BY DEF Nothing
  <2>2. SumFunctionOnSet(Nothing, Symbols) = 0 * Cardinality(Symbols)
    BY <2>1, SymbolsAssumption, SumConstant, Zenon
  <2> QED
    BY <2>1, <2>2, TotalIsSum, SymbolsAssumption, FS_CardinalityType
<1>4. NAV = cash
  BY <1>1, <1>2, <1>3 DEF NAV
<1>5. peak_nav' = cash
  BY <1>1, <1>2, <1>4 DEF Decide, Greatest
<1>6. dd = 0
  <2>1. (cash - cash) * WHOLE = 0 /\ 0 \div cash = 0
    BY <1>2, Rates
  <2>2. dd = -(((cash - cash) * WHOLE) \div cash)
    BY <1>4, <1>5 DEF Drawdown
  <2> HIDE DEF dd
  <2> QED
    BY <2>1, <2>2
<1>7. multiplier' = 100
  <2>1. Overlay!Update(dd, "none")
    BY DEF Decide
  <2> HIDE DEF dd
  <2> QED
    BY <1>1, <1>6, <2>1, OverlayAtRest
<1>8. drift
  <2> DEFINE t == Total(weights)
             a == Total(alloc)
  <2>1. a \in Nat /\ a <= 100 /\ 100 * a >= DriftBps
    <3>1. alloc \in [Symbols -> Nat]
      BY InputsAssumption
    <3> QED
      BY <3>1, TotalNat, AllocatorAssumption DEF Deploys
  <2>2. t = 100 * a
    <3>1. alloc \in [Symbols -> 0..100] /\ weights = [s \in Symbols |-> alloc[s] * 100]
      BY <1>7, InputsAssumption DEF Scaled
    <3>2. /\ \A s \in Symbols : alloc[s] \in Int /\ Nothing[s] \in Int
                                /\ weights[s] = 100 * alloc[s] + Nothing[s]
          /\ DOMAIN weights = Symbols /\ DOMAIN alloc = Symbols /\ DOMAIN Nothing = Symbols
          /\ 100 \in Int
      BY <3>1 DEF Nothing
    <3> HIDE DEF weights
    <3>3. SumFunctionOnSet(weights, Symbols)
            = 100 * SumFunctionOnSet(alloc, Symbols) + SumFunctionOnSet(Nothing, Symbols)
      BY <3>2, SumOfSymbols
    <3>4. /\ t = SumFunctionOnSet(weights, Symbols)
          /\ a = SumFunctionOnSet(alloc, Symbols)
          /\ Total(Nothing) = SumFunctionOnSet(Nothing, Symbols)
      BY <3>2, TotalIsSum
    <3> HIDE DEF t, a
    <3> QED
      BY <1>3, <2>1, <3>3, <3>4
  <2> HIDE DEF a
  <2>3. CashWeight(weights) = WHOLE - t
    <3> HIDE DEF weights
    <3> QED
      BY <2>1, <2>2 DEF CashWeight, Greatest, WHOLE
  <2>4. (cash * WHOLE) \div cash = WHOLE
    <3>1. /\ cash * WHOLE \in Int /\ cash \in Nat \ {0} /\ WHOLE \in Int
          /\ cash * WHOLE <= WHOLE * cash /\ WHOLE * cash <= cash * WHOLE
      BY <1>2, Rates
    <3>2. /\ (cash * WHOLE) \div cash <= WHOLE /\ WHOLE <= (cash * WHOLE) \div cash
          /\ (cash * WHOLE) \div cash \in Int
      BY <3>1, DivBound, DivFloor, DivRange, Zenon
    <3> QED
      BY <3>1, <3>2
  <2> HIDE DEF t, weights
  <2>5. Size(WHOLE - (WHOLE - t)) >= DriftBps
    <3>1. DriftBps \in Nat
      BY MoneyAssumption
    <3> QED
      BY <2>1, <2>2, <3>1, Rates DEF Size
  <2>6. Size((IF NAV > 0 THEN (cash * WHOLE) \div NAV ELSE 0) - CashWeight(weights)) >= DriftBps
    BY <1>2, <1>4, <2>3, <2>4, <2>5
  <2> QED
    BY <2>6 DEF Drifted
<1> HIDE DEF dd, drift
<1>9. Trigger!Evaluate(date, drift, bucket, breach, dd, flow)
  BY DEF Decide, dd, drift
<1>10. Trigger!Verdict(date, drift, bucket, breach, dd, flow).should
  <2>1. "weight_drift" \in Trigger!Collected(drift, bucket, breach, dd, flow)
    BY <1>8 DEF Trigger!Collected
  <2> QED
    BY <1>1, <2>1 DEF Trigger!Verdict, Trigger!CooledDown
<1> QED
  BY <1>9, <1>10 DEF Trigger!Evaluate

LEMMA RememberedStep ==
  ASSUME Flows \subseteq Nat, Deploys, Types, Engines, Holdings, FirstBar, Remembered,
         [Next]_vars
  PROVE  Remembered'
<1>1. ASSUME NEW alloc \in Allocations, NEW bucket \in Buckets, NEW breach \in BOOLEAN,
             Decide(alloc, bucket, breach)
      PROVE  Remembered'
  <2>1. CASE step = 0
    <3>1. phase = "decide" /\ decision'.should /\ traded_on' = date
      BY <1>1, <2>1 DEF Decide
    <3>2. last_rebalance' = date
      BY <1>1, <2>1, <3>1, FirstVerdict
    <3> QED
      BY <3>1, <3>2 DEF Remembered
  <2>2. CASE step # 0
    <3> DEFINE v == Trigger!Verdict(date, Drifted(NAV, Scaled(alloc, multiplier')), bucket, breach,
                                    Drawdown(NAV, peak_nav'), flow)
    <3>1. /\ decision' = v
          /\ last_rebalance' = IF v.should THEN date ELSE last_rebalance
          /\ decision'.should => traded_on' = date
          /\ ~decision'.should => traded_on' = traded_on
      BY <1>1, <2>2 DEF Decide, Trigger!Evaluate
    <3> HIDE DEF v
    <3> QED
      BY <3>1 DEF Remembered
  <2> QED
    BY <2>1, <2>2
<1>2. ASSUME UNCHANGED <<traded_on, last_rebalance>> PROVE Remembered'
  BY <1>2 DEF Remembered
<1>3. CASE Sell \/ StartBuys \/ Buy \/ EndBuys
  BY <1>2, <1>3 DEF Sell, StartBuys, Buy, EndBuys, tradeVars, triggerVars
<1>4. CASE \/ \E move \in Moves, ret \in CashReturns : Mark(move, ret)
           \/ \E f \in Flows : ApplyFlow(f)
           \/ \E gap \in Gaps : Close(gap)
           \/ UNCHANGED vars
  BY <1>2, <1>4 DEF Mark, ApplyFlow, Close, vars, tradeVars, triggerVars
<1> QED
  BY <1>1, <1>3, <1>4 DEF Next, Finished

\* A decision to rebalance inside the cooldown names a risk event.
LEMMA CooldownStep ==
  ASSUME FirstBar, Remembered, Next, phase = "decide", decision'.should,
         traded_on # None, date - traded_on < CooldownDays, Types
  PROVE  decision'.reasons \cap Trigger!RiskReasons # {}
<1>1. step # 0
  BY DEF FirstBar
<1>2. ASSUME NEW alloc \in Allocations, NEW bucket \in Buckets, NEW breach \in BOOLEAN,
             Decide(alloc, bucket, breach)
      PROVE  decision'.reasons \cap Trigger!RiskReasons # {}
  <2> DEFINE drift == Drifted(NAV, Scaled(alloc, multiplier'))
             dd == Drawdown(NAV, peak_nav')
             v == Trigger!Verdict(date, drift, bucket, breach, dd, flow)
  <2>1. decision' = v
    BY <1>1, <1>2 DEF Decide
  <2>2. ~Trigger!CooledDown(date)
    BY TriggerAssumption DEF Trigger!CooledDown, Remembered, Types
  <2> HIDE DEF drift, dd
  <2>3. v.should => v.reasons \cap Trigger!RiskReasons # {}
    BY <2>2 DEF Trigger!Verdict
  <2> QED
    BY <2>1, <2>3
<1> QED
  BY <1>2 DEF Next, Finished, Mark, ApplyFlow, Sell, StartBuys, Buy, EndBuys, Close

\* Of two rebalances closer than the cooldown the later one answers a risk event, if
\* the initial deployment, which is forced, is large enough for the trigger to see it.
THEOREM CooldownKept ==
  ASSUME Flows \subseteq Nat, Deploys
  PROVE  Spec => CooldownHonoured
<1> DEFINE Inv == Types /\ Engines /\ Holdings /\ FirstBar /\ Remembered
<1>1. Init => FirstBar /\ Remembered
  BY FirstBarInit
<1>2. Types /\ Engines /\ Holdings /\ FirstBar /\ Remembered /\ [Next]_vars
        => FirstBar' /\ Remembered'
  BY FirstBarStep, RememberedStep
<1>3. Types /\ Engines /\ Holdings /\ FirstBar /\ Remembered /\ [Next]_vars =>
        [phase = "decide" /\ decision'.should /\ traded_on # None
           /\ date - traded_on < CooldownDays
         => decision'.reasons \cap Trigger!RiskReasons # {}]_vars
  BY CooldownStep
<1> QED
  BY <1>1, <1>2, <1>3, HoldingsInvariant, PTL DEF Spec, CooldownHonoured

-----------------------------------------------------------------------------
(* The overlay inside the run *)

\* Each bar gives the overlay one update, and nothing else touches it.
LEMMA OverlayInRun ==
  ASSUME Types, Engines, Holdings, [Next]_vars
  PROVE  [Overlay!Next]_Overlay!vars
<1>1. ASSUME NEW alloc \in Allocations, NEW bucket \in Buckets, NEW breach \in BOOLEAN,
             Decide(alloc, bucket, breach)
      PROVE  Overlay!Next
  <2> DEFINE dd == Drawdown(NAV, peak_nav')
  <2>1. dd \in -WHOLE..0
    BY <1>1, DecideFacts, NAVNat, DrawdownRange
  <2>2. Overlay!Update(dd, "none")
    BY <1>1 DEF Decide
  <2> HIDE DEF dd
  <2> QED
    BY <2>1, <2>2 DEF Overlay!Next, Overlay!Correlations
<1>2. CASE Sell \/ StartBuys \/ Buy \/ EndBuys
  BY <1>2 DEF Sell, StartBuys, Buy, EndBuys, overlayVars, Overlay!vars
<1>3. CASE \/ \E move \in Moves, ret \in CashReturns : Mark(move, ret)
           \/ \E f \in Flows : ApplyFlow(f)
           \/ \E gap \in Gaps : Close(gap)
           \/ UNCHANGED vars
  BY <1>3 DEF Mark, ApplyFlow, Close, vars, overlayVars, Overlay!vars
<1> QED
  BY <1>1, <1>2, <1>3 DEF Next, Finished

\* The run implements the overlay: what PortfolioProofs proves of it (the
\* ceiling of each severity, the slow recovery) holds in every run.
THEOREM RunImplementsOverlay ==
  ASSUME Flows \subseteq Nat
  PROVE  Spec => Overlay!Spec
<1>1. Init => Overlay!Init
  BY DEF Init
<1>2. Types /\ Engines /\ Holdings /\ [Next]_vars => [Overlay!Next]_Overlay!vars
  BY OverlayInRun
<1> QED
  BY <1>1, <1>2, HoldingsInvariant, PTL DEF Spec, Overlay!Spec
=============================================================================

-------------------------- MODULE ExecutionProofs --------------------------
(***************************************************************************)
(* Proofs about the paper broker and the desk around it, for all symbols,  *)
(* prices, lots, rates and targets, and any number of plans.               *)
(***************************************************************************)
EXTENDS Execution, Sums, TLAPS

-----------------------------------------------------------------------------
(* Operators *)

LEMMA Broker ==
  /\ IsFiniteSet(Symbols)
  /\ InitialCash \in Nat /\ CommissionBps \in Nat /\ MinNotional \in Nat /\ Rounds \in Nat
  /\ Lot \in [Symbols -> Nat]
  /\ Slippages \subseteq 0..(WHOLE - 1)
  /\ Prices \subseteq [Symbols -> Nat]
  /\ Targets \subseteq [Symbols -> 0..WHOLE]
<1>1. {InitialCash, CommissionBps, MinNotional, Rounds} \subseteq Nat
  BY BrokerAssumption
<1>2. InitialCash \in Nat /\ CommissionBps \in Nat /\ MinNotional \in Nat /\ Rounds \in Nat
  BY <1>1
<1>3. Slippages \subseteq 0..(WHOLE - 1)
  BY BrokerAssumption
<1>4. Prices \subseteq [Symbols -> Nat]
  BY BrokerAssumption
<1>5. Targets \subseteq [Symbols -> 0..WHOLE]
  BY BrokerAssumption
<1>6. IsFiniteSet(Symbols) /\ Lot \in [Symbols -> Nat]
  BY BrokerAssumption
<1> QED
  BY <1>2, <1>3, <1>4, <1>5, <1>6

LEMMA Whole == WHOLE \in Nat \ {0} /\ WHOLE \in Int /\ WHOLE \in Nat
  BY DEF WHOLE

\* A total is a sum over the domain.
LEMMA TotalIsSum ==
  ASSUME NEW f, NEW S, DOMAIN f = S
  PROVE  Total(f) = SumFunctionOnSet(f, S)
  BY DEF Total, FoldFunction, SumFunctionOnSet

LEMMA TotalType ==
  ASSUME NEW S \in SUBSET Symbols, NEW f \in [S -> Int]
  PROVE  Total(f) \in Int
<1>1. IsFiniteSet(S)
  BY Broker, FS_Subset
<1>2. Total(f) = SumFunctionOnSet(f, S)
  BY TotalIsSum
<1> QED
  BY <1>1, <1>2, SumType

LEMMA TotalNat ==
  ASSUME NEW S \in SUBSET Symbols, NEW f \in [S -> Nat]
  PROVE  Total(f) \in Nat
<1>1. IsFiniteSet(S)
  BY Broker, FS_Subset
<1>2. Total(f) = SumFunctionOnSet(f, S)
  BY TotalIsSum
<1> QED
  BY <1>1, <1>2, SumNat

LEMMA TotalMonotone ==
  ASSUME NEW f \in [Symbols -> Int], NEW g \in [Symbols -> Int],
         \A s \in Symbols : f[s] <= g[s]
  PROVE  Total(f) <= Total(g)
<1>1. IsFiniteSet(Symbols)
  BY Broker
<1>2. SumFunctionOnSet(f, Symbols) <= SumFunctionOnSet(g, Symbols)
  BY <1>1, SumMonotone
<1>3. Total(f) = SumFunctionOnSet(f, Symbols) /\ Total(g) = SumFunctionOnSet(g, Symbols)
  BY TotalIsSum
<1> QED
  BY <1>2, <1>3

LEMMA TotalLinear ==
  ASSUME NEW f \in [Symbols -> Int], NEW g \in [Symbols -> Int], NEW h \in [Symbols -> Int],
         NEW a \in Int, \A s \in Symbols : h[s] = a * f[s] + g[s]
  PROVE  Total(h) = a * Total(f) + Total(g)
<1>1. IsFiniteSet(Symbols)
  BY Broker
<1>2. \A s \in Symbols : f[s] \in Int /\ g[s] \in Int /\ h[s] = a * f[s] + g[s]
  OBVIOUS
<1>3. SumFunctionOnSet(h, Symbols)
        = a * SumFunctionOnSet(f, Symbols) + SumFunctionOnSet(g, Symbols)
  BY <1>1, <1>2, SumLinear
<1>4. /\ Total(f) = SumFunctionOnSet(f, Symbols) /\ Total(g) = SumFunctionOnSet(g, Symbols)
      /\ Total(h) = SumFunctionOnSet(h, Symbols)
  BY TotalIsSum
<1> QED
  BY <1>3, <1>4

LEMMA TotalAdd ==
  ASSUME NEW f \in [Symbols -> Int], NEW g \in [Symbols -> Int], NEW h \in [Symbols -> Int],
         \A s \in Symbols : h[s] = f[s] + g[s]
  PROVE  Total(h) = Total(f) + Total(g)
<1>1. 1 \in Int /\ Symbols \in SUBSET Symbols
  OBVIOUS
<1>2. \A s \in Symbols : h[s] = 1 * f[s] + g[s]
  OBVIOUS
<1>3. Total(h) = 1 * Total(f) + Total(g)
  BY <1>1, <1>2, TotalLinear
<1>4. Total(f) \in Int
  BY <1>1, TotalType
<1> QED
  BY <1>3, <1>4

\* The total over a part of the symbols is that of a function that is zero elsewhere.
LEMMA TotalRestrict ==
  ASSUME NEW S \in SUBSET Symbols, NEW f \in [S -> Int], NEW g \in [Symbols -> Int],
         \A s \in Symbols : g[s] = IF s \in S THEN f[s] ELSE 0
  PROVE  Total(g) = Total(f)
<1>1. IsFiniteSet(Symbols) /\ IsFiniteSet(S)
  BY Broker, FS_Subset
<1>2. SumFunctionOnSet(g, Symbols) = SumFunctionOnSet(g, S)
  <2>1. (\A s \in Symbols : g[s] \in Int) /\ (\A s \in Symbols \ S : g[s] = 0)
    OBVIOUS
  <2> QED
    BY <1>1, <2>1, SumRestrict
<1>3. SumFunctionOnSet(f, S) = SumFunctionOnSet(g, S)
  <2>1. \A s \in S : f[s] \in Int /\ g[s] = f[s]
    OBVIOUS
  <2> QED
    BY <1>1, <2>1, SumSame
<1>4. Total(g) = SumFunctionOnSet(g, Symbols) /\ Total(f) = SumFunctionOnSet(f, S)
  BY TotalIsSum
<1> QED
  BY <1>2, <1>3, <1>4

\* The worth of what is held.
LEMMA ValueType ==
  ASSUME NEW held \in [Symbols -> Int], NEW quotes \in [Symbols -> Nat]
  PROVE  /\ ValueAt(held, quotes) \in Int
         /\ held \in [Symbols -> Nat] => ValueAt(held, quotes) \in Nat
<1> DEFINE f == [s \in Symbols |-> held[s] * quotes[s]]
<1>1. f \in [Symbols -> Int] /\ (held \in [Symbols -> Nat] => f \in [Symbols -> Nat])
  OBVIOUS
<1>2. ValueAt(held, quotes) = Total(f)
  BY DEF ValueAt
<1> HIDE DEF f
<1>3. Symbols \in SUBSET Symbols
  OBVIOUS
<1> QED
  BY <1>1, <1>2, <1>3, TotalType, TotalNat

\* Trades of some symbols move the worth by what they are worth.
LEMMA ValueMoves ==
  ASSUME NEW held \in [Symbols -> Int], NEW moved \in [Symbols -> Int],
         NEW quotes \in [Symbols -> Nat], NEW D \in SUBSET Symbols, NEW q \in [Symbols -> Int],
         \A s \in D : moved[s] = held[s] + q[s], \A s \in Symbols \ D : moved[s] = held[s],
         NEW f \in [D -> Int], \A s \in D : f[s] = q[s] * quotes[s]
  PROVE  ValueAt(moved, quotes) = ValueAt(held, quotes) + Total(f)
<1> DEFINE g == [s \in Symbols |-> IF s \in D THEN q[s] * quotes[s] ELSE 0]
           before == [s \in Symbols |-> held[s] * quotes[s]]
           after == [s \in Symbols |-> moved[s] * quotes[s]]
<1>1. /\ g \in [Symbols -> Int]
      /\ before \in [Symbols -> Int] /\ after \in [Symbols -> Int]
  OBVIOUS
<1>2. \A s \in Symbols : after[s] = before[s] + g[s]
  <2> SUFFICES ASSUME NEW s \in Symbols PROVE after[s] = before[s] + g[s]
    OBVIOUS
  <2>1. held[s] \in Int /\ q[s] \in Int /\ quotes[s] \in Int
    OBVIOUS
  <2>2. (held[s] + q[s]) * quotes[s] = held[s] * quotes[s] + q[s] * quotes[s]
        /\ held[s] * quotes[s] \in Int
    BY <2>1
  <2> QED
    BY <2>2
<1>3. \A s \in Symbols : g[s] = IF s \in D THEN f[s] ELSE 0
  OBVIOUS
<1>4. ValueAt(moved, quotes) = Total(after) /\ ValueAt(held, quotes) = Total(before)
  BY DEF ValueAt
<1> HIDE DEF g, before, after
<1>5. Total(after) = Total(before) + Total(g)
  BY <1>1, <1>2, TotalAdd
<1>6. Total(g) = Total(f)
  BY <1>1, <1>3, TotalRestrict
<1>7. Total(before) \in Int
  <2>1. Symbols \in SUBSET Symbols
    OBVIOUS
  <2> QED
    BY <1>1, <2>1, TotalType
<1> QED
  BY <1>4, <1>5, <1>6, <1>7

\* A part of a natural number, in basis points of the whole.
LEMMA PartRange ==
  ASSUME NEW n \in Nat, NEW bps \in 0..WHOLE
  PROVE  (n * bps) \div WHOLE \in Nat /\ (n * bps) \div WHOLE <= n
<1>1. /\ n * bps \in Int /\ bps * n <= WHOLE * n /\ 0 * n <= bps * n
      /\ bps * n = n * bps /\ 0 * n = 0 /\ WHOLE * n = n * WHOLE /\ 0 * WHOLE = 0
  BY MulMono, Whole
<1>2. n * bps <= n * WHOLE /\ 0 * WHOLE <= n * bps /\ n \in Int /\ 0 \in Int
  BY <1>1
<1>3. (n * bps) \div WHOLE <= n /\ 0 <= (n * bps) \div WHOLE /\ (n * bps) \div WHOLE \in Int
  BY <1>1, <1>2, Whole, DivBound, DivFloor, DivRange, Zenon
<1> QED
  BY <1>3

\* Costs are never negative.
LEMMA CostsNat ==
  ASSUME NEW quantity \in Int, NEW quote \in Nat, NEW slippage \in Slippages
  PROVE  Costs(quantity, quote, slippage) \in Nat
<1> DEFINE gross == Size(quantity) * quote
           slipped == (gross * slippage) \div WHOLE
           filledAt == IF quantity > 0 THEN gross + slipped ELSE gross - slipped
<1>1. gross \in Nat
  BY DEF Size
<1>2. slippage \in 0..WHOLE
  BY Broker DEF WHOLE
<1>3. slipped \in Nat /\ slipped <= gross
  <2> HIDE DEF gross
  <2> QED
    BY <1>1, <1>2, PartRange, Zenon
<1>4. filledAt \in Nat
  <2> HIDE DEF gross, slipped
  <2> QED
    BY <1>1, <1>3
<1>5. (filledAt * CommissionBps) \div WHOLE \in Nat
  <2> HIDE DEF filledAt
  <2>1. filledAt * CommissionBps \in Nat
    BY <1>4, Broker
  <2> DEFINE x == filledAt * CommissionBps
  <2>2. x \in Int /\ 0 * WHOLE <= x /\ 0 \in Int
    BY <2>1, Whole
  <2> HIDE DEF x
  <2>3. x \div WHOLE \in Int /\ 0 <= x \div WHOLE
    BY <2>2, Whole, DivRange, DivFloor, Zenon
  <2> QED
    BY <2>3 DEF x
<1>6. Costs(quantity, quote, slippage) = slipped + (filledAt * CommissionBps) \div WHOLE
  BY DEF Costs
<1> HIDE DEF slipped, filledAt
<1> QED
  BY <1>3, <1>5, <1>6

LEMMA WeightRange ==
  ASSUME NEW n \in Nat, NEW bps \in 0..WHOLE
  PROVE  (bps * n) \div WHOLE \in Nat /\ (bps * n) \div WHOLE <= n
<1>1. bps * n = n * bps
  BY Whole
<1> QED
  BY <1>1, PartRange

-----------------------------------------------------------------------------
(* Planning *)

\* A whole number of lots.
InLots(s, quantity) == \E k \in Int : quantity = k * Lot[s]

Statuses == {"none", "pending", "approved", "filled", "rejected"}

\* The kind of every variable of the broker.
Types ==
  /\ cash \in Int /\ positions \in [Symbols -> Nat]
  /\ price \in Prices /\ round \in 0..Rounds
  /\ target \in [Symbols -> 0..WHOLE] /\ Total(target) <= WHOLE
  /\ orders \in [Symbols -> [quantity : Int, status : Statuses]]
  /\ books \in [earned : Int, paid : Nat]
  /\ filled \in [Symbols -> Int] /\ intact \in BOOLEAN

LEMMA RoundFacts ==
  ASSUME NEW n \in Nat, NEW s \in Symbols
  PROVE  /\ RoundToLot(n, s) \in Nat /\ RoundToLot(n, s) <= n
         /\ InLots(s, RoundToLot(n, s))
         /\ Lot[s] > 0 => n + 1 <= RoundToLot(n, s) + Lot[s]
<1> DEFINE l == Lot[s]
           k == n \div l
<1>1. l \in Nat
  BY Broker
<1>2. CASE l = 0
  <2>1. RoundToLot(n, s) = 0 /\ 0 = 0 * l /\ ~(l > 0)
    BY <1>2 DEF RoundToLot
  <2> QED
    BY <2>1 DEF InLots
<1>3. CASE l # 0
  <2>1. l \in Nat \ {0} /\ n \in Int /\ 0 * l = 0 /\ 0 \in Int
    BY <1>1, <1>3
  <2>2. RoundToLot(n, s) = k * l
    BY <1>3 DEF RoundToLot
  <2>3. 0 * l <= n
    BY <2>1
  <2>4. k \in Int /\ k * l <= n /\ n < k * l + l /\ 0 <= k
    <3> HIDE DEF l
    <3> QED
      BY <2>1, <2>3, DivRange, DivFloor, Zenon
  <2> HIDE DEF k
  <2>5. k * l \in Nat
    <3> HIDE DEF l
    <3> QED
      BY <1>1, <2>4
  <2>6. InLots(s, RoundToLot(n, s))
    BY <2>2, <2>4 DEF InLots
  <2> DEFINE p == k * l
  <2>7. p \in Nat /\ p <= n /\ n < p + l /\ RoundToLot(n, s) = p
    BY <2>2, <2>4, <2>5
  <2> HIDE DEF p
  <2>8. n + 1 <= p + l
    BY <1>1, <2>7
  <2> QED
    BY <2>6, <2>7, <2>8
<1> QED
  BY <1>2, <1>3

LEMMA NAVType ==
  ASSUME Types
  PROVE  NAV \in Int /\ price \in [Symbols -> Nat] /\ ValueAt(positions, price) \in Nat
<1>1. price \in [Symbols -> Nat] /\ positions \in [Symbols -> Int]
  BY Broker DEF Types
<1>2. ValueAt(positions, price) \in Nat
  BY <1>1, ValueType DEF Types
<1> QED
  BY <1>1, <1>2 DEF NAV, Types

LEMMA TargetRange ==
  ASSUME NEW weights \in Targets
  PROVE  weights \in [Symbols -> 0..WHOLE]
  BY Broker

\* The deviation is between all that is held, to sell, and the NAV, to buy.
LEMMA DeviationRange ==
  ASSUME Types, NAV > 0, NEW weights \in [Symbols -> 0..WHOLE], NEW s \in Symbols
  PROVE  /\ Deviation(weights, s) \in Int
         /\ Deviation(weights, s) <= NAV
         /\ -Deviation(weights, s) <= positions[s] * price[s]
<1> DEFINE part == (weights[s] * NAV) \div WHOLE
           held == positions[s] * price[s]
<1>1. NAV \in Nat /\ weights[s] \in 0..WHOLE
  BY NAVType
<1>2. part \in Nat /\ part <= NAV
  BY <1>1, WeightRange
<1>3. held \in Nat
  BY NAVType DEF Types
<1>4. Deviation(weights, s) = part - held
  BY DEF Deviation
<1> HIDE DEF part, held
<1>5. /\ Deviation(weights, s) \in Int
      /\ Deviation(weights, s) <= NAV
      /\ -Deviation(weights, s) <= held
  BY <1>1, <1>2, <1>3, <1>4
<1> QED
  BY <1>5 DEF held

\* A quotient by a price, back at that price.
LEMMA UnitsFacts ==
  ASSUME NEW n \in Nat, NEW p \in Nat \ {0}
  PROVE  /\ n \div p \in Nat
         /\ (n \div p) * p <= n
         /\ n < (n \div p) * p + p
<1>1. n \in Int /\ 0 * p <= n /\ 0 \in Int
  OBVIOUS
<1>2. n \div p \in Int /\ 0 <= n \div p /\ (n \div p) * p <= n /\ n < (n \div p) * p + p
  BY <1>1, DivRange, DivFloor, Zenon
<1> DEFINE q == n \div p
<1> HIDE DEF q
<1>3. q \in Nat
  BY <1>2 DEF q
<1> QED
  BY <1>2, <1>3 DEF q

\* An amount at a price, in lots: never more than the amount, and less than a lot
\* below it.
LEMMA LotsOf ==
  ASSUME NEW n \in Nat, NEW s \in Symbols, NEW p \in Nat \ {0}
  PROVE  LET q == RoundToLot(n \div p, s)
         IN /\ q \in Nat /\ q * p <= n /\ InLots(s, q)
            /\ q <= n \div p
            /\ Lot[s] > 0 => n < (q + Lot[s]) * p
            /\ Lot[s] > 0 /\ n >= Lot[s] * p => q > 0
<1> DEFINE m == n \div p
           q == RoundToLot(m, s)
           l == Lot[s]
<1>0. l \in Nat
  BY Broker
<1>1. m \in Nat /\ m * p <= n /\ n < m * p + p
  BY UnitsFacts
<1> HIDE DEF m
<1>2. q \in Nat /\ q <= m /\ InLots(s, q) /\ (l > 0 => m + 1 <= q + l)
  BY <1>1, RoundFacts
<1> HIDE DEF q, l
<1>3. q * p <= n
  <2>1. q * p <= m * p /\ q * p \in Int /\ m * p \in Int
    BY <1>1, <1>2, MulMono
  <2> QED
    BY <1>1, <2>1
<1>4. ASSUME l > 0 PROVE n < (q + l) * p
  <2>1. (m + 1) * p <= (q + l) * p /\ (m + 1) * p \in Int /\ (q + l) * p \in Int
    BY <1>0, <1>1, <1>2, <1>4, MulMono
  <2>2. (m + 1) * p = m * p + p
    BY <1>1
  <2> QED
    BY <1>1, <2>1, <2>2
<1>5. ASSUME l > 0, n >= l * p PROVE q > 0
  <2>1. SUFFICES ASSUME q = 0 PROVE FALSE
    BY <1>2
  <2>2. n < (0 + l) * p /\ 0 + l = l
    BY <1>0, <1>4, <1>5, <2>1
  <2>3. l * p \in Int
    BY <1>0
  <2> QED
    BY <1>5, <2>2, <2>3
<1> QED
  BY <1>2, <1>3, <1>4, <1>5 DEF q, m, l

LEMMA SellFacts ==
  ASSUME Types, NAV > 0, NEW weights \in [Symbols -> 0..WHOLE], NEW s \in Symbols,
         Deviation(weights, s) < 0
  PROVE  LET q == SellQuantity(weights, s)
         IN /\ q \in Nat /\ InLots(s, q) /\ q <= positions[s]
            /\ q * price[s] <= -Deviation(weights, s)
            /\ Lot[s] > 0 => -Deviation(weights, s) <= (q + Lot[s]) * price[s]
            /\ (price[s] > 0 /\ Lot[s] > 0 /\ -Deviation(weights, s) >= Lot[s] * price[s]) => q > 0
<1> DEFINE d == -Deviation(weights, s)
           p == price[s]
           q == SellQuantity(weights, s)
           h == positions[s]
           l == Lot[s]
<1>1. d \in Nat /\ p \in Nat /\ h \in Nat /\ d <= h * p /\ l \in Nat
  <2>1. /\ Deviation(weights, s) \in Int
        /\ Deviation(weights, s) <= NAV
        /\ -Deviation(weights, s) <= positions[s] * price[s]
    BY DeviationRange
  <2>2. NAV \in Int /\ price[s] \in Nat
    BY NAVType
  <2>3. positions[s] \in Nat /\ Lot[s] \in Nat /\ MinNotional \in Nat
    BY Broker DEF Types
  <2> QED
    BY <2>1, <2>2, <2>3
<1>2. CASE p = 0
  <2>1. q = 0
    BY <1>2 DEF SellQuantity
  <2>2. 0 = 0 * l
    BY <1>1
  <2>3. InLots(s, q)
    BY <2>1, <2>2 DEF InLots
  <2>4. h * p = 0 /\ 0 * p = 0 /\ (0 + l) * p = 0
    BY <1>1, <1>2
  <2> HIDE DEF q, d, p, h, l
  <2>5. /\ q \in Nat /\ InLots(s, q) /\ q <= h /\ q * p <= d
        /\ l > 0 => d <= (q + l) * p
        /\ (p > 0 /\ l > 0 /\ d >= l * p) => q > 0
    BY <1>1, <1>2, <2>1, <2>3, <2>4
  <2> QED
    BY <2>5 DEF q, d, p, h, l
<1>3. CASE p # 0
  <2>1. q = RoundToLot(d \div p, s)
    BY <1>3 DEF SellQuantity
  <2> HIDE DEF q, d, p, h
  <2>2. p \in Nat \ {0}
    BY <1>1, <1>3
  <2>3. /\ q \in Nat /\ q * p <= d /\ InLots(s, q) /\ q <= d \div p
        /\ Lot[s] > 0 => d < (q + Lot[s]) * p
        /\ Lot[s] > 0 /\ d >= Lot[s] * p => q > 0
    BY <1>1, <2>1, <2>2, LotsOf, Zenon
  <2>4. d \div p <= h /\ d \div p \in Nat
    <3>1. d \in Int /\ h \in Int
      BY <1>1
    <3>2. d \div p <= h
      BY <1>1, <2>2, <3>1, DivBound, Zenon
    <3> QED
      BY <1>1, <2>2, <3>2, UnitsFacts
  <2>5. q <= h
    <3> DEFINE m == d \div p
    <3>1. m \in Nat /\ m <= h /\ q <= m
      BY <2>3, <2>4
    <3> HIDE DEF m
    <3> QED
      BY <1>1, <2>3, <3>1
  <2>6. (q + Lot[s]) * p \in Int
    BY <1>1, <2>3 DEF l
  <2> DEFINE r == (q + Lot[s]) * p
  <2>7. Lot[s] > 0 => d <= r
    <3>1. r \in Int /\ (Lot[s] > 0 => d < r)
      BY <2>3, <2>6
    <3> HIDE DEF r
    <3> QED
      BY <1>1, <3>1
  <2> QED
    BY <2>3, <2>5, <2>7 DEF q, d, p, h
<1> QED
  BY <1>2, <1>3

LEMMA BuyFacts ==
  ASSUME Types, NAV > 0, NEW weights \in [Symbols -> 0..WHOLE], NEW s \in Symbols,
         Deviation(weights, s) > 0
  PROVE  LET q == BuyQuantity(weights, s)
         IN /\ q \in Nat /\ InLots(s, q)
            /\ q * price[s] <= Deviation(weights, s)
            /\ (/\ price[s] > 0 /\ Lot[s] > 0
                /\ Deviation(weights, s) >= MinNotional
                /\ Deviation(weights, s) >= Lot[s] * price[s]) => q > 0
            /\ q > 0 => Deviation(weights, s) >= MinNotional
            /\ (/\ price[s] > 0 /\ Lot[s] > 0
                /\ Deviation(weights, s) >= MinNotional) =>
                 Deviation(weights, s) < (q + Lot[s]) * price[s]
<1> DEFINE d == Deviation(weights, s)
           p == price[s]
           q == BuyQuantity(weights, s)
           l == Lot[s]
           proceeds == Total([t \in Sold(weights) |-> SellQuantity(weights, t) * price[t]])
<1>1. d \in Nat /\ p \in Nat /\ d <= NAV /\ l \in Nat /\ NAV \in Nat /\ MinNotional \in Nat
  <2>1. /\ Deviation(weights, s) \in Int
        /\ Deviation(weights, s) <= NAV
        /\ -Deviation(weights, s) <= positions[s] * price[s]
    BY DeviationRange
  <2>2. NAV \in Int /\ price[s] \in Nat
    BY NAVType
  <2>3. positions[s] \in Nat /\ Lot[s] \in Nat /\ MinNotional \in Nat
    BY Broker DEF Types
  <2> QED
    BY <2>1, <2>2, <2>3
<1>2. proceeds \in Nat
  <2> DEFINE f == [t \in Sold(weights) |-> SellQuantity(weights, t) * price[t]]
             S == Sold(weights)
  <2>1. S \in SUBSET Symbols /\ \A t \in S : Deviation(weights, t) < 0
    BY DEF Sold
  <2>2. \A t \in S : SellQuantity(weights, t) \in Nat
    BY <2>1, SellFacts
  <2>3. f \in [S -> Nat]
    <3>1. \A t \in S : price[t] \in Nat
      BY <2>1, NAVType
    <3> HIDE DEF S
    <3> QED
      BY <2>2, <3>1 DEF S
  <2> HIDE DEF f, S
  <2>4. Total(f) \in Nat
    BY <2>1, <2>3, TotalNat
  <2> QED
    BY <2>4 DEF f
<1>3. Least(d, NAV + proceeds) = d
  <2> HIDE DEF d, proceeds
  <2> QED
    BY <1>1, <1>2 DEF Least
<1>4. q = IF p = 0 \/ d < MinNotional THEN 0 ELSE RoundToLot(d \div p, s)
  BY <1>3 DEF BuyQuantity
<1> HIDE DEF d, q, p
<1>5. CASE p = 0 \/ d < MinNotional
  <2>1. q = 0 /\ 0 * p = 0 /\ 0 = 0 * Lot[s]
    BY <1>1, <1>4, <1>5
  <2>2. InLots(s, q)
    BY <2>1 DEF InLots
  <2>3. /\ q \in Nat /\ InLots(s, q) /\ q * p <= d /\ ~(q > 0)
        /\ ~(p > 0 /\ d >= MinNotional)
    BY <1>1, <1>5, <2>1, <2>2
  <2> QED
    BY <2>3 DEF d, q, p
<1>6. CASE ~(p = 0 \/ d < MinNotional)
  <2>1. q = RoundToLot(d \div p, s) /\ p \in Nat \ {0}
    BY <1>1, <1>4, <1>6
  <2>2. /\ q \in Nat /\ q * p <= d /\ InLots(s, q)
        /\ Lot[s] > 0 /\ d >= Lot[s] * p => q > 0
        /\ Lot[s] > 0 => d < (q + Lot[s]) * p
    BY <1>1, <2>1, LotsOf, Zenon
  <2>3. d >= MinNotional
    BY <1>1, <1>6
  <2> QED
    BY <2>2, <2>3 DEF d, q, p
<1> QED
  BY <1>5, <1>6

\* What is ordered of a symbol goes towards its weight, never past it, and sells no
\* more than there is.
LEMMA QuantityFacts ==
  ASSUME Types, NEW weights \in [Symbols -> 0..WHOLE], NEW s \in Symbols
  PROVE  LET q == Quantity(weights, s)
         IN /\ q \in Int /\ InLots(s, q) /\ positions[s] + q >= 0
            /\ q # 0 => NAV > 0
            /\ q > 0 => Deviation(weights, s) > 0 /\ q * price[s] <= Deviation(weights, s)
            /\ q < 0 => Deviation(weights, s) < 0 /\ (-q) * price[s] <= -Deviation(weights, s)
<1> DEFINE d == Deviation(weights, s)
           q == Quantity(weights, s)
<1>0. positions[s] \in Nat /\ price[s] \in Nat /\ NAV \in Int /\ Lot[s] \in Nat
  BY NAVType, Broker DEF Types
<1>1. CASE NAV <= 0 \/ ~Deviates(d)
  <2>0. q = 0
    <3>1. ~(NAV > 0 /\ s \in Sold(weights))
      BY <1>0, <1>1 DEF Sold
    <3> QED
      BY <1>1, <3>1 DEF Quantity
  <2>1. q = 0 /\ 0 = 0 * Lot[s]
    BY <1>0, <2>0
  <2>2. InLots(s, q)
    BY <2>1 DEF InLots
  <2> QED
    BY <1>0, <2>1, <2>2
<1>2. CASE NAV > 0 /\ Deviates(d) /\ s \in Sold(weights)
  <2> DEFINE x == SellQuantity(weights, s)
  <2>1. q = -x /\ d < 0
    BY <1>0, <1>2 DEF Quantity, Sold
  <2>2. /\ x \in Nat /\ InLots(s, x) /\ x <= positions[s]
        /\ x * price[s] <= -d
    BY <1>2, <2>1, SellFacts
  <2> HIDE DEF q, d, x
  <2>3. InLots(s, -x)
    <3>1. PICK k \in Int : x = k * Lot[s]
      BY <2>2 DEF InLots
    <3>2. -x = (-k) * Lot[s] /\ -k \in Int
      BY <1>0, <3>1
    <3> QED
      BY <3>2 DEF InLots
  <2>4. -(-x) = x /\ -x \in Int /\ positions[s] + -x >= 0 /\ ~(-x > 0)
    BY <1>0, <2>2
  <2>5. (-q) * price[s] = x * price[s]
    BY <2>1, <2>4
  <2> QED
    BY <1>2, <2>1, <2>2, <2>3, <2>4, <2>5 DEF q, d
<1>3. CASE NAV > 0 /\ Deviates(d) /\ s \notin Sold(weights)
  <2> DEFINE x == BuyQuantity(weights, s)
  <2>1. d \in Int
    BY <1>3, DeviationRange
  <2>2. d > 0
    <3>1. ~(d < 0)
      BY <1>3 DEF Sold
    <3>2. d # 0
      <4>1. SUFFICES ASSUME d = 0 PROVE FALSE
        OBVIOUS
      <4>2. Deviates(0)
        BY <1>3, <4>1
      <4> QED
        BY <1>0, <1>3, <4>2, Whole DEF Deviates, Size, THRESHOLD
    <3> HIDE DEF d
    <3> QED
      BY <2>1, <3>1, <3>2
  <2>3. q = x
    BY <1>0, <1>3 DEF Quantity
  <2>4. x \in Nat /\ InLots(s, x) /\ x * price[s] <= d
    BY <1>3, <2>2, BuyFacts
  <2> HIDE DEF q, d, x
  <2> QED
    BY <1>0, <1>3, <2>2, <2>3, <2>4 DEF q, d
<1> QED
  BY <1>0, <1>1, <1>2, <1>3

LEMMA PlannedType ==
  ASSUME Types, NEW weights \in [Symbols -> 0..WHOLE]
  PROVE  Planned(weights) \in [Symbols -> [quantity : Int, status : Statuses]]
<1>1. \A s \in Symbols : Quantity(weights, s) \in Int
  BY QuantityFacts
<1> QED
  BY <1>1 DEF Planned, Statuses

-----------------------------------------------------------------------------
(* One execution *)

Done(approve_all) == {s \in Approved(approve_all) : price[s] > 0}
Traded(D) == Total([s \in D |-> orders[s].quantity * price[s]])
CostOf(D, slippage) == Total([s \in D |-> Costs(orders[s].quantity, price[s], slippage)])

LEMMA ExecuteFacts ==
  ASSUME Types, NEW approve_all \in BOOLEAN, NEW slippage \in Slippages,
         ExecuteOrders(approve_all, slippage)
  PROVE  LET D == Done(approve_all)
         IN /\ D \in SUBSET Symbols
            /\ ~Resubmits => D \subseteq Open
            /\ Traded(D) \in Int /\ CostOf(D, slippage) \in Nat
            /\ cash' = cash - Traded(D) - CostOf(D, slippage)
            /\ positions' = [s \in Symbols |->
                 IF s \in D THEN Greatest(0, positions[s] + orders[s].quantity)
                            ELSE positions[s]]
            /\ \A s \in Symbols :
                 /\ orders'[s].quantity = orders[s].quantity
                 /\ orders'[s].status \in {orders[s].status, "filled", "rejected"}
                 /\ s \in D => orders'[s].status = "filled"
                 /\ s \notin D /\ price[s] > 0 => orders'[s].status = orders[s].status
                 /\ orders'[s].status = "none" <=> orders[s].status = "none"
                 /\ orders'[s].status = "rejected" => orders[s].status = "rejected" \/ price[s] = 0
                 /\ orders'[s].status = "filled" => orders[s].status = "filled" \/ s \in D
            /\ orders' \in [Symbols -> [quantity : Int, status : Statuses]]
            /\ books' = [books EXCEPT !.paid = @ + CostOf(D, slippage)]
            /\ filled' = [s \in Symbols |->
                 IF s \in D THEN filled[s] + orders[s].quantity ELSE filled[s]]
            /\ UNCHANGED <<price, target, round, intact>>
<1> DEFINE D == Done(approve_all)
<1>1. D \in SUBSET Symbols
  BY DEF Done, Approved, Batch
<1>2. ~Resubmits => D \subseteq Open
  BY DEF ExecuteOrders, Done, Approved, Open, Batch
<1>3. \A s \in Symbols : orders[s].quantity \in Int /\ price[s] \in Nat /\ orders[s].status \in Statuses
  BY NAVType DEF Types
<1>4. Traded(D) \in Int
  <2> DEFINE f == [s \in D |-> orders[s].quantity * price[s]]
  <2>1. f \in [D -> Int]
    BY <1>1, <1>3
  <2> HIDE DEF f, D
  <2>2. Total(f) \in Int
    BY <1>1, <2>1, TotalType
  <2> QED
    BY <2>2 DEF f, Traded
<1>5. CostOf(D, slippage) \in Nat
  <2> DEFINE f == [s \in D |-> Costs(orders[s].quantity, price[s], slippage)]
  <2>1. f \in [D -> Nat]
    BY <1>1, <1>3, CostsNat
  <2> HIDE DEF f, D
  <2>2. Total(f) \in Nat
    BY <1>1, <2>1, TotalNat
  <2> QED
    BY <2>2 DEF f, CostOf
<1>6. /\ cash' = cash - Traded(D) - CostOf(D, slippage)
      /\ positions' = [s \in Symbols |->
           IF s \in D THEN Greatest(0, positions[s] + orders[s].quantity) ELSE positions[s]]
      /\ books' = [books EXCEPT !.paid = @ + CostOf(D, slippage)]
      /\ filled' = [s \in Symbols |->
           IF s \in D THEN filled[s] + orders[s].quantity ELSE filled[s]]
      /\ UNCHANGED <<price, target, round, intact>>
  BY DEF ExecuteOrders, Done, Traded, CostOf
<1>7. orders' = [s \in Symbols |->
        [orders[s] EXCEPT !.status = IF s \in D THEN "filled"
                                     ELSE IF s \in Batch /\ price[s] = 0 THEN "rejected" ELSE @]]
  BY DEF ExecuteOrders, Done, Batch
<1>8. \A s \in Symbols : s \in D => orders[s].status # "none" /\ price[s] > 0
  BY DEF Done, Approved, Batch
<1>9. \A s \in Symbols : s \in Batch <=> orders[s].status # "none"
  BY DEF Batch
<1>10. ASSUME NEW s \in Symbols
       PROVE  /\ orders'[s].quantity = orders[s].quantity
              /\ orders'[s].status \in {orders[s].status, "filled", "rejected"}
              /\ s \in D => orders'[s].status = "filled"
              /\ s \notin D /\ price[s] > 0 => orders'[s].status = orders[s].status
              /\ orders'[s].status = "none" <=> orders[s].status = "none"
              /\ orders'[s].status = "rejected" => orders[s].status = "rejected" \/ price[s] = 0
              /\ orders'[s].status = "filled" => orders[s].status = "filled" \/ s \in D
              /\ orders'[s] \in [quantity : Int, status : Statuses]
  <2> HIDE DEF D
  <2> QED
    BY <1>3, <1>7, <1>8, <1>9 DEF Types, Statuses
<1>11. orders' \in [Symbols -> [quantity : Int, status : Statuses]]
  <2> HIDE DEF D
  <2> QED
    BY <1>7, <1>10
<1> QED
  BY <1>1, <1>2, <1>4, <1>5, <1>6, <1>10, <1>11

LEMMA ZeroTotal == Total([s \in Symbols |-> 0]) = 0
<1> DEFINE f == [s \in Symbols |-> 0]
<1>1. f \in [Symbols -> Int] /\ \A s \in Symbols : f[s] = f[s] + f[s]
  OBVIOUS
<1> HIDE DEF f
<1>2. Total(f) = Total(f) + Total(f)
  BY <1>1, TotalAdd
<1>3. Total(f) \in Int
  <2>1. Symbols \in SUBSET Symbols
    OBVIOUS
  <2> QED
    BY <1>1, <2>1, TotalType
<1>4. Total(f) = 0
  <2> DEFINE x == Total(f)
  <2>1. x = x + x /\ x \in Int
    BY <1>2, <1>3
  <2> HIDE DEF x
  <2>2. x = 0
    BY <2>1
  <2> QED
    BY <2>2 DEF x
<1> QED
  BY <1>4 DEF f

LEMMA TypesInit == Init => Types
<1> SUFFICES ASSUME Init PROVE Types
  OBVIOUS
<1>1. Total(target) <= WHOLE /\ 0 \in 0..WHOLE
  BY ZeroTotal, Whole DEF Init
<1>2. intact \in BOOLEAN
  BY DEF Init
<1>3. orders \in [Symbols -> [quantity : Int, status : Statuses]]
  BY DEF Init, NoOrders, Statuses
<1> QED
  BY <1>1, <1>2, <1>3, Broker DEF Init, Types

LEMMA TypesStep == Types /\ [Next]_vars => Types'
<1> SUFFICES ASSUME Types, [Next]_vars PROVE Types'
  OBVIOUS
<1>1. ASSUME NEW weights \in Targets, PlanOrders(weights) PROVE Types'
  <2>1. weights \in [Symbols -> 0..WHOLE] /\ Total(weights) <= WHOLE
    BY TargetRange, TargetsAssumption
  <2>2. Planned(weights) \in [Symbols -> [quantity : Int, status : Statuses]]
    BY <2>1, PlannedType
  <2>3. intact' \in BOOLEAN
    BY <1>1 DEF PlanOrders
  <2>4. round' \in 0..Rounds
    BY <1>1, Broker DEF PlanOrders, Types
  <2> QED
    BY <1>1, <2>1, <2>2, <2>3, <2>4 DEF PlanOrders, Types
<1>2. ASSUME NEW s \in Symbols, Approve(s) PROVE Types'
  <2>1. orders' \in [Symbols -> [quantity : Int, status : Statuses]]
    BY <1>2 DEF Approve, Types, Statuses
  <2> QED
    BY <1>2, <2>1 DEF Approve, Types
<1>3. ASSUME NEW quotes \in Prices, MovePrices(quotes) PROVE Types'
  <2>1. ValueAt(positions, quotes) \in Int /\ ValueAt(positions, price) \in Int
    <3>1. positions \in [Symbols -> Int] /\ quotes \in [Symbols -> Nat] /\ price \in [Symbols -> Nat]
      BY Broker DEF Types
    <3> QED
      BY <3>1, ValueType
  <2>2. intact' \in BOOLEAN
    BY <1>3 DEF MovePrices
  <2> QED
    BY <1>3, <2>1, <2>2 DEF MovePrices, Types
<1>4. ASSUME NEW approve_all \in BOOLEAN, NEW slippage \in Slippages,
             ExecuteOrders(approve_all, slippage)
      PROVE  Types'
  <2> DEFINE D == Done(approve_all)
  <2>1. /\ Traded(D) \in Int /\ CostOf(D, slippage) \in Nat
        /\ cash' = cash - Traded(D) - CostOf(D, slippage)
        /\ positions' = [s \in Symbols |->
             IF s \in D THEN Greatest(0, positions[s] + orders[s].quantity) ELSE positions[s]]
        /\ orders' \in [Symbols -> [quantity : Int, status : Statuses]]
        /\ books' = [books EXCEPT !.paid = @ + CostOf(D, slippage)]
        /\ filled' = [s \in Symbols |->
             IF s \in D THEN filled[s] + orders[s].quantity ELSE filled[s]]
        /\ UNCHANGED <<price, target, round, intact>>
    BY <1>4, ExecuteFacts
  <2> HIDE DEF D
  <2>2. positions' \in [Symbols -> Nat]
    BY <2>1 DEF Types, Greatest
  <2>3. filled' \in [Symbols -> Int]
    BY <2>1 DEF Types
  <2> QED
    BY <2>1, <2>2, <2>3 DEF Types
<1>5. CASE UNCHANGED vars
  BY <1>5 DEF vars, Types
<1> QED
  BY <1>1, <1>2, <1>3, <1>4, <1>5 DEF Next

LEMMA TypesInvariant == Spec => []Types
  BY TypesInit, TypesStep, PTL DEF Spec

-----------------------------------------------------------------------------
(* Positions and orders *)

\* The positions are the sum of the fills, everything is in lots, and no open
\* order sells more than is held.
Held ==
  /\ positions = filled
  /\ \A s \in Symbols :
       /\ InLots(s, positions[s]) /\ InLots(s, orders[s].quantity)
       /\ s \in Open => positions[s] + orders[s].quantity >= 0

LEMMA LotsAdd ==
  ASSUME NEW s \in Symbols, NEW a \in Int, NEW b \in Int, InLots(s, a), InLots(s, b)
  PROVE  InLots(s, a + b)
<1>1. PICK i \in Int : a = i * Lot[s]
  BY DEF InLots
<1>2. PICK j \in Int : b = j * Lot[s]
  BY DEF InLots
<1> DEFINE l == Lot[s]
<1>3. l \in Int
  BY Broker
<1>4. a + b = (i + j) * l
  <2> HIDE DEF l
  <2>1. (i + j) * l = i * l + j * l
    BY <1>3
  <2> QED
    BY <1>1, <1>2, <2>1 DEF l
<1> QED
  BY <1>4 DEF InLots

LEMMA HeldInit == Init => Held
<1> SUFFICES ASSUME Init PROVE Held
  OBVIOUS
<1>1. \A s \in Symbols : InLots(s, 0)
  <2> SUFFICES ASSUME NEW s \in Symbols PROVE InLots(s, 0)
    OBVIOUS
  <2>1. 0 = 0 * Lot[s]
    BY Broker
  <2> QED
    BY <2>1 DEF InLots
<1> QED
  BY <1>1 DEF Init, NoOrders, Held, Open

LEMMA HeldExecute ==
  ASSUME ~Resubmits, Types, Held, NEW approve_all \in BOOLEAN, NEW slippage \in Slippages,
         ExecuteOrders(approve_all, slippage)
  PROVE  /\ Held'
         /\ positions' = [s \in Symbols |->
              IF s \in Done(approve_all) THEN positions[s] + orders[s].quantity
                                         ELSE positions[s]]
<1> DEFINE D == Done(approve_all)
<1>1. /\ D \subseteq Open
      /\ positions' = [s \in Symbols |->
           IF s \in D THEN Greatest(0, positions[s] + orders[s].quantity) ELSE positions[s]]
      /\ \A s \in Symbols :
           /\ orders'[s].quantity = orders[s].quantity
           /\ orders'[s].status \in {orders[s].status, "filled", "rejected"}
           /\ s \in D => orders'[s].status = "filled"
      /\ filled' = [s \in Symbols |->
           IF s \in D THEN filled[s] + orders[s].quantity ELSE filled[s]]
  BY ExecuteFacts
<1>2. positions' = [s \in Symbols |->
        IF s \in D THEN positions[s] + orders[s].quantity ELSE positions[s]]
  <2> HIDE DEF D
  <2>1. \A s \in D : positions[s] + orders[s].quantity >= 0
    BY <1>1 DEF Held, Open
  <2>2. \A s \in Symbols : positions[s] \in Nat /\ orders[s].quantity \in Int
    BY DEF Types
  <2>3. \A s \in D : Greatest(0, positions[s] + orders[s].quantity) = positions[s] + orders[s].quantity
    BY <2>1, <2>2, <1>1 DEF Greatest, Open
  <2> QED
    BY <1>1, <2>3
<1>3. positions' = filled'
  <2> HIDE DEF D
  <2> QED
    BY <1>1, <1>2 DEF Held
<1>4. ASSUME NEW s \in Symbols
      PROVE  /\ InLots(s, positions'[s]) /\ InLots(s, orders'[s].quantity)
             /\ s \in Open' => positions'[s] + orders'[s].quantity >= 0
  <2> HIDE DEF D
  <2>0. positions[s] \in Int /\ orders[s].quantity \in Int
        /\ InLots(s, positions[s]) /\ InLots(s, orders[s].quantity)
    BY DEF Types, Held
  <2>1. InLots(s, positions[s] + orders[s].quantity)
    BY <2>0, LotsAdd
  <2>2. orders'[s].quantity = orders[s].quantity
    BY <1>1
  <2>3. positions'[s] = IF s \in D THEN positions[s] + orders[s].quantity ELSE positions[s]
    BY <1>2
  <2>4. InLots(s, positions'[s]) /\ InLots(s, orders'[s].quantity)
    BY <2>0, <2>1, <2>2, <2>3, Zenon
  <2>5. s \in Open' => s \in Open /\ s \notin D
    BY <1>1 DEF Open
  <2> QED
    BY <2>2, <2>3, <2>4, <2>5 DEF Held
<1> QED
  BY <1>2, <1>3, <1>4 DEF Held, InLots

LEMMA HeldStep ==
  ASSUME ~Resubmits, Types, Held, [Next]_vars
  PROVE  Held'
<1>1. ASSUME NEW weights \in Targets, PlanOrders(weights) PROVE Held'
  <2>1. weights \in [Symbols -> 0..WHOLE]
    BY TargetRange
  <2>2. \A s \in Symbols : InLots(s, Quantity(weights, s)) /\ positions[s] + Quantity(weights, s) >= 0
    BY <2>1, QuantityFacts
  <2>3. /\ UNCHANGED <<positions, filled>>
        /\ \A s \in Symbols : orders'[s].quantity = Quantity(weights, s)
    BY <1>1 DEF PlanOrders, Planned
  <2> QED
    BY <2>2, <2>3 DEF Held, InLots
<1>2. ASSUME NEW s \in Symbols, Approve(s) PROVE Held'
  <2>1. /\ UNCHANGED <<positions, filled>>
        /\ \A t \in Symbols : orders'[t].quantity = orders[t].quantity
        /\ Open' = Open
    BY <1>2 DEF Approve, Types, Open
  <2> QED
    BY <2>1 DEF Held, InLots
<1>3. ASSUME NEW quotes \in Prices, MovePrices(quotes) PROVE Held'
  BY <1>3 DEF MovePrices, Held, InLots, Open
<1>4. CASE UNCHANGED vars
  BY <1>4 DEF vars, Held, InLots, Open
<1> QED
  BY <1>1, <1>2, <1>3, <1>4, HeldExecute DEF Next

\* A multiple leaves no remainder.
LEMMA NoRemainder ==
  ASSUME NEW k \in Int, NEW l \in Nat \ {0}
  PROVE  (k * l) % l = 0
<1> DEFINE a == k * l
<1>1. a \in Int /\ a <= k * l /\ k * l <= a
  OBVIOUS
<1> HIDE DEF a
<1>2. a \div l = k
  <2>1. a \div l <= k /\ k <= a \div l /\ a \div l \in Int
    BY <1>1, DivBound, DivFloor, DivRange, Zenon
  <2> QED
    BY <2>1
<1>3. a % l = a - l * (a \div l)
  BY <1>1
<1>4. l * k = k * l
  OBVIOUS
<1> QED
  BY <1>1, <1>2, <1>3, <1>4 DEF a

\* The desk's steps are the broker's, or leave the broker alone.
LEMMA DeskStep == [DeskNext]_deskVars => [Next]_vars
  BY DEF DeskNext, deskVars, Instruct, InstructBroke, Execute, Review, Next

\* The desk implements the broker: whatever holds of every run of the broker holds
\* of a desk that strings report, plan, execution and review together.
THEOREM DeskImplementsBroker == DeskSpec => Spec
<1>1. DeskInit => Init
  BY DEF DeskInit
<1> QED
  BY <1>1, DeskStep, PTL DEF DeskSpec, Spec

\* What invariance rests on.
LEMMA HeldInvariant ==
  ASSUME ~Resubmits
  PROVE  Spec => [](Types /\ Held)
<1>1. Types /\ Held /\ [Next]_vars => Types' /\ Held'
  BY TypesStep, HeldStep
<1> QED
  BY <1>1, TypesInit, HeldInit, PTL DEF Spec

\* As long as nobody executes a batch twice, the positions are the sum of the
\* fills, in whole lots, and no sell ever meets a smaller position.
THEOREM PositionsRebuilt ==
  ASSUME ~Resubmits
  PROVE  DeskSpec => []PositionsFromOrders
<1>1. Types /\ Held => PositionsFromOrders
  <2> SUFFICES ASSUME Types, Held PROVE PositionsFromOrders
    OBVIOUS
  <2>1. ASSUME NEW s \in Symbols, positions[s] > 0 PROVE positions[s] % Lot[s] = 0
    <3>1. PICK k \in Int : positions[s] = k * Lot[s]
      BY DEF Held, InLots
    <3>2. Lot[s] \in Nat \ {0}
      <4>1. SUFFICES ASSUME Lot[s] = 0 PROVE FALSE
        BY Broker
      <4>2. k * 0 = 0
        OBVIOUS
      <4> QED
        BY <2>1, <3>1, <4>1, <4>2
    <3> QED
      BY <3>1, <3>2, NoRemainder
  <2>2. TypeOK
    BY <2>1 DEF Types, TypeOK, Statuses
  <2> QED
    BY <2>2 DEF Held, PositionsFromOrders
<1> QED
  BY <1>1, HeldInvariant, DeskImplementsBroker, PTL

-----------------------------------------------------------------------------
(* The account *)

\* Fills at the market change what is held into its worth, but for their costs.
LEMMA ExecuteNAV ==
  ASSUME ~Resubmits, Types, Held, NEW approve_all \in BOOLEAN, NEW slippage \in Slippages,
         ExecuteOrders(approve_all, slippage)
  PROVE  NAV' = NAV - CostOf(Done(approve_all), slippage)
<1> DEFINE D == Done(approve_all)
           q == [s \in Symbols |-> orders[s].quantity]
           c == CostOf(D, slippage)
           f == [s \in D |-> orders[s].quantity * price[s]]
<1>0. /\ NAV \in Int /\ cash \in Int
      /\ price \in [Symbols -> Nat] /\ positions \in [Symbols -> Int]
  BY NAVType DEF Types
<1>1. /\ D \in SUBSET Symbols
      /\ Traded(D) \in Int /\ c \in Nat
      /\ cash' = cash - Traded(D) - c
      /\ price' = price
  BY ExecuteFacts
<1>2. positions' = [s \in Symbols |-> IF s \in D THEN positions[s] + orders[s].quantity
                                                 ELSE positions[s]]
  BY HeldExecute
<1>3. q \in [Symbols -> Int]
  BY DEF Types
<1>4. Traded(D) = Total(f) /\ f \in [D -> Int] /\ \A s \in D : f[s] = q[s] * price[s]
  BY <1>0, <1>1, <1>3 DEF Traded
<1>5. positions' \in [Symbols -> Int]
      /\ \A s \in Symbols : positions'[s] = IF s \in D THEN positions[s] + q[s] ELSE positions[s]
  BY <1>0, <1>2, <1>3
<1> HIDE DEF D, q, c, f
<1>6. ValueAt(positions', price) = ValueAt(positions, price) + Traded(D)
  <2>1. /\ positions \in [Symbols -> Int] /\ positions' \in [Symbols -> Int]
        /\ price \in [Symbols -> Nat] /\ D \in SUBSET Symbols /\ q \in [Symbols -> Int]
        /\ \A s \in D : positions'[s] = positions[s] + q[s]
        /\ \A s \in Symbols \ D : positions'[s] = positions[s]
    BY <1>0, <1>1, <1>3, <1>5
  <2>2. ValueAt(positions', price) = ValueAt(positions, price) + Total(f)
    BY <1>4, <2>1, ValueMoves, ZenonT(120)
  <2> QED
    BY <1>4, <2>2
<1>7. ValueAt(positions, price) \in Int
  BY <1>0, ValueType
<1>8. NAV' = NAV - c
  BY <1>0, <1>1, <1>6, <1>7 DEF NAV
<1> QED
  BY <1>8 DEF c, D

LEMMA AccountStep ==
  ASSUME ~Resubmits, Types, Held, [Next]_vars
  PROVE  [Books!Next]_Books!accountVars
<1>0. /\ books.earned \in Int /\ books.paid \in Nat /\ NAV \in Int /\ cash \in Int
      /\ price \in [Symbols -> Nat] /\ positions \in [Symbols -> Int]
  BY NAVType DEF Types
<1>1. ASSUME NEW weights \in Targets, PlanOrders(weights) PROVE UNCHANGED Books!accountVars
  BY <1>1 DEF PlanOrders, Books!accountVars, NAV
<1>2. ASSUME NEW s \in Symbols, Approve(s) PROVE UNCHANGED Books!accountVars
  BY <1>2 DEF Approve, Books!accountVars, NAV
<1>3. ASSUME NEW quotes \in Prices, MovePrices(quotes) PROVE Books!Earn
  <2>1. /\ price' = quotes /\ UNCHANGED <<cash, positions>>
        /\ books' = [books EXCEPT !.earned =
                       @ + ValueAt(positions, quotes) - ValueAt(positions, price)]
    BY <1>3 DEF MovePrices
  <2>2. ValueAt(positions, quotes) \in Int /\ ValueAt(positions, price) \in Int
    <3>1. quotes \in [Symbols -> Nat]
      BY Broker
    <3> QED
      BY <1>0, <3>1, ValueType
  <2>3. NAV' = cash + ValueAt(positions, quotes) /\ NAV = cash + ValueAt(positions, price)
    BY <2>1 DEF NAV
  <2>4. /\ books'.earned = books.earned + ValueAt(positions, quotes) - ValueAt(positions, price)
        /\ books'.paid = books.paid
    BY <2>1 DEF Types
  <2> QED
    BY <1>0, <2>2, <2>3, <2>4 DEF Books!Earn
<1>4. ASSUME NEW approve_all \in BOOLEAN, NEW slippage \in Slippages,
             ExecuteOrders(approve_all, slippage)
      PROVE  Books!Pay
  <2> DEFINE c == CostOf(Done(approve_all), slippage)
  <2>1. c \in Nat /\ books' = [books EXCEPT !.paid = @ + c]
    BY <1>4, ExecuteFacts
  <2>2. NAV' = NAV - c
    BY <1>4, ExecuteNAV
  <2> HIDE DEF c
  <2>3. books'.earned = books.earned /\ books'.paid = books.paid + c
    BY <2>1 DEF Types
  <2> QED
    BY <1>0, <2>1, <2>2, <2>3 DEF Books!Pay
<1>5. CASE UNCHANGED vars
  BY <1>5 DEF vars, Books!accountVars, NAV
<1> QED
  BY <1>1, <1>2, <1>3, <1>4, <1>5 DEF Next, Books!Next

LEMMA AccountInit == Init => Books!Init
<1> SUFFICES ASSUME Init PROVE Books!Init
  OBVIOUS
<1>1. price \in [Symbols -> Nat]
  BY Broker DEF Init
<1>2. [s \in Symbols |-> positions[s] * price[s]] = [s \in Symbols |-> 0]
  BY <1>1 DEF Init
<1>3. ValueAt(positions, price) = 0
  BY <1>2, ZeroTotal DEF ValueAt
<1> QED
  BY <1>3, Broker DEF Init, NAV, Books!Init

\* The broker implements the account: orders conserve money, but for their costs.
THEOREM BrokerImplementsAccount ==
  ASSUME ~Resubmits
  PROVE  DeskSpec => AccountHonoured
<1>1. Types /\ Held /\ [Next]_vars => [Books!Next]_Books!accountVars
  BY AccountStep
<1> QED
  BY <1>1, AccountInit, HeldInvariant, DeskImplementsBroker, PTL
     DEF Spec, AccountHonoured, Books!Spec

-----------------------------------------------------------------------------
(* The report and the plan *)

\* What the report calls a trade is beyond the plan's threshold.
LEMMA TradesDeviate ==
  ASSUME NAV \in Int, NAV > 0, NEW d \in Int, Trades(Size(d))
  PROVE  Deviates(d)
<1> DEFINE x == Size(d) * WHOLE
           n == NAV
<1>1. x \in Int /\ n \in Int /\ n > 0
  BY Whole DEF Size
<1>2. x >= MIN_TRADE * n
  BY DEF Trades
<1>3. Deviates(d) <=> x > THRESHOLD * n
  BY DEF Deviates
<1> HIDE DEF x, n
<1> QED
  BY <1>1, <1>2, <1>3 DEF MIN_TRADE, THRESHOLD

\* A deviation worth a trade, of a quoted symbol and no smaller than a lot and the
\* least order, is ordered.
LEMMA DeviatingOrdered ==
  ASSUME Types, NAV > 0, NEW weights \in [Symbols -> 0..WHOLE], NEW s \in Symbols,
         Lot[s] > 0, price[s] > 0, Deviates(Deviation(weights, s)),
         Size(Deviation(weights, s)) >= Greatest(MinNotional, Lot[s] * price[s])
  PROVE  Quantity(weights, s) # 0
<1> DEFINE d == Deviation(weights, s)
           m == Lot[s] * price[s]
<1>1. d \in Int /\ m \in Int /\ MinNotional \in Nat /\ NAV \in Int
  <2>1. d \in Int
    BY DeviationRange
  <2>2. NAV \in Int /\ price[s] \in Nat
    BY NAVType
  <2>3. MinNotional \in Nat /\ Lot[s] \in Nat
    BY Broker
  <2>4. m \in Int
    BY <2>2, <2>3
  <2> QED
    BY <2>1, <2>2, <2>3, <2>4
<1>2. Size(d) >= MinNotional /\ Size(d) >= m
  <2> HIDE DEF d, m
  <2>1. Size(d) >= Greatest(MinNotional, m)
    BY DEF d, m
  <2> QED
    BY <1>1, <2>1 DEF Greatest, Size
<1>3. CASE d < 0
  <2> DEFINE x == SellQuantity(weights, s)
  <2>1. Quantity(weights, s) = -x
    BY <1>1, <1>3 DEF Quantity, Sold
  <2>2. -d >= m
    <3> HIDE DEF d, m
    <3> QED
      BY <1>1, <1>2, <1>3 DEF Size
  <2>3. x \in Nat /\ x > 0
    BY <1>3, <2>2, SellFacts
  <2> HIDE DEF x
  <2> QED
    BY <2>1, <2>3
<1>4. CASE d > 0
  <2> DEFINE x == BuyQuantity(weights, s)
  <2>1. Quantity(weights, s) = x
    <3>1. s \notin Sold(weights)
      BY <1>1, <1>4 DEF Sold
    <3> QED
      BY <1>1, <3>1 DEF Quantity
  <2>2. d >= m /\ d >= MinNotional
    <3> HIDE DEF d, m
    <3> QED
      BY <1>1, <1>2, <1>4 DEF Size
  <2>3. x \in Nat /\ x > 0
    BY <1>4, <2>2, BuyFacts
  <2> HIDE DEF x
  <2> QED
    BY <2>1, <2>3
<1>5. CASE d = 0
  <2>1. Deviates(0)
    BY <1>5
  <2> QED
    BY <1>1, <2>1, Whole DEF Deviates, Size, THRESHOLD
<1> QED
  BY <1>1, <1>3, <1>4, <1>5

\* Orders against advice, advice without orders, orders without advice.
LEMMA AdviceFacts ==
  ASSUME Types, NAV > 0, NEW weights \in [Symbols -> 0..WHOLE], NEW s \in Symbols, Lot[s] > 0
  PROVE  LET quantity == Quantity(weights, s)
             gap == Deviation(weights, s)
         IN /\ quantity > 0 => Action(gap) # "sell"
            /\ quantity < 0 => Action(gap) # "buy"
            /\ (/\ Action(gap) # "hold" /\ price[s] > 0
                /\ Size(gap) >= Greatest(MinNotional, Lot[s] * price[s])) => quantity # 0
            /\ Action(gap) = "hold" => ~Trades(Size(quantity) * price[s])
<1> DEFINE q == Quantity(weights, s)
           d == Deviation(weights, s)
           p == price[s]
<1>1. /\ q \in Int
      /\ q > 0 => d > 0 /\ q * p <= d
      /\ q < 0 => d < 0 /\ (-q) * p <= -d
  BY QuantityFacts
<1>2. d \in Int /\ p \in Nat /\ NAV \in Int
  BY DeviationRange, NAVType
<1>3. Action(d) # "hold" => Trades(Size(d))
  BY DEF Action
<1>4. (Action(d) = "buy" => d > 0) /\ (Action(d) = "sell" => ~(d > 0))
  BY DEF Action
<1>5. Action(d) # "hold" /\ p > 0 /\ Size(d) >= Greatest(MinNotional, Lot[s] * p) => q # 0
  BY <1>2, <1>3, TradesDeviate, DeviatingOrdered
<1>6. Action(d) = "hold" => ~Trades(Size(d))
  BY DEF Action
<1> HIDE DEF q, d, p
<1>7. Size(q) * p <= Size(d) /\ Size(q) * p \in Int /\ Size(d) \in Int
  <2>1. CASE q > 0
    BY <1>1, <1>2, <2>1 DEF Size
  <2>2. CASE q < 0
    BY <1>1, <1>2, <2>2 DEF Size
  <2>3. CASE q = 0
    <3>1. 0 * p = 0
      BY <1>2
    <3> QED
      BY <1>2, <2>3, <3>1 DEF Size
  <2> QED
    BY <1>1, <2>1, <2>2, <2>3
<1>8. Trades(Size(q) * p) => Trades(Size(d))
  <2> DEFINE k == MIN_TRADE * NAV
             a == Size(q) * p
             b == Size(d)
  <2>1. k \in Int /\ a \in Int /\ b \in Int /\ a <= b
    BY <1>2, <1>7 DEF MIN_TRADE
  <2>2. (Trades(a) <=> a * WHOLE >= k) /\ (Trades(b) <=> b * WHOLE >= k)
    BY DEF Trades
  <2> HIDE DEF k, a, b
  <2>3. Trades(a) => Trades(b)
    BY <2>1, <2>2 DEF WHOLE
  <2> QED
    BY <2>3 DEF a, b
<1>9. /\ q > 0 => Action(d) # "sell"
      /\ q < 0 => Action(d) # "buy"
      /\ Action(d) = "hold" => ~Trades(Size(q) * p)
  BY <1>1, <1>2, <1>4, <1>6, <1>8
<1> QED
  BY <1>5, <1>9 DEF q, d, p

\* The report and the plan never contradict each other, though two pieces of code
\* with two thresholds make them.  Without a lot size nothing at all is ordered.
THEOREM AdviceFollowed ==
  ASSUME \A s \in Symbols : Lot[s] > 0
  PROVE  DeskSpec => OrdersFollowAdvice
<1> DEFINE Follows(s) ==
             LET quantity == orders'[s].quantity
                 action == report'.advice[s].action
                 gap == Size(Deviation(target', s))
             IN /\ quantity > 0 => action # "sell"
                /\ quantity < 0 => action # "buy"
                /\ (/\ action # "hold" /\ price[s] > 0
                    /\ gap >= Greatest(MinNotional, Lot[s] * price[s])) => quantity # 0
                /\ action = "hold" => ~Trades(Size(quantity) * price[s])
<1>1. ASSUME Types, [DeskNext]_deskVars, round' # round, NAV > 0, NEW s \in Symbols
      PROVE  Follows(s)
  <2>1. PICK weights \in Targets, named \in SUBSET Symbols : Instruct(weights, named)
    <3>1. NAV \in Int
      BY <1>1, NAVType
    <3>2. round \in Int
      BY <1>1 DEF Types
    <3>3. \A weights \in Targets : ~InstructBroke(weights)
      BY <1>1, <3>1 DEF InstructBroke
    <3>4. \A weights \in Targets : {t \in Symbols : weights[t] > 0} \in SUBSET Symbols
      OBVIOUS
    <3>5. \E weights \in Targets : \E named \in {Symbols, {t \in Symbols : weights[t] > 0}} :
             Instruct(weights, named)
      BY <1>1, <3>3 DEF DeskNext, deskVars, vars, desk, Approve, MovePrices, Execute,
                        ExecuteOrders, Review
    <3> QED
      BY <3>4, <3>5
  <2>2. /\ orders'[s].quantity = Quantity(weights, s)
        /\ report'.advice[s].action = Action(Deviation(weights, s))
        /\ target' = weights
    BY <2>1 DEF Instruct, PlanOrders, Planned, Decision
  <2>3. weights \in [Symbols -> 0..WHOLE]
    BY TargetRange
  <2> QED
    BY <1>1, <2>2, <2>3, AdviceFacts, Zenon
<1>2. Types /\ [DeskNext]_deskVars =>
        [(round' # round /\ NAV > 0) => \A s \in Symbols : Follows(s)]_deskVars
  BY <1>1
<1> QED
  BY <1>2, TypesInvariant, DeskImplementsBroker, PTL DEF DeskSpec, OrdersFollowAdvice

-----------------------------------------------------------------------------
(* Debt *)

\* A multiple of a function totals the multiple of its total.
LEMMA TotalScale ==
  ASSUME NEW f \in [Symbols -> Int], NEW h \in [Symbols -> Int], NEW a \in Int,
         \A s \in Symbols : h[s] = a * f[s]
  PROVE  Total(h) = a * Total(f) /\ Total(f) \in Int
<1> DEFINE zero == [s \in Symbols |-> 0]
<1>1. zero \in [Symbols -> Int] /\ Symbols \in SUBSET Symbols
  OBVIOUS
<1>2. \A s \in Symbols : h[s] = a * f[s] + zero[s]
  <2>1. \A s \in Symbols : a * f[s] \in Int
    OBVIOUS
  <2> QED
    BY <2>1
<1>3. Total(zero) = 0
  BY ZeroTotal
<1> HIDE DEF zero
<1>4. Total(h) = a * Total(f) + Total(zero)
  BY <1>1, <1>2, TotalLinear
<1>5. Total(f) \in Int
  BY <1>1, TotalType
<1>6. a * Total(f) \in Int
  BY <1>5
<1> QED
  BY <1>3, <1>4, <1>5, <1>6

\* What a target invests, each part rounded down, is the NAV at most.
LEMMA InvestedRange ==
  ASSUME NAV \in Nat, NEW weights \in [Symbols -> 0..WHOLE], Total(weights) <= WHOLE
  PROVE  LET part == [s \in Symbols |-> (weights[s] * NAV) \div WHOLE]
         IN part \in [Symbols -> Nat] /\ Total(part) \in Nat /\ Total(part) <= NAV
<1> DEFINE part == [s \in Symbols |-> (weights[s] * NAV) \div WHOLE]
           scaled == [s \in Symbols |-> WHOLE * part[s]]
           due == [s \in Symbols |-> NAV * weights[s]]
<1>1. ASSUME NEW s \in Symbols
      PROVE  part[s] \in Nat /\ scaled[s] = WHOLE * part[s] /\ scaled[s] <= due[s]
  <2> DEFINE x == weights[s] * NAV
  <2>1. weights[s] \in Nat
    BY Whole
  <2>2. x \in Int /\ 0 * WHOLE <= x /\ 0 \in Int /\ x = due[s]
    BY <2>1, Whole
  <2> HIDE DEF x
  <2> DEFINE k == x \div WHOLE
  <2>3. k \in Int /\ 0 <= k /\ k * WHOLE <= x
    BY <2>2, Whole, DivRange, DivFloor, Zenon
  <2>4. part[s] = k
    BY DEF x
  <2> HIDE DEF k, part, due
  <2>5. WHOLE * k = k * WHOLE
    BY <2>3, Whole
  <2> QED
    BY <2>2, <2>3, <2>4, <2>5
<1>2. part \in [Symbols -> Nat] /\ part \in [Symbols -> Int]
  BY <1>1
<1>3. weights \in [Symbols -> Int] /\ due \in [Symbols -> Int] /\ scaled \in [Symbols -> Int]
  <2>1. \A s \in Symbols : weights[s] \in Nat
    BY Whole
  <2>2. \A s \in Symbols : NAV * weights[s] \in Int
    BY <2>1
  <2>3. \A s \in Symbols : WHOLE * part[s] \in Int
    <3> HIDE DEF part
    <3> QED
      BY <1>2, Whole
  <2> QED
    BY <2>1, <2>2, <2>3
<1>4. Symbols \in SUBSET Symbols /\ \A s \in Symbols : due[s] = NAV * weights[s]
  OBVIOUS
<1> HIDE DEF part, scaled, due
<1>5. Total(part) \in Nat
  BY <1>2, <1>4, TotalNat
<1>6. Total(scaled) = WHOLE * Total(part)
  BY <1>1, <1>2, <1>3, Whole, TotalScale
<1>7. Total(due) = NAV * Total(weights) /\ Total(weights) \in Int
  BY <1>3, <1>4, TotalScale
<1>8. Total(scaled) <= Total(due)
  BY <1>1, <1>3, TotalMonotone
<1>9. Total(part) <= NAV
  <2> DEFINE p == Total(part)
             w == Total(weights)
  <2>1. p \in Nat /\ w \in Int /\ w <= WHOLE /\ WHOLE * p <= NAV * w
    BY <1>5, <1>6, <1>7, <1>8
  <2> HIDE DEF p, w
  <2>2. w * NAV <= WHOLE * NAV /\ w * NAV = NAV * w /\ WHOLE * NAV \in Int /\ w * NAV \in Int
        /\ WHOLE * p \in Int
    BY <2>1, Whole, MulMono
  <2>3. WHOLE * p <= WHOLE * NAV
    BY <2>1, <2>2
  <2>4. SUFFICES ASSUME p >= NAV + 1 PROVE FALSE
    <3>1. p <= NAV
      BY <2>1, <2>4
    <3> QED
      BY <3>1 DEF p
  <2>5. (NAV + 1) * WHOLE <= p * WHOLE
    BY <2>1, <2>4, Whole, MulMono
  <2>6. (NAV + 1) * WHOLE = WHOLE * NAV + WHOLE /\ p * WHOLE = WHOLE * p
    BY <2>1, Whole
  <2> QED
    BY <2>2, <2>3, <2>5, <2>6, Whole
<1> QED
  BY <1>2, <1>5, <1>9 DEF part

\* The positions are as far off their weights as the debt is large.
LEMMA GapOfDebt ==
  ASSUME Types, NAV > 0
  PROVE  TotalGap \in Int /\ -cash <= TotalGap
<1> DEFINE part == [s \in Symbols |-> (target[s] * NAV) \div WHOLE]
           gap == [s \in Symbols |-> Gap(s)]
           size == [s \in Symbols |-> Size(Gap(s))]
           held == [s \in Symbols |-> positions[s] * price[s]]
<1>1. NAV \in Nat /\ ValueAt(positions, price) \in Nat /\ price \in [Symbols -> Nat]
  BY NAVType
<1>2. part \in [Symbols -> Nat] /\ Total(part) \in Nat /\ Total(part) <= NAV
  BY <1>1, InvestedRange, Zenon DEF Types
<1>3. held \in [Symbols -> Int] /\ ValueAt(positions, price) = Total(held)
  BY <1>1 DEF Types, ValueAt
<1>4. ASSUME NEW s \in Symbols
      PROVE  gap[s] \in Int /\ held[s] = gap[s] + part[s] /\ size[s] \in Int /\ gap[s] <= size[s]
  <2>1. gap[s] = held[s] - part[s]
    BY DEF Gap
  <2>2. held[s] \in Int /\ part[s] \in Int
    BY <1>2, <1>3
  <2>3. size[s] = Size(gap[s])
    OBVIOUS
  <2> HIDE DEF gap, held, part, size
  <2> QED
    BY <2>1, <2>2, <2>3 DEF Size
<1>5. /\ gap \in [Symbols -> Int] /\ size \in [Symbols -> Int]
      /\ part \in [Symbols -> Int] /\ Symbols \in SUBSET Symbols
  BY <1>2, <1>4
<1>6. TotalGap = Total(size)
  BY DEF TotalGap
<1> HIDE DEF part, gap, size, held
<1>7. Total(held) = Total(gap) + Total(part)
  BY <1>3, <1>4, <1>5, TotalAdd
<1>8. Total(gap) <= Total(size)
  BY <1>4, <1>5, TotalMonotone
<1>9. Total(size) \in Int /\ Total(gap) \in Int
  BY <1>5, TotalType
<1>10. NAV = cash + Total(held)
  BY <1>3 DEF NAV
<1> QED
  BY <1>1, <1>2, <1>3, <1>6, <1>7, <1>8, <1>9, <1>10 DEF Types

\* No debt escapes a review, though reconciliation never looks at the cash: a target
\* invests the NAV at most, so whatever is held beyond it is off its weight.
THEOREM DebtAlarmed == DeskSpec => DebtRaisesAlarm
<1>1. ASSUME Types, Review, NAV > 0, Beyond(-cash, TOTAL_LIMIT + 1)
      PROVE  Alert("critical", "total", Symbols) \in alerts'
  <2>1. TotalGap \in Int /\ -cash <= TotalGap /\ NAV \in Nat /\ cash \in Int
    BY <1>1, GapOfDebt, NAVType DEF Types
  <2> DEFINE a == TOTAL_LIMIT * NAV
             b == (TOTAL_LIMIT + 1) * NAV
  <2>2. a \in Int /\ b \in Int /\ a <= b
    BY <2>1 DEF TOTAL_LIMIT
  <2>3. -cash > b \div WHOLE
    BY <1>1 DEF Beyond
  <2> HIDE DEF a, b
  <2> DEFINE k == a \div WHOLE
             m == b \div WHOLE
  <2>4. k \in Int /\ m \in Int /\ k * WHOLE <= a
    BY <2>2, Whole, DivRange, Zenon
  <2>5. k <= m
    <3> HIDE DEF k
    <3>1. k * WHOLE \in Int
      BY <2>4, Whole
    <3>2. k * WHOLE <= b
      BY <2>2, <2>4, <3>1
    <3> QED
      BY <2>2, <2>4, <3>2, Whole, DivFloor, Zenon
  <2>6. TotalGap > k
    <3>1. -cash > m
      BY <2>3
    <3> HIDE DEF k, m
    <3> QED
      BY <2>1, <2>4, <2>5, <3>1
  <2>7. Beyond(TotalGap, TOTAL_LIMIT)
    BY <2>6 DEF Beyond, a
  <2> QED
    BY <1>1, <2>7 DEF Review, PositionAlerts, Off
<1>2. Types /\ [DeskNext]_deskVars =>
        [(Review /\ NAV > 0 /\ Beyond(-cash, TOTAL_LIMIT + 1)) =>
           Alert("critical", "total", Symbols) \in alerts']_deskVars
  BY <1>1
<1> QED
  BY <1>2, TypesInvariant, DeskImplementsBroker, PTL DEF DeskSpec, DebtRaisesAlarm

-----------------------------------------------------------------------------
(* Rounding and costs *)

\* Slippage and commission of a fill are 0.4% of it at most: the defaults are 0.05%
\* and 0.03%, and volatility may scale the slippage.
Cheap ==
  \A slippage \in Slippages :
    (slippage + CommissionBps) * WHOLE + slippage * CommissionBps <= 2 * THRESHOLD * WHOLE

\* What a plan may miss the weight of a symbol by.
Slack(s, quotes, nav) == Greatest((THRESHOLD * nav) \div WHOLE, Lot[s] * quotes[s]) + 1
Slacks(quotes) ==
  Total([s \in Symbols |-> Slack(s, quotes, cash + ValueAt(positions, quotes))])

\* The most a fill may cost, times WHOLE.
Fee(s, quotes) == Size(orders[s].quantity) * quotes[s] * 2 * THRESHOLD

LEMMA SlackType ==
  ASSUME NEW s \in Symbols, NEW quotes \in [Symbols -> Nat], NEW nav \in Int
  PROVE  /\ Slack(s, quotes, nav) \in Int
         /\ (THRESHOLD * nav) \div WHOLE \in Int /\ Lot[s] * quotes[s] \in Nat
         /\ (THRESHOLD * nav) \div WHOLE + 1 <= Slack(s, quotes, nav)
         /\ Lot[s] * quotes[s] + 1 <= Slack(s, quotes, nav)
<1> DEFINE a == (THRESHOLD * nav) \div WHOLE
           b == Lot[s] * quotes[s]
<1>1. a \in Int
  <2>1. THRESHOLD * nav \in Int
    BY DEF THRESHOLD
  <2> QED
    BY <2>1, Whole, DivRange, Zenon
<1>2. b \in Nat
  <2>1. Lot[s] \in Nat /\ quotes[s] \in Nat
    BY Broker
  <2> QED
    BY <2>1
<1>3. Slack(s, quotes, nav) = Greatest(a, b) + 1
  BY DEF Slack
<1> HIDE DEF a, b
<1>4. /\ Slack(s, quotes, nav) \in Int
      /\ a + 1 <= Slack(s, quotes, nav) /\ b + 1 <= Slack(s, quotes, nav)
  BY <1>1, <1>2, <1>3 DEF Greatest
<1> QED
  BY <1>1, <1>2, <1>4 DEF a, b

LEMMA FeeType ==
  ASSUME Types, NEW s \in Symbols, NEW quotes \in [Symbols -> Nat]
  PROVE  Fee(s, quotes) \in Nat
<1> DEFINE g == Size(orders[s].quantity) * quotes[s]
<1>1. orders[s].quantity \in Int /\ quotes[s] \in Nat
  BY DEF Types
<1>2. Size(orders[s].quantity) \in Nat
  BY <1>1 DEF Size
<1>3. g \in Nat
  BY <1>1, <1>2
<1>4. Fee(s, quotes) = g * 2 * THRESHOLD
  BY DEF Fee
<1> HIDE DEF g
<1> QED
  BY <1>3, <1>4 DEF THRESHOLD

\* Slippage and commission of a fill, together, are within a rate.
Within(slippage, rate) ==
  (slippage + CommissionBps) * WHOLE + slippage * CommissionBps <= rate * WHOLE

\* A fill costs what it is worth at that rate, at most.
LEMMA CostRate ==
  ASSUME NEW fee \in Nat, NEW slippage \in Slippages, Within(slippage, fee),
         NEW quantity \in Int, NEW quote \in Nat
  PROVE  Costs(quantity, quote, slippage) * WHOLE <= Size(quantity) * quote * fee
<1> DEFINE gross == Size(quantity) * quote
           slipped == (gross * slippage) \div WHOLE
           filledAt == IF quantity > 0 THEN gross + slipped ELSE gross - slipped
           charged == (filledAt * CommissionBps) \div WHOLE
           K == CommissionBps
<1>1. gross \in Nat
  BY DEF Size
<1>2. slippage \in 0..WHOLE /\ slippage \in Nat /\ K \in Nat
  <2>1. slippage \in 0..WHOLE /\ slippage \in Nat
    <3>1. slippage \in 0..WHOLE
      BY Broker, SMTT(30) DEF WHOLE
    <3> QED
      BY <3>1, Whole
  <2>2. K \in Nat
    BY Broker
  <2> QED
    BY <2>1, <2>2
<1>3. slipped \in Nat /\ slipped <= gross /\ slipped * WHOLE <= gross * slippage
  <2> HIDE DEF gross
  <2>1. slipped \in Nat /\ slipped <= gross
    BY <1>1, <1>2, PartRange, Zenon
  <2>2. gross * slippage \in Int
    BY <1>1, <1>2
  <2>3. slipped * WHOLE <= gross * slippage
    BY <2>2, Whole, DivRange, Zenon
  <2> QED
    BY <2>1, <2>3
<1>4. filledAt \in Nat /\ filledAt <= gross + slipped
  <2> HIDE DEF gross, slipped
  <2> QED
    BY <1>1, <1>3
<1>5. charged \in Int /\ charged * WHOLE <= filledAt * K
  <2> HIDE DEF filledAt
  <2>1. filledAt * K \in Int
    BY <1>2, <1>4
  <2> QED
    BY <2>1, Whole, DivRange, Zenon
<1>6. Costs(quantity, quote, slippage) = slipped + charged
  BY DEF Costs
<1>7. (slippage + K) * WHOLE + slippage * K <= fee * WHOLE
  BY DEF Within
<1>8. gross * fee = Size(quantity) * quote * fee
  OBVIOUS
<1> HIDE DEF gross, slipped, filledAt, charged, K
<1>9. charged * WHOLE <= gross * K + slipped * K
  <2>1. filledAt * K <= (gross + slipped) * K /\ filledAt * K \in Int
    BY <1>1, <1>2, <1>3, <1>4, MulMono
  <2>2. (gross + slipped) * K = gross * K + slipped * K
    BY <1>1, <1>2, <1>3
  <2>3. charged * WHOLE \in Int /\ gross * K \in Int /\ slipped * K \in Int
    BY <1>1, <1>2, <1>3, <1>5, Whole
  <2> QED
    BY <1>5, <2>1, <2>2, <2>3
<1> DEFINE cost == slipped + charged
           sw == slipped * WHOLE
           cw == charged * WHOLE
<1>10. sw \in Int /\ cw \in Int /\ cost \in Int /\ cost * WHOLE = sw + cw
  BY <1>3, <1>5, Whole
<1>11. cost * WHOLE <= gross * slippage + gross * K + slipped * K
  <2>1. gross * slippage \in Int /\ gross * K \in Int /\ slipped * K \in Int
    BY <1>1, <1>2, <1>3
  <2>2. sw <= gross * slippage /\ cw <= gross * K + slipped * K
    BY <1>3, <1>9
  <2> HIDE DEF sw, cw, cost
  <2> QED
    BY <1>10, <2>1, <2>2
<1> HIDE DEF cost
<1>12. (slipped * K) * WHOLE <= (gross * slippage) * K
  <2>1. sw * K <= (gross * slippage) * K
    <3>1. gross * slippage \in Int /\ sw <= gross * slippage
      BY <1>1, <1>2, <1>3
    <3> HIDE DEF sw
    <3> QED
      BY <1>2, <1>10, <3>1, MulMono
  <2>2. sw * K = (slipped * K) * WHOLE
    BY <1>2, <1>3, Whole
  <2> QED
    BY <2>1, <2>2
<1>13. (cost * WHOLE) * WHOLE <= gross * ((slippage + K) * WHOLE + slippage * K)
  <2> DEFINE x == gross * slippage + gross * K
             y == slipped * K
  <2>1. x \in Int /\ y \in Int /\ cost * WHOLE \in Int
    BY <1>1, <1>2, <1>3, <1>10, Whole
  <2>2. (cost * WHOLE) * WHOLE <= (x + y) * WHOLE
    <3>1. cost * WHOLE <= x + y
      BY <1>11
    <3> HIDE DEF x, y
    <3> QED
      BY <2>1, <3>1, Whole, MulMono
  <2>3. (x + y) * WHOLE = x * WHOLE + y * WHOLE
    <3> HIDE DEF x, y
    <3> QED
      BY <2>1, Whole
  <2>4. x * WHOLE + (gross * slippage) * K = gross * ((slippage + K) * WHOLE + slippage * K)
    BY <1>1, <1>2, Whole
  <2>5. y * WHOLE <= (gross * slippage) * K
    BY <1>12
  <2>6. x * WHOLE \in Int /\ y * WHOLE \in Int /\ (gross * slippage) * K \in Int
        /\ (cost * WHOLE) * WHOLE \in Int
    <3>1. (gross * slippage) * K \in Int
      BY <1>1, <1>2
    <3> HIDE DEF x, y
    <3> QED
      BY <2>1, <3>1, Whole
  <2> HIDE DEF x, y
  <2> QED
    BY <2>2, <2>3, <2>4, <2>5, <2>6
<1>14. gross * ((slippage + K) * WHOLE + slippage * K) <= (gross * fee) * WHOLE
  <2> DEFINE r == (slippage + K) * WHOLE + slippage * K
             f == fee * WHOLE
  <2>1. r \in Int /\ f \in Int /\ r <= f
    BY <1>2, <1>7, Whole
  <2>2. f * gross = (gross * fee) * WHOLE
    BY <1>1, <1>2, Whole
  <2> HIDE DEF r, f
  <2>3. r * gross <= f * gross
    BY <1>1, <2>1, MulMono
  <2>4. r * gross = gross * r
    BY <1>1, <2>1
  <2>5. gross * r <= (gross * fee) * WHOLE
    BY <2>2, <2>3, <2>4
  <2> QED
    BY <2>5 DEF r
<1>15. cost * WHOLE <= gross * fee
  <2> DEFINE x == cost * WHOLE
             y == gross * fee
             z == gross * ((slippage + K) * WHOLE + slippage * K)
  <2>1. x \in Int /\ y \in Int /\ z \in Int
    BY <1>1, <1>2, <1>10, Whole
  <2>2. x * WHOLE <= z /\ z <= y * WHOLE
    BY <1>13, <1>14
  <2> HIDE DEF x, y, z
  <2>3. x * WHOLE \in Int /\ y * WHOLE \in Int /\ x * WHOLE <= y * WHOLE
    BY <2>1, <2>2, Whole
  <2>4. SUFFICES ASSUME y + 1 <= x PROVE FALSE
    <3>1. x <= y
      BY <2>1, <2>4
    <3> QED
      BY <3>1 DEF x, y
  <2>5. (y + 1) * WHOLE <= x * WHOLE
    BY <2>1, <2>4, Whole, MulMono
  <2>6. (y + 1) * WHOLE = y * WHOLE + WHOLE
    BY <2>1, Whole
  <2> QED
    BY <2>3, <2>5, <2>6, Whole
<1> QED
  BY <1>6, <1>8, <1>15 DEF cost

\* A fill costs its fee at most.
LEMMA CostBound ==
  ASSUME Cheap, NEW quantity \in Int, NEW quote \in Nat, NEW slippage \in Slippages
  PROVE  Costs(quantity, quote, slippage) * WHOLE <= Size(quantity) * quote * 2 * THRESHOLD
<1> DEFINE gross == Size(quantity) * quote
           fee == 2 * THRESHOLD
<1>1. gross \in Nat
  BY DEF Size
<1>2. fee \in Nat /\ Within(slippage, fee)
  BY DEF THRESHOLD, Cheap, Within
<1>3. Costs(quantity, quote, slippage) * WHOLE <= gross * fee
  <2> HIDE DEF fee
  <2> QED
    BY <1>2, CostRate
<1>4. gross * fee = gross * 2 * THRESHOLD
  <2> HIDE DEF gross
  <2> QED
    BY <1>1 DEF THRESHOLD
<1> QED
  BY <1>3, <1>4

\* An order brings its symbol to its weight, but for the slack.
LEMMA QuantitySlack ==
  ASSUME Types, NAV > 0, NEW weights \in [Symbols -> 0..WHOLE], NEW s \in Symbols, Lot[s] > 0
  PROVE  Quantity(weights, s) * price[s] <= Deviation(weights, s) + Slack(s, price, NAV)
<1> DEFINE d == Deviation(weights, s)
           q == Quantity(weights, s)
           p == price[s]
           k == (THRESHOLD * NAV) \div WHOLE
           m == Lot[s] * p
           slack == Slack(s, price, NAV)
<1>1. NAV \in Int /\ p \in Nat /\ price \in [Symbols -> Nat] /\ d \in Int
  BY NAVType, DeviationRange
<1>2. slack \in Int /\ k \in Int /\ m \in Nat /\ k + 1 <= slack /\ m + 1 <= slack
  BY <1>1, SlackType
<1>3. /\ q \in Int
      /\ q > 0 => d > 0 /\ q * p <= d
      /\ q < 0 => d < 0 /\ (-q) * p <= -d
  BY QuantityFacts
<1>4. CASE d >= 0
  <2> HIDE DEF d, q, p, m, slack
  <2>1. q * p <= d
    <3>1. CASE q > 0
      BY <1>3, <3>1
    <3>2. CASE q = 0
      <4>1. 0 * p = 0
        BY <1>1
      <4> QED
        BY <1>4, <3>2, <4>1
    <3>3. ~(q < 0)
      BY <1>1, <1>3, <1>4
    <3> QED
      BY <1>3, <3>1, <3>2, <3>3
  <2>2. q * p \in Int /\ slack >= 0
    BY <1>1, <1>2, <1>3
  <2>3. q * p <= d + slack
    BY <1>1, <1>2, <2>1, <2>2
  <2> QED
    BY <2>3 DEF d, q, p, slack
<1>5. CASE d < 0 /\ Deviates(d)
  <2> DEFINE x == SellQuantity(weights, s)
  <2>1. q = -x
    BY <1>1, <1>5 DEF Quantity, Sold
  <2>2. x \in Nat /\ -d <= (x + Lot[s]) * p
    BY <1>5, SellFacts
  <2>3. (x + Lot[s]) * p = x * p + m /\ (-x) * p = -(x * p) /\ x * p \in Int
    <3>1. Lot[s] \in Nat
      BY Broker
    <3> HIDE DEF x, p
    <3> QED
      BY <1>1, <2>2, <3>1
  <2> HIDE DEF x, d, q, p, m, slack
  <2>4. -(x * p) <= d + m
    BY <1>1, <1>2, <2>2, <2>3
  <2>5. q * p = -(x * p)
    BY <2>1, <2>3
  <2>6. q * p <= d + slack
    BY <1>1, <1>2, <2>3, <2>4, <2>5
  <2> QED
    BY <2>6 DEF d, q, p, slack
<1>6. CASE d < 0 /\ ~Deviates(d)
  <2>1. q = 0
    BY <1>1, <1>6 DEF Quantity, Sold
  <2> DEFINE y == THRESHOLD * NAV
  <2>2. y \in Int
    BY <1>1 DEF THRESHOLD
  <2>3. ~(Size(d) * WHOLE > y)
    BY <1>6 DEF Deviates
  <2>4. Size(d) = -d
    BY <1>6 DEF Size
  <2> HIDE DEF d, y, slack
  <2>5. -d \in Int /\ (-d) * WHOLE <= y
    BY <1>1, <2>2, <2>3, <2>4, Whole
  <2>6. -d <= y \div WHOLE
    BY <2>2, <2>5, Whole, DivFloor, Zenon
  <2>7. -d <= k
    BY <2>6 DEF y
  <2>8. 0 * p = 0
    BY <1>1
  <2> HIDE DEF k, p, q
  <2>9. 0 <= d + slack
    BY <1>1, <1>2, <2>7
  <2>10. q * p <= d + slack
    BY <2>1, <2>8, <2>9
  <2> QED
    BY <2>10 DEF d, q, p, slack
<1> QED
  BY <1>1, <1>4, <1>5, <1>6

\* A plan spends what the cash and the slack allow.
LEMMA PlanFunded ==
  ASSUME Types, NAV > 0, NEW weights \in [Symbols -> 0..WHOLE], Total(weights) <= WHOLE,
         \A s \in Symbols : Lot[s] > 0
  PROVE  Total([s \in Symbols |-> Quantity(weights, s) * price[s]]) <= cash + Slacks(price)
<1> DEFINE spent == [s \in Symbols |-> Quantity(weights, s) * price[s]]
           slack == [s \in Symbols |-> Slack(s, price, NAV)]
           dev == [s \in Symbols |-> Deviation(weights, s)]
           both == [s \in Symbols |-> Deviation(weights, s) + Slack(s, price, NAV)]
           part == [s \in Symbols |-> (weights[s] * NAV) \div WHOLE]
           held == [s \in Symbols |-> positions[s] * price[s]]
<1>1. NAV \in Nat /\ price \in [Symbols -> Nat] /\ cash \in Int
  BY NAVType DEF Types
<1>2. part \in [Symbols -> Nat] /\ Total(part) \in Nat /\ Total(part) <= NAV
  BY <1>1, InvestedRange, Zenon
<1>3. held \in [Symbols -> Int] /\ NAV = cash + Total(held)
  BY <1>1 DEF Types, NAV, ValueAt
<1>4. ASSUME NEW s \in Symbols
      PROVE  /\ spent[s] \in Int /\ slack[s] \in Int /\ dev[s] \in Int /\ both[s] \in Int
             /\ both[s] = dev[s] + slack[s] /\ spent[s] <= both[s]
             /\ part[s] = dev[s] + held[s]
  <2>1. Quantity(weights, s) \in Int /\ price[s] \in Nat
    BY <1>1, QuantityFacts
  <2>2. dev[s] \in Int /\ slack[s] \in Int
    BY <1>1, DeviationRange, SlackType
  <2>3. spent[s] <= both[s]
    BY QuantitySlack
  <2>4. dev[s] = part[s] - held[s]
    BY DEF Deviation
  <2>5. spent[s] \in Int
    BY <2>1
  <2>6. both[s] = dev[s] + slack[s]
    OBVIOUS
  <2>7. part[s] \in Int /\ held[s] \in Int
    BY <1>2, <1>3
  <2> HIDE DEF spent, slack, dev, both, part, held
  <2> QED
    BY <2>2, <2>3, <2>4, <2>5, <2>6, <2>7
<1>5. /\ spent \in [Symbols -> Int] /\ slack \in [Symbols -> Int] /\ dev \in [Symbols -> Int]
      /\ both \in [Symbols -> Int] /\ part \in [Symbols -> Int] /\ Symbols \in SUBSET Symbols
  BY <1>2, <1>4
<1>6. Slacks(price) = Total(slack)
  BY DEF Slacks, NAV
<1> HIDE DEF spent, slack, dev, both, part, held
<1>7. Total(spent) <= Total(both)
  BY <1>4, <1>5, TotalMonotone
<1>8. Total(both) = Total(dev) + Total(slack)
  BY <1>4, <1>5, TotalAdd
<1>9. Total(part) = Total(dev) + Total(held)
  BY <1>3, <1>4, <1>5, TotalAdd
<1>10. Total(spent) \in Int /\ Total(dev) \in Int /\ Total(slack) \in Int /\ Total(held) \in Int
  BY <1>3, <1>5, TotalType
<1>11. Total(spent) <= cash + Slacks(price)
  BY <1>1, <1>2, <1>3, <1>6, <1>7, <1>8, <1>9, <1>10
<1> QED
  BY <1>11 DEF spent

FeesOf(S, quotes) == Total([s \in S |-> Fee(s, quotes)])

LEMMA FeesType ==
  ASSUME Types, NEW S \in SUBSET Symbols, NEW quotes \in [Symbols -> Nat]
  PROVE  /\ FeesOf(S, quotes) \in Nat
         /\ FeesOf(S, quotes) = Total([s \in Symbols |-> IF s \in S THEN Fee(s, quotes) ELSE 0])
<1> DEFINE f == [s \in S |-> Fee(s, quotes)]
           g == [s \in Symbols |-> IF s \in S THEN Fee(s, quotes) ELSE 0]
<1>1. \A s \in Symbols : Fee(s, quotes) \in Nat
  BY FeeType
<1>2. f \in [S -> Nat] /\ f \in [S -> Int] /\ g \in [Symbols -> Int]
  BY <1>1
<1>3. \A s \in Symbols : g[s] = IF s \in S THEN f[s] ELSE 0
  OBVIOUS
<1>4. FeesOf(S, quotes) = Total(f)
  BY DEF FeesOf
<1> HIDE DEF f, g
<1>5. Total(f) \in Nat
  BY <1>2, TotalNat
<1>6. Total(g) = Total(f)
  BY <1>2, <1>3, TotalRestrict
<1> QED
  BY <1>4, <1>5, <1>6 DEF g

\* The fees of orders taken together.
LEMMA FeesAdd ==
  ASSUME Types, NEW S \in SUBSET Symbols, NEW T \in SUBSET Symbols, S \cap T = {},
         NEW quotes \in [Symbols -> Nat]
  PROVE  FeesOf(S \cup T, quotes) = FeesOf(S, quotes) + FeesOf(T, quotes)
<1> DEFINE On(U) == [s \in Symbols |-> IF s \in U THEN Fee(s, quotes) ELSE 0]
           f == On(S)
           g == On(T)
           h == On(S \cup T)
<1>1. \A s \in Symbols : Fee(s, quotes) \in Nat
  BY FeeType
<1>2. f \in [Symbols -> Int] /\ g \in [Symbols -> Int] /\ h \in [Symbols -> Int]
  BY <1>1
<1>3. \A s \in Symbols : h[s] = f[s] + g[s]
  BY <1>1
<1>4. /\ FeesOf(S, quotes) = Total(f) /\ FeesOf(T, quotes) = Total(g)
      /\ FeesOf(S \cup T, quotes) = Total(h)
  BY FeesType
<1> HIDE DEF f, g, h
<1>5. Total(h) = Total(f) + Total(g)
  BY <1>2, <1>3, TotalAdd
<1> QED
  BY <1>4, <1>5

LEMMA FeesGrow ==
  ASSUME Types, NEW S \in SUBSET Symbols, NEW T \in SUBSET S, NEW quotes \in [Symbols -> Nat]
  PROVE  FeesOf(T, quotes) <= FeesOf(S, quotes)
<1>1. S = T \cup (S \ T) /\ T \cap (S \ T) = {} /\ T \in SUBSET Symbols /\ S \ T \in SUBSET Symbols
  OBVIOUS
<1>2. FeesOf(S, quotes) = FeesOf(T, quotes) + FeesOf(S \ T, quotes)
  BY <1>1, FeesAdd
<1>3. FeesOf(T, quotes) \in Nat /\ FeesOf(S \ T, quotes) \in Nat
  BY <1>1, FeesType
<1> QED
  BY <1>2, <1>3

\* Fills at the quotes cost their fees at most.
LEMMA CostTotal ==
  ASSUME Types, Cheap, NEW slippage \in Slippages, NEW D \in SUBSET Symbols,
         NEW quotes \in [Symbols -> Nat], \A s \in D : price[s] = quotes[s]
  PROVE  CostOf(D, slippage) \in Nat /\ WHOLE * CostOf(D, slippage) <= FeesOf(D, quotes)
<1> DEFINE c == [s \in D |-> Costs(orders[s].quantity, price[s], slippage)]
           k == [s \in Symbols |->
                   IF s \in D THEN Costs(orders[s].quantity, price[s], slippage) ELSE 0]
           wk == [s \in Symbols |-> WHOLE * k[s]]
           f == [s \in Symbols |-> IF s \in D THEN Fee(s, quotes) ELSE 0]
<1>0. \A s \in Symbols : orders[s].quantity \in Int /\ price[s] \in Nat
  BY NAVType DEF Types
<1>1. \A s \in Symbols : Costs(orders[s].quantity, price[s], slippage) \in Nat
  BY <1>0, CostsNat
<1>2. /\ c \in [D -> Nat] /\ c \in [D -> Int] /\ k \in [Symbols -> Int]
      /\ \A s \in Symbols : k[s] = IF s \in D THEN c[s] ELSE 0
  BY <1>1
<1>3. wk \in [Symbols -> Int] /\ \A s \in Symbols : wk[s] = WHOLE * k[s]
  <2>1. \A s \in Symbols : WHOLE * k[s] \in Int
    <3> HIDE DEF k
    <3> QED
      BY <1>2, Whole
  <2> QED
    BY <2>1
<1>4. f \in [Symbols -> Int] /\ FeesOf(D, quotes) = Total(f)
  BY FeesType, FeeType
<1>5. ASSUME NEW s \in Symbols PROVE wk[s] <= f[s]
  <2>1. CASE s \in D
    <3>1. wk[s] = WHOLE * Costs(orders[s].quantity, price[s], slippage)
      BY <2>1
    <3>2. Costs(orders[s].quantity, price[s], slippage) * WHOLE
            <= Size(orders[s].quantity) * price[s] * 2 * THRESHOLD
      BY <1>0, CostBound
    <3>3. Size(orders[s].quantity) * price[s] * 2 * THRESHOLD = f[s]
      BY <2>1 DEF Fee
    <3> DEFINE x == Costs(orders[s].quantity, price[s], slippage)
    <3>4. x \in Nat
      BY <1>1
    <3> HIDE DEF x
    <3>5. WHOLE * x = x * WHOLE
      BY <3>4, Whole
    <3> QED
      BY <3>1, <3>2, <3>3, <3>5 DEF x
  <2>2. CASE s \notin D
    <3>1. wk[s] = WHOLE * 0 /\ f[s] = 0
      BY <2>2
    <3>2. WHOLE * 0 = 0
      BY Whole
    <3> QED
      BY <3>1, <3>2
  <2> QED
    BY <2>1, <2>2
<1>6. CostOf(D, slippage) = Total(c)
  BY DEF CostOf
<1> HIDE DEF c, k, wk, f
<1>7. Total(c) \in Nat
  BY <1>2, TotalNat
<1>8. Total(k) = Total(c)
  BY <1>2, TotalRestrict
<1>9. Total(wk) = WHOLE * Total(k)
  BY <1>2, <1>3, Whole, TotalScale
<1>10. Total(wk) <= Total(f)
  BY <1>3, <1>4, <1>5, TotalMonotone
<1> QED
  BY <1>4, <1>6, <1>7, <1>8, <1>9, <1>10

-----------------------------------------------------------------------------
(* What a batch overspends *)

\* The money the orders ask for, at the prices they were planned at.
Committed == Total([s \in Symbols |-> orders[s].quantity * quoted[s]])

\* Nothing is ordered without a status, and a batch of which nothing was filled yet
\* asks for no more than the cash and the slack of its plan.
Funded ==
  /\ quoted \in [Symbols -> Nat]
  /\ \A s \in Symbols : s \notin Batch => orders[s].quantity = 0
  /\ Batch # {} /\ Open = Batch => Committed <= cash + Slacks(quoted)

LEMMA FundedInit == DeskInit => Funded
<1> SUFFICES ASSUME DeskInit PROVE Funded
  OBVIOUS
<1>1. quoted \in [Symbols -> Nat]
  <2>1. quoted \in Prices
    BY DEF DeskInit, Init
  <2> QED
    BY <2>1, Broker
<1>2. Batch = {} /\ \A s \in Symbols : orders[s].quantity = 0
  BY DEF DeskInit, Init, NoOrders, Batch
<1> QED
  BY <1>1, <1>2 DEF Funded

\* Orders, quotes, cash and positions decide.
LEMMA FundedSame ==
  ASSUME Types, Funded, UNCHANGED <<cash, positions, quoted>>,
         \A s \in Symbols : orders'[s].quantity = orders[s].quantity,
         Batch' = Batch, Open' = Batch' => Open = Batch
  PROVE  Funded'
<1>1. [s \in Symbols |-> orders'[s].quantity * quoted'[s]]
        = [s \in Symbols |-> orders[s].quantity * quoted[s]]
  OBVIOUS
<1>2. Committed' = Committed
  BY <1>1 DEF Committed
<1>3. Slacks(quoted)' = Slacks(quoted)
  BY DEF Slacks
<1>4. quoted' \in [Symbols -> Nat]
      /\ \A s \in Symbols : s \notin Batch' => orders'[s].quantity = 0
  BY DEF Funded
<1>5. Batch' # {} /\ Open' = Batch' => Committed' <= cash' + Slacks(quoted)'
  BY <1>2, <1>3 DEF Funded
<1> QED
  BY <1>4, <1>5 DEF Funded

\* A plan is funded.
LEMMA FundedPlan ==
  ASSUME Types, \A s \in Symbols : Lot[s] > 0, NEW weights \in Targets,
         PlanOrders(weights), quoted' = price
  PROVE  Funded'
<1>1. weights \in [Symbols -> 0..WHOLE] /\ Total(weights) <= WHOLE
  BY TargetRange, TargetsAssumption
<1>2. /\ UNCHANGED <<cash, positions>>
      /\ \A s \in Symbols : orders'[s].quantity = Quantity(weights, s)
      /\ \A s \in Symbols : orders'[s].status = "none" <=> Quantity(weights, s) = 0
  BY DEF PlanOrders, Planned
<1>3. quoted' \in [Symbols -> Nat]
      /\ \A s \in Symbols : s \notin Batch' => orders'[s].quantity = 0
  BY <1>2, NAVType DEF Batch
<1>4. CASE NAV > 0
  <2>1. Total([s \in Symbols |-> Quantity(weights, s) * price[s]]) <= cash + Slacks(price)
    BY <1>1, <1>4, PlanFunded
  <2>2. [s \in Symbols |-> orders'[s].quantity * quoted'[s]]
          = [s \in Symbols |-> Quantity(weights, s) * price[s]]
    BY <1>2
  <2>3. Committed' = Total([s \in Symbols |-> Quantity(weights, s) * price[s]])
    BY <2>2 DEF Committed
  <2>4. Slacks(quoted)' = Slacks(price)
    BY <1>2 DEF Slacks
  <2>5. Committed' <= cash' + Slacks(quoted)'
    BY <1>2, <2>1, <2>3, <2>4
  <2> QED
    BY <1>3, <2>5 DEF Funded
<1>5. CASE ~(NAV > 0)
  <2>1. \A s \in Symbols : Quantity(weights, s) = 0
    BY <1>1, <1>5, QuantityFacts
  <2>2. Batch' = {}
    BY <1>2, <2>1 DEF Batch
  <2> QED
    BY <1>3, <2>2 DEF Funded
<1> QED
  BY <1>4, <1>5

\* An execution that leaves a batch whole fills none of it.
LEMMA FundedExecute ==
  ASSUME Types, Funded, NEW approve_all \in BOOLEAN, NEW slippage \in Slippages,
         ExecuteOrders(approve_all, slippage), quoted' = quoted
  PROVE  Funded'
<1> DEFINE D == Done(approve_all)
<1>1. /\ D \in SUBSET Symbols
      /\ cash' = cash - Traded(D) - CostOf(D, slippage)
      /\ positions' = [s \in Symbols |->
           IF s \in D THEN Greatest(0, positions[s] + orders[s].quantity) ELSE positions[s]]
      /\ \A s \in Symbols :
           /\ orders'[s].quantity = orders[s].quantity
           /\ orders'[s].status \in {orders[s].status, "filled", "rejected"}
           /\ s \in D => orders'[s].status = "filled"
           /\ orders'[s].status = "none" <=> orders[s].status = "none"
  BY ExecuteFacts
<1>2. D \subseteq Batch
  BY DEF Done, Approved, Batch
<1> HIDE DEF D
<1>3. Batch' = Batch
  BY <1>1 DEF Batch
<1>4. CASE Open' = Batch'
  <2>1. D = {}
    BY <1>1, <1>2, <1>3, <1>4 DEF Open
  <2>2. Open = Batch
    BY <1>1, <1>3, <1>4 DEF Open, Batch
  <2>3. Traded({}) = 0 /\ CostOf({}, slippage) = 0
    BY TotalIsSum, SumEmpty DEF Traded, CostOf
  <2>4. cash' = cash
    BY <1>1, <2>1, <2>3 DEF Types
  <2>5. positions' = positions
    BY <1>1, <2>1 DEF Types
  <2> QED
    BY <1>1, <1>3, <2>2, <2>4, <2>5, FundedSame
<1>5. CASE Open' # Batch'
  BY <1>1, <1>3, <1>5 DEF Funded
<1> QED
  BY <1>4, <1>5

LEMMA FundedStep ==
  ASSUME \A s \in Symbols : Lot[s] > 0, Types, Funded, [DeskNext]_deskVars
  PROVE  Funded'
<1>1. ASSUME NEW weights \in Targets, PlanOrders(weights), quoted' = price PROVE Funded'
  BY <1>1, FundedPlan
<1>2. ASSUME NEW s \in Symbols, Approve(s), UNCHANGED desk PROVE Funded'
  <2>1. /\ UNCHANGED <<cash, positions, quoted>>
        /\ \A t \in Symbols : orders'[t].quantity = orders[t].quantity
        /\ Batch' = Batch /\ Open' = Open
    BY <1>2 DEF Approve, desk, Types, Batch, Open
  <2> QED
    BY <2>1, FundedSame
<1>3. ASSUME NEW quotes \in Prices, MovePrices(quotes), UNCHANGED desk PROVE Funded'
  <2>1. UNCHANGED <<cash, positions, quoted, orders>>
    BY <1>3 DEF MovePrices, desk
  <2>2. Batch' = Batch /\ Open' = Open
    BY <2>1 DEF Batch, Open
  <2> QED
    BY <2>1, <2>2, FundedSame
<1>4. ASSUME NEW approve_all \in BOOLEAN, NEW slippage \in Slippages,
             Execute(approve_all, slippage)
      PROVE  Funded'
  BY <1>4, FundedExecute DEF Execute
<1>5. CASE Review \/ UNCHANGED deskVars
  <2>1. UNCHANGED <<cash, positions, quoted, orders>>
    BY <1>5 DEF Review, deskVars, desk, vars
  <2>2. Batch' = Batch /\ Open' = Open
    BY <2>1 DEF Batch, Open
  <2> QED
    BY <2>1, <2>2, FundedSame
<1> QED
  BY <1>1, <1>2, <1>3, <1>4, <1>5 DEF DeskNext, Instruct, InstructBroke

LEMMA AllowanceFacts ==
  ASSUME Types, NEW quotes \in [Symbols -> Nat]
  PROVE  /\ AllowanceAt(quotes) = Slacks(quotes) + FeesOf(Batch, quotes) \div WHOLE
         /\ Slacks(quotes) \in Int /\ FeesOf(Batch, quotes) \div WHOLE \in Int
         /\ \A cost \in Int : WHOLE * cost <= FeesOf(Batch, quotes)
                                => cost <= FeesOf(Batch, quotes) \div WHOLE
<1>1. AllowanceAt(quotes) = Slacks(quotes) + FeesOf(Batch, quotes) \div WHOLE
  BY DEF AllowanceAt, Slacks, Slack, FeesOf, Fee
<1>2. Slacks(quotes) \in Int
  <2> DEFINE f == [s \in Symbols |-> Slack(s, quotes, cash + ValueAt(positions, quotes))]
  <2>1. cash + ValueAt(positions, quotes) \in Int
    BY ValueType DEF Types
  <2>2. f \in [Symbols -> Int] /\ Symbols \in SUBSET Symbols
    BY <2>1, SlackType
  <2>3. Slacks(quotes) = Total(f)
    BY DEF Slacks
  <2> HIDE DEF f
  <2> QED
    BY <2>2, <2>3, TotalType
<1> DEFINE fees == FeesOf(Batch, quotes)
<1>3. fees \in Int
  <2>1. Batch \in SUBSET Symbols
    BY DEF Batch
  <2>2. FeesOf(Batch, quotes) \in Nat
    BY <2>1, FeesType
  <2> QED
    BY <2>2
<1> HIDE DEF fees
<1>4. fees \div WHOLE \in Int
  BY <1>3, Whole, DivRange, Zenon
<1>5. ASSUME NEW cost \in Int, WHOLE * cost <= fees PROVE cost <= fees \div WHOLE
  <2>1. cost * WHOLE <= fees
    BY <1>3, <1>5, Whole
  <2> QED
    BY <1>3, <2>1, Whole, DivFloor, Zenon
<1> QED
  BY <1>1, <1>2, <1>4, <1>5 DEF fees

\* A batch executed as a whole at the planned prices, or with some of them missing.
LEMMA ShortOfRejected ==
  ASSUME Cheap, Types, Funded, NEW approve_all \in BOOLEAN, NEW slippage \in Slippages,
         ExecuteOrders(approve_all, slippage), Open = Batch, Open' = {},
         \A s \in Symbols : price[s] \in {0, quoted[s]}
  PROVE  cash' >= -(AllowanceAt(quoted) + Total([s \in Symbols |->
                     IF orders'[s].status = "rejected" THEN Size(orders[s].quantity) * quoted[s]
                     ELSE 0]))
<1> DEFINE D == Done(approve_all)
           cost == CostOf(D, slippage)
           a == [s \in Symbols |-> orders[s].quantity * quoted[s]]
           b == [s \in Symbols |-> IF s \in D THEN orders[s].quantity * price[s] ELSE 0]
           c == [s \in Symbols |->
                   IF orders'[s].status = "rejected" THEN Size(orders[s].quantity) * quoted[s]
                   ELSE 0]
           ac == [s \in Symbols |-> a[s] + c[s]]
           f == [s \in D |-> orders[s].quantity * price[s]]
<1>1. /\ D \in SUBSET Symbols
      /\ Traded(D) \in Int /\ cost \in Nat
      /\ cash' = cash - Traded(D) - cost
      /\ \A s \in Symbols :
           /\ orders'[s].status \in {orders[s].status, "filled", "rejected"}
           /\ s \notin D /\ price[s] > 0 => orders'[s].status = orders[s].status
           /\ orders'[s].status = "filled" => orders[s].status = "filled" \/ s \in D
  BY ExecuteFacts
<1>2. /\ \A s \in D : s \in Batch /\ price[s] > 0
      /\ Batch # {} /\ Batch \in SUBSET Symbols
  BY DEF Done, Approved, Batch, ExecuteOrders
<1> HIDE DEF D
<1>3. /\ quoted \in [Symbols -> Nat] /\ price \in [Symbols -> Nat] /\ cash \in Int
      /\ \A s \in Symbols : orders[s].quantity \in Int /\ Size(orders[s].quantity) \in Nat
  BY NAVType DEF Types, Funded, Size
<1>4. ASSUME NEW s \in Symbols
      PROVE  /\ a[s] \in Int /\ b[s] \in Int /\ c[s] \in Int /\ ac[s] \in Int
             /\ ac[s] = a[s] + c[s] /\ b[s] <= ac[s]
  <2> DEFINE q == orders[s].quantity
             p == quoted[s]
             asked == q * p
             size == Size(q) * p
             traded == q * price[s]
  <2>0. q \in Int /\ p \in Nat /\ asked \in Int /\ size \in Nat /\ traded \in Int
    BY <1>3
  <2>1. /\ a[s] = asked /\ ac[s] = a[s] + c[s]
        /\ s \in D => b[s] = traded
        /\ s \notin D => b[s] = 0
        /\ orders'[s].status = "rejected" => c[s] = size
        /\ orders'[s].status # "rejected" => c[s] = 0
    OBVIOUS
  <2> HIDE DEF a, b, c, ac
  <2>2. CASE s \in D
    <3>1. price[s] = p
      BY <1>2, <2>2
    <3>2. traded = asked
      BY <3>1
    <3> HIDE DEF asked, size, traded
    <3> QED
      BY <2>0, <2>1, <2>2, <3>2
  <2>3. CASE s \notin Batch
    <3>1. q = 0 /\ s \notin D
      BY <1>2, <2>3 DEF Funded
    <3>2. asked = 0
      BY <2>0, <3>1
    <3> HIDE DEF asked, size, traded
    <3> QED
      BY <2>0, <2>1, <3>1, <3>2
  <2>4. CASE s \in Batch /\ s \notin D
    <3>1. orders[s].status \in {"pending", "approved"} /\ orders'[s].status \notin {"pending", "approved"}
      BY <2>4 DEF Open
    <3>2. orders'[s].status = "rejected"
      BY <1>1, <2>4, <3>1
    <3>3. -asked <= size
      <4> HIDE DEF q, p
      <4>1. CASE q < 0
        <5>1. Size(q) = -q /\ (-q) * p = -(q * p)
          BY <2>0, <4>1 DEF Size
        <5>2. size = -asked
          BY <5>1
        <5> HIDE DEF size, asked
        <5> QED
          BY <2>0, <5>2
      <4>2. CASE q >= 0
        <5>1. 0 * p <= q * p /\ 0 * p = 0
          BY <2>0, <4>2, MulMono
        <5>2. 0 <= asked
          BY <5>1
        <5> HIDE DEF size, asked
        <5> QED
          BY <2>0, <5>2
      <4> QED
        BY <2>0, <4>1, <4>2
    <3> HIDE DEF asked, size, traded
    <3> QED
      BY <2>0, <2>1, <2>4, <3>2, <3>3
  <2> QED
    BY <2>2, <2>3, <2>4
<1>5. /\ a \in [Symbols -> Int] /\ b \in [Symbols -> Int] /\ c \in [Symbols -> Int]
      /\ ac \in [Symbols -> Int] /\ Symbols \in SUBSET Symbols
  BY <1>4
<1>6. f \in [D -> Int] /\ Traded(D) = Total(f)
      /\ \A s \in Symbols : b[s] = IF s \in D THEN f[s] ELSE 0
  BY <1>1, <1>3 DEF Traded
<1>7. Total(a) <= cash + Slacks(quoted)
  BY <1>2 DEF Funded, Committed
<1>8. WHOLE * cost <= FeesOf(Batch, quoted)
  <2>1. \A s \in D : price[s] = quoted[s]
    BY <1>1, <1>2
  <2>2. WHOLE * cost <= FeesOf(D, quoted)
    BY <1>1, <1>3, <2>1, CostTotal
  <2>3. FeesOf(D, quoted) <= FeesOf(Batch, quoted)
    BY <1>2, <1>3, FeesGrow
  <2>4. FeesOf(D, quoted) \in Nat /\ FeesOf(Batch, quoted) \in Nat
    BY <1>1, <1>2, <1>3, FeesType
  <2>5. WHOLE * cost \in Int
    BY <1>1, Whole
  <2> QED
    BY <2>2, <2>3, <2>4, <2>5
<1> HIDE DEF a, b, c, ac, f, cost
<1>9. Total(b) <= Total(ac) /\ Total(ac) = Total(a) + Total(c) /\ Total(b) = Traded(D)
  <2>1. Total(b) <= Total(ac)
    BY <1>4, <1>5, TotalMonotone
  <2>2. Total(ac) = Total(a) + Total(c)
    BY <1>4, <1>5, TotalAdd
  <2>3. Total(b) = Total(f)
    BY <1>1, <1>5, <1>6, TotalRestrict
  <2> QED
    BY <1>6, <2>1, <2>2, <2>3
<1>10. Total(a) \in Int /\ Total(c) \in Int
  BY <1>5, TotalType
<1> DEFINE fees == FeesOf(Batch, quoted) \div WHOLE
<1>11. /\ AllowanceAt(quoted) = Slacks(quoted) + fees
       /\ Slacks(quoted) \in Int /\ fees \in Int /\ cost <= fees
  BY <1>1, <1>3, <1>8, AllowanceFacts
<1> HIDE DEF fees
<1>12. cash' >= -(AllowanceAt(quoted) + Total(c))
  BY <1>1, <1>3, <1>7, <1>9, <1>10, <1>11
<1> QED
  BY <1>12 DEF c

\* A batch executed at once at its own prices leaves a debt of the allowance and of
\* its rejected sells at most, for every set of prices, lots and weights: rounding
\* never lets a plan promise more than it has, and only a sell that fails to happen
\* leaves its buys unfunded.
THEOREM ShortOfRejectedSells ==
  ASSUME \A s \in Symbols : Lot[s] > 0, Cheap
  PROVE  DeskSpec => ShortOnlyOfRejectedSells
<1>1. Types /\ Funded /\ [DeskNext]_deskVars => Funded'
  BY FundedStep
<1>2. ASSUME Types, Funded, DeskNext, orders' # orders, round' = round, Open = Batch, Open' = {},
             \A s \in Symbols : price[s] \in {0, quoted[s]}
      PROVE  cash' >= -(AllowanceAt(quoted) + Total([s \in Symbols |->
                         IF orders'[s].status = "rejected"
                         THEN Size(orders[s].quantity) * quoted[s] ELSE 0]))
  <2>1. ASSUME NEW weights \in Targets, PlanOrders(weights) PROVE FALSE
    BY <1>2, <2>1 DEF PlanOrders, Types
  <2>2. ASSUME NEW s \in Symbols, Approve(s) PROVE FALSE
    BY <1>2, <2>2 DEF Approve, Open, Types
  <2>3. ASSUME NEW quotes \in Prices, MovePrices(quotes) PROVE FALSE
    BY <1>2, <2>3 DEF MovePrices
  <2>4. ASSUME Review PROVE FALSE
    BY <1>2, <2>4 DEF Review, vars
  <2>5. PICK approve_all \in BOOLEAN, slippage \in Slippages : Execute(approve_all, slippage)
    BY <1>2, <2>1, <2>2, <2>3, <2>4 DEF DeskNext, Instruct, InstructBroke
  <2> QED
    BY <1>2, <2>5, ShortOfRejected DEF Execute
<1>3. Types /\ Funded /\ [DeskNext]_deskVars =>
        [(/\ orders' # orders /\ round' = round /\ Open = Batch /\ Open' = {}
          /\ \A s \in Symbols : price[s] \in {0, quoted[s]}) =>
            cash' >= -(AllowanceAt(quoted) + Total([s \in Symbols |->
                         IF orders'[s].status = "rejected"
                         THEN Size(orders[s].quantity) * quoted[s] ELSE 0]))]_deskVars
  BY <1>2
<1> QED
  BY <1>1, <1>3, FundedInit, TypesInvariant, DeskImplementsBroker, PTL
     DEF DeskSpec, ShortOnlyOfRejectedSells

-----------------------------------------------------------------------------
(* The shadow *)

\* The worth of the shadow without the positions its target left out.
Followed == ShadowNAV - Total([s \in Symbols \ shadow.named |-> shadow.positions[s] * price[s]])

\* The most the fills of the batch may have cost so far, times WHOLE.
Paid == FeesOf(Batch \ Open, price)

Lots == Total([s \in Symbols |-> Lot[s] * price[s]])

\* Since the last plan the shadow has lost the remainders of its divisions, and the
\* broker the costs of its fills.
Shadowed ==
  /\ shadow \in [positions : [Symbols -> Int], cash : Int, named : SUBSET Symbols]
  /\ (intact /\ Batch # {}) =>
       \E nav \in Int : /\ 0 <= nav - Followed /\ nav - Followed <= Lots
                        /\ 0 <= nav - NAV /\ WHOLE * (nav - NAV) <= Paid

LEMMA LotsType ==
  ASSUME Types
  PROVE  /\ Lots \in Nat /\ Lots <= Slacks(price)
         /\ [s \in Symbols |-> Lot[s] * price[s]] \in [Symbols -> Int]
<1> DEFINE l == [s \in Symbols |-> Lot[s] * price[s]]
           slack == [s \in Symbols |-> Slack(s, price, cash + ValueAt(positions, price))]
<1>1. price \in [Symbols -> Nat] /\ cash + ValueAt(positions, price) \in Int
  BY NAVType DEF NAV
<1>2. ASSUME NEW s \in Symbols PROVE l[s] \in Nat /\ slack[s] \in Int /\ l[s] <= slack[s]
  <2> DEFINE x == Lot[s] * price[s]
  <2>1. x \in Nat /\ slack[s] \in Int /\ x + 1 <= slack[s]
    BY <1>1, SlackType
  <2>2. l[s] = x
    OBVIOUS
  <2> HIDE DEF x, l, slack
  <2> QED
    BY <2>1, <2>2
<1>3. /\ l \in [Symbols -> Nat] /\ l \in [Symbols -> Int] /\ slack \in [Symbols -> Int]
      /\ Symbols \in SUBSET Symbols
  BY <1>2
<1>4. Lots = Total(l) /\ Slacks(price) = Total(slack)
  BY DEF Lots, Slacks
<1> HIDE DEF l, slack
<1>5. Total(l) \in Nat
  BY <1>3, TotalNat
<1>6. Total(l) <= Total(slack)
  BY <1>2, <1>3, TotalMonotone
<1> QED
  BY <1>3, <1>4, <1>5, <1>6 DEF l

LEMMA ShadowedInit == DeskInit => Shadowed
  BY Broker DEF DeskInit, Init, Shadowed

\* The part of the NAV a weight of zero stands for is nothing.
LEMMA NoPart ==
  ASSUME NEW n \in Int
  PROVE  (0 * n) \div WHOLE = 0
<1>1. 0 * n = 0 /\ 0 * 0 = 0 /\ 0 \in Nat /\ 0 \in 0..WHOLE
  BY Whole
<1>2. (0 * 0) \div WHOLE \in Nat /\ (0 * 0) \div WHOLE <= 0
  BY <1>1, PartRange, Zenon
<1> DEFINE k == (0 * 0) \div WHOLE
<1> HIDE DEF k
<1>3. k = 0
  BY <1>2 DEF k
<1> QED
  BY <1>1, <1>3 DEF k

\* A shadow rebalanced at full prices loses less than a unit of each symbol.
LEMMA ShadowedInstruct ==
  ASSUME Types, Shadowed, \A s \in Symbols : Lot[s] > 0, NEW weights \in Targets,
         NEW named \in {Symbols, {s \in Symbols : weights[s] > 0}}, Instruct(weights, named)
  PROVE  Shadowed'
<1> DEFINE part == [s \in Symbols |-> (weights[s] * NAV) \div WHOLE]
           units == ShadowRebalanced(weights, named)
<1>1. /\ weights \in [Symbols -> 0..WHOLE] /\ Total(weights) <= WHOLE
      /\ named \in SUBSET Symbols
  BY TargetRange, TargetsAssumption
<1>2. NAV \in Nat /\ price \in [Symbols -> Nat] /\ cash \in Int
  BY NAVType DEF Instruct, Types
<1>3. part \in [Symbols -> Nat] /\ Total(part) \in Nat
  BY <1>1, <1>2, InvestedRange, Zenon
<1>4. /\ UNCHANGED <<cash, positions, price>>
      /\ intact' = (\A s \in Symbols : price[s] > 0)
      /\ shadow' = [positions |-> units, cash |-> NAV - Total(part), named |-> named]
      /\ \A s \in Symbols : orders'[s].status \in {"none", "pending"}
  BY DEF Instruct, PlanOrders, Planned, ModelCash
<1>5. units \in [Symbols -> Int]
  <2> SUFFICES ASSUME NEW s \in Symbols
               PROVE  (IF s \in named /\ price[s] > 0 THEN part[s] \div price[s]
                       ELSE shadow.positions[s]) \in Int
    BY DEF ShadowRebalanced
  <2>1. shadow.positions[s] \in Int
    BY DEF Shadowed
  <2>2. ASSUME price[s] > 0 PROVE part[s] \div price[s] \in Int
    <3>1. price[s] \in Nat \ {0} /\ part[s] \in Nat
      BY <1>2, <1>3, <2>2
    <3> HIDE DEF part
    <3>2. part[s] \div price[s] \in Nat
      BY <3>1, UnitsFacts
    <3> QED
      BY <3>2
  <2> HIDE DEF part
  <2> QED
    BY <2>1, <2>2
<1>6. shadow' \in [positions : [Symbols -> Int], cash : Int, named : SUBSET Symbols]
  <2>1. NAV - Total(part) \in Int
    BY <1>2, <1>3
  <2> HIDE DEF part, units
  <2> QED
    BY <1>1, <1>4, <1>5, <2>1
<1>7. ASSUME intact'
      PROVE  \E nav \in Int : /\ 0 <= nav - Followed' /\ nav - Followed' <= Lots'
                              /\ 0 <= nav - NAV' /\ WHOLE * (nav - NAV') <= Paid'
  <2> DEFINE x == [s \in Symbols |-> units[s] * price[s]]
             left == [s \in Symbols \ named |-> units[s] * price[s]]
             l == [s \in Symbols |-> IF s \in Symbols \ named THEN left[s] ELSE 0]
             r == [s \in Symbols |-> part[s] - (x[s] - l[s])]
             lot == [s \in Symbols |-> Lot[s] * price[s]]
             xr == [s \in Symbols |-> x[s] + r[s]]
  <2>1. ASSUME NEW s \in Symbols
        PROVE  /\ x[s] \in Int /\ l[s] \in Int /\ r[s] \in Nat /\ r[s] <= lot[s]
               /\ lot[s] \in Int /\ xr[s] \in Int
               /\ xr[s] = x[s] + r[s] /\ xr[s] = part[s] + l[s]
    <3>1. price[s] \in Nat \ {0} /\ part[s] \in Nat /\ units[s] \in Int
      <4> HIDE DEF part, units
      <4>1. price[s] > 0 /\ price[s] \in Nat
        BY <1>2, <1>4, <1>7
      <4>2. part[s] \in Nat /\ units[s] \in Int
        BY <1>3, <1>5
      <4> QED
        BY <4>1, <4>2
    <3>2. x[s] = units[s] * price[s]
      OBVIOUS
    <3>3. x[s] \in Int
      <4> HIDE DEF units, x
      <4> QED
        BY <3>1, <3>2
    <3>4. lot[s] \in Nat /\ price[s] <= lot[s]
      <4> DEFINE k == Lot[s]
      <4>1. k \in Nat /\ 1 <= k
        BY Broker
      <4>2. lot[s] = k * price[s]
        OBVIOUS
      <4> HIDE DEF k, lot
      <4>3. 1 * price[s] <= k * price[s] /\ 1 * price[s] = price[s] /\ k * price[s] \in Int
        BY <3>1, <4>1, MulMono
      <4> QED
        BY <3>1, <4>2, <4>3
    <3>5. r[s] = part[s] - (x[s] - l[s]) /\ xr[s] = x[s] + r[s]
      OBVIOUS
    <3>6. CASE s \in named
      <4>1. l[s] = 0
        BY <3>6
      <4>2. units[s] = part[s] \div price[s]
        BY <3>1, <3>6 DEF ShadowRebalanced
      <4> DEFINE y == (part[s] \div price[s]) * price[s]
      <4>3. y \in Int /\ y <= part[s] /\ part[s] < y + price[s]
        <5> HIDE DEF part
        <5>1. /\ part[s] \div price[s] \in Nat
              /\ (part[s] \div price[s]) * price[s] <= part[s]
              /\ part[s] < (part[s] \div price[s]) * price[s] + price[s]
          BY <3>1, UnitsFacts
        <5> DEFINE u == part[s] \div price[s]
        <5> HIDE DEF u
        <5>2. u * price[s] \in Int
          BY <3>1, <5>1 DEF u
        <5> QED
          BY <5>1, <5>2 DEF u
      <4>4. x[s] = y
        BY <3>2, <4>2
      <4> HIDE DEF x, l, r, lot, xr, part, y, units
      <4> QED
        BY <3>1, <3>3, <3>4, <3>5, <4>1, <4>3, <4>4
    <3>7. CASE s \notin named
      <4>1. l[s] = x[s]
        BY <3>7
      <4>2. weights[s] = 0
        <5>1. ~(weights[s] > 0) /\ weights[s] \in Nat
          BY <1>1, <3>7, Whole
        <5> QED
          BY <5>1
      <4>3. part[s] = (0 * NAV) \div WHOLE
        BY <4>2
      <4>4. part[s] = 0
        <5>1. NAV \in Int
          BY <1>2
        <5> HIDE DEF part
        <5> QED
          BY <4>3, <5>1, NoPart, Zenon
      <4> HIDE DEF x, l, r, lot, xr, part, units
      <4> QED
        BY <3>1, <3>3, <3>4, <3>5, <4>1, <4>4
    <3> QED
      BY <3>6, <3>7
  <2>2. /\ x \in [Symbols -> Int] /\ l \in [Symbols -> Int] /\ r \in [Symbols -> Nat]
        /\ r \in [Symbols -> Int] /\ lot \in [Symbols -> Int] /\ xr \in [Symbols -> Int]
        /\ Symbols \in SUBSET Symbols
    BY <2>1
  <2>3. left \in [Symbols \ named -> Int] /\ Symbols \ named \in SUBSET Symbols
        /\ \A s \in Symbols : l[s] = IF s \in Symbols \ named THEN left[s] ELSE 0
    <3>1. left \in [Symbols \ named -> Int]
      BY <2>1
    <3> QED
      BY <3>1
  <2>4. Followed' = ((NAV - Total(part)) + Total(x)) - Total(left)
    <3>1. /\ shadow'.positions = units /\ shadow'.cash = NAV - Total(part)
          /\ shadow'.named = named /\ price' = price
      <4> HIDE DEF part, units
      <4> QED
        BY <1>4
    <3>2. Followed' = (shadow'.cash + Total([s \in Symbols |-> shadow'.positions[s] * price'[s]]))
                      - Total([s \in Symbols \ shadow'.named |-> shadow'.positions[s] * price'[s]])
      BY DEF Followed, ShadowNAV, ValueAt
    <3> HIDE DEF part, units
    <3>3. Followed' = ((NAV - Total(part)) + Total(x)) - Total(left)
      BY <3>1, <3>2
    <3> QED
      BY <3>3
  <2>5. NAV' = NAV /\ Lots' = Total(lot)
    BY <1>4 DEF NAV, Lots
  <2> HIDE DEF x, left, l, r, lot, xr, part, units
  <2>6. Total(l) = Total(left)
    BY <2>2, <2>3, TotalRestrict
  <2>7. Total(xr) = Total(x) + Total(r)
    BY <2>1, <2>2, TotalAdd
  <2>8. Total(xr) = Total(part) + Total(l)
    <3>1. part \in [Symbols -> Int]
      BY <1>3
    <3>2. \A s \in Symbols : xr[s] = part[s] + l[s]
      BY <2>1
    <3> QED
      BY <2>2, <3>1, <3>2, TotalAdd
  <2>9. Total(r) \in Nat /\ Total(r) <= Total(lot)
    BY <2>1, <2>2, TotalNat, TotalMonotone
  <2>10. Total(x) \in Int /\ Total(l) \in Int
    BY <2>2, TotalType
  <2>11. NAV - Followed' = Total(r)
    <3>1. NAV \in Int /\ Total(part) \in Int /\ Total(r) \in Int
      BY <1>2, <1>3, <2>9
    <3>2. Total(x) + Total(r) = Total(part) + Total(left)
      BY <2>6, <2>7, <2>8, <2>10, <3>1
    <3> QED
      BY <2>4, <2>6, <2>10, <3>1, <3>2
  <2>12. Paid' = 0
    <3>1. (Batch \ Open)' = {}
      BY <1>4 DEF Batch, Open
    <3>2. Paid' = Total([s \in (Batch \ Open)' |->
                           Size(orders'[s].quantity) * price'[s] * 2 * THRESHOLD])
      BY DEF Paid, FeesOf, Fee
    <3> DEFINE f == [s \in {} |-> Size(orders'[s].quantity) * price'[s] * 2 * THRESHOLD]
    <3>3. Paid' = Total(f)
      BY <3>1, <3>2
    <3>4. DOMAIN f = {}
      OBVIOUS
    <3> HIDE DEF f
    <3> QED
      BY <3>3, <3>4, TotalIsSum, SumEmpty
  <2>13. 0 <= NAV - NAV' /\ WHOLE * (NAV - NAV') <= Paid'
    BY <1>2, <2>5, <2>12, Whole
  <2>14. 0 <= NAV - Followed' /\ NAV - Followed' <= Lots'
    BY <2>5, <2>9, <2>11
  <2>15. NAV \in Int
    BY <1>2
  <2> QED
    BY <2>13, <2>14, <2>15
<1> QED
  BY <1>6, <1>7 DEF Shadowed

\* Fills cost the broker their fees at most and leave the shadow alone.
LEMMA ShadowedExecute ==
  ASSUME ~Resubmits, Cheap, Types, Held, Shadowed, NEW approve_all \in BOOLEAN,
         NEW slippage \in Slippages, ExecuteOrders(approve_all, slippage), shadow' = shadow
  PROVE  Shadowed'
<1> DEFINE D == Done(approve_all)
           cost == CostOf(D, slippage)
<1>1. /\ D \in SUBSET Symbols /\ D \subseteq Open
      /\ cost \in Nat
      /\ \A s \in Symbols :
           /\ orders'[s].quantity = orders[s].quantity
           /\ orders'[s].status \in {orders[s].status, "filled", "rejected"}
           /\ s \in D => orders'[s].status = "filled"
           /\ orders'[s].status = "none" <=> orders[s].status = "none"
      /\ UNCHANGED <<price, intact>>
  BY ExecuteFacts
<1>2. NAV' = NAV - cost /\ NAV \in Int /\ price \in [Symbols -> Nat]
  BY ExecuteNAV, NAVType
<1>3. WHOLE * cost <= FeesOf(D, price)
  BY <1>1, <1>2, CostTotal
<1> HIDE DEF cost
<1> DEFINE S == Batch \ Open
           T == (Batch \ Open)'
<1>4. /\ S \in SUBSET Symbols /\ T \in SUBSET Symbols /\ S \cup D \in SUBSET T
      /\ S \cap D = {}
  <2>1. Batch' = Batch /\ D \subseteq Batch
    BY <1>1 DEF Batch, Done, Approved
  <2> HIDE DEF D
  <2>2. D \cap Open' = {}
    BY <1>1 DEF Open
  <2>3. Open' \subseteq Open
    BY <1>1 DEF Open
  <2>4. Batch \subseteq Symbols
    BY DEF Batch
  <2> QED
    BY <1>1, <2>1, <2>2, <2>3, <2>4
<1> HIDE DEF D, S, T
<1>5. Paid = FeesOf(S, price)
  BY DEF Paid, S
<1>6. Paid' = FeesOf(T, price)
  <2>1. Paid' = Total([s \in T |-> Size(orders'[s].quantity) * price'[s] * 2 * THRESHOLD])
    BY DEF Paid, FeesOf, Fee, T
  <2>2. [s \in T |-> Size(orders'[s].quantity) * price'[s] * 2 * THRESHOLD]
          = [s \in T |-> Size(orders[s].quantity) * price[s] * 2 * THRESHOLD]
    BY <1>1, <1>4
  <2>3. FeesOf(T, price) = Total([s \in T |-> Size(orders[s].quantity) * price[s] * 2 * THRESHOLD])
    BY DEF FeesOf, Fee
  <2> QED
    BY <2>1, <2>2, <2>3
<1>7. Paid + WHOLE * cost <= Paid' /\ Paid \in Nat /\ Paid' \in Nat
  <2>1. FeesOf(S \cup D, price) = FeesOf(S, price) + FeesOf(D, price)
    BY <1>1, <1>2, <1>4, FeesAdd
  <2>2. FeesOf(S \cup D, price) <= FeesOf(T, price)
    BY <1>2, <1>4, FeesGrow
  <2>3. FeesOf(S, price) \in Nat /\ FeesOf(D, price) \in Nat /\ FeesOf(T, price) \in Nat
    BY <1>1, <1>2, <1>4, FeesType
  <2> DEFINE w == WHOLE * cost
  <2>4. w \in Int /\ w <= FeesOf(D, price)
    BY <1>1, <1>3, Whole
  <2> HIDE DEF w
  <2>5. Paid + w <= Paid' /\ Paid \in Nat /\ Paid' \in Nat
    BY <1>5, <1>6, <2>1, <2>2, <2>3, <2>4
  <2> QED
    BY <2>5 DEF w
<1>8. Followed' = Followed
  BY <1>1 DEF Followed, ShadowNAV
<1>9. Lots' = Lots
  BY <1>1 DEF Lots
<1>10. Batch' # {} => Batch # {}
  BY <1>1 DEF Batch
<1>11. ASSUME NEW nav \in Int, 0 <= nav - NAV, WHOLE * (nav - NAV) <= Paid
       PROVE  0 <= nav - NAV' /\ WHOLE * (nav - NAV') <= Paid'
  <2> DEFINE a == nav - NAV
             w == WHOLE * cost
             v == WHOLE * a
  <2>1. a \in Nat /\ nav - NAV' = a + cost
    BY <1>1, <1>2, <1>11
  <2> HIDE DEF a
  <2>2. w \in Int /\ v \in Int /\ WHOLE * (a + cost) = v + w
    BY <1>1, <2>1, Whole
  <2>3. v <= Paid /\ Paid + w <= Paid'
    BY <1>7, <1>11 DEF a
  <2> HIDE DEF v, w
  <2>4. v + w <= Paid'
    BY <1>7, <2>2, <2>3
  <2> QED
    BY <1>1, <2>1, <2>2, <2>4
<1> QED
  BY <1>1, <1>8, <1>9, <1>10, <1>11 DEF Shadowed

\* What the shadow is compared with stays as it is.
LEMMA ShadowedSame ==
  ASSUME Shadowed, UNCHANGED <<cash, positions, price, shadow, intact>>,
         \A s \in Symbols : orders'[s].quantity = orders[s].quantity,
         Batch' = Batch, Open' = Open
  PROVE  Shadowed'
<1> DEFINE S == Batch \ Open
<1>1. Paid' = Paid
  <2>1. Paid' = Total([s \in S |-> Size(orders'[s].quantity) * price[s] * 2 * THRESHOLD])
    BY DEF Paid, FeesOf, Fee
  <2>2. Paid = Total([s \in S |-> Size(orders[s].quantity) * price[s] * 2 * THRESHOLD])
    BY DEF Paid, FeesOf, Fee
  <2>3. \A s \in S : s \in Symbols
    BY DEF Batch
  <2> HIDE DEF S
  <2>4. [s \in S |-> Size(orders'[s].quantity) * price[s] * 2 * THRESHOLD]
          = [s \in S |-> Size(orders[s].quantity) * price[s] * 2 * THRESHOLD]
    BY <2>3
  <2> QED
    BY <2>1, <2>2, <2>4
<1>2. Followed' = Followed /\ Lots' = Lots /\ NAV' = NAV
  BY DEF Followed, ShadowNAV, Lots, NAV
<1> QED
  BY <1>1, <1>2 DEF Shadowed

LEMMA ShadowedStep ==
  ASSUME ~Resubmits, \A s \in Symbols : Lot[s] > 0, Cheap, Types, Held, Shadowed,
         [DeskNext]_deskVars
  PROVE  Shadowed'
<1>1. ASSUME NEW weights \in Targets,
             NEW named \in {Symbols, {s \in Symbols : weights[s] > 0}}, Instruct(weights, named)
      PROVE  Shadowed'
  BY <1>1, ShadowedInstruct
<1>2. ASSUME NEW weights \in Targets, InstructBroke(weights) PROVE Shadowed'
  <2>1. weights \in [Symbols -> 0..WHOLE]
    BY TargetRange
  <2>2. \A s \in Symbols : Quantity(weights, s) = 0
    BY <1>2, <2>1, QuantityFacts, NAVType DEF InstructBroke
  <2>3. Batch' = {} /\ shadow' = shadow
    BY <1>2, <2>2 DEF InstructBroke, PlanOrders, Planned, Batch
  <2> QED
    BY <2>3 DEF Shadowed
<1>3. ASSUME NEW s \in Symbols, Approve(s), UNCHANGED desk PROVE Shadowed'
  <2>1. /\ UNCHANGED <<cash, positions, price, shadow, intact>>
        /\ \A t \in Symbols : orders'[t].quantity = orders[t].quantity
        /\ Batch' = Batch /\ Open' = Open
    BY <1>3 DEF Approve, desk, Types, Batch, Open
  <2> QED
    BY <2>1, ShadowedSame
<1>4. ASSUME NEW quotes \in Prices, MovePrices(quotes), UNCHANGED desk PROVE Shadowed'
  BY <1>4 DEF MovePrices, desk, Shadowed
<1>5. ASSUME NEW approve_all \in BOOLEAN, NEW slippage \in Slippages,
             Execute(approve_all, slippage)
      PROVE  Shadowed'
  BY <1>5, ShadowedExecute DEF Execute
<1>6. CASE Review \/ UNCHANGED deskVars
  <2>1. UNCHANGED <<cash, positions, price, shadow, intact, orders>>
    BY <1>6 DEF Review, deskVars, desk, vars
  <2>2. Batch' = Batch /\ Open' = Open
    BY <2>1 DEF Batch, Open
  <2> QED
    BY <2>1, <2>2, ShadowedSame
<1> QED
  BY <1>1, <1>2, <1>3, <1>4, <1>5, <1>6 DEF DeskNext

\* After a plan executed in full at its own prices the shadow is worth what the
\* broker is, but for the allowance and the symbols its target left out, for every
\* set of prices, lots and weights: what either of them loses is bounded, and they
\* lose it from the same NAV.
THEOREM ShadowFollows ==
  ASSUME ~Resubmits, \A s \in Symbols : Lot[s] > 0, Cheap
  PROVE  DeskSpec => []ShadowErrsByLeftovers
<1>1. Types /\ Held /\ Shadowed /\ [DeskNext]_deskVars => Shadowed'
  BY ShadowedStep
<1>2. Types /\ Shadowed => ShadowErrsByLeftovers
  <2> SUFFICES ASSUME Types, Shadowed, Executed PROVE ShadowErrsByLeftovers
    BY DEF ShadowErrsByLeftovers
  <2>1. PICK nav \in Int : /\ 0 <= nav - Followed /\ nav - Followed <= Lots
                           /\ 0 <= nav - NAV /\ WHOLE * (nav - NAV) <= Paid
    BY DEF Shadowed, Executed
  <2>2. Batch \ Open = Batch
    BY DEF Executed, Batch, Open
  <2> DEFINE fees == FeesOf(Batch, price) \div WHOLE
  <2>3. NAV \in Int /\ price \in [Symbols -> Nat] /\ Lots \in Nat /\ Lots <= Slacks(price)
    BY NAVType, LotsType
  <2>4. nav - NAV \in Int /\ WHOLE * (nav - NAV) <= FeesOf(Batch, price)
    <3>1. nav - NAV \in Int
      BY <2>3
    <3>2. Paid = FeesOf(Batch, price)
      BY <2>2 DEF Paid
    <3> QED
      BY <2>1, <3>1, <3>2
  <2>5. /\ Allowance = Slacks(price) + fees
        /\ Slacks(price) \in Int /\ fees \in Int /\ nav - NAV <= fees
    BY <2>3, <2>4, AllowanceFacts DEF Allowance
  <2>6. Followed \in Int
    <3> DEFINE S == Symbols \ shadow.named
               f == [s \in S |-> shadow.positions[s] * price[s]]
    <3>1. shadow.positions \in [Symbols -> Int] /\ shadow.cash \in Int
      BY DEF Shadowed
    <3>2. ValueAt(shadow.positions, price) \in Int
      BY <2>3, <3>1, ValueType
    <3>3. f \in [S -> Int] /\ S \in SUBSET Symbols
      BY <2>3, <3>1
    <3>4. Followed = (shadow.cash + ValueAt(shadow.positions, price)) - Total(f)
      BY DEF Followed, ShadowNAV
    <3> HIDE DEF f, S
    <3>5. Total(f) \in Int
      BY <3>3, TotalType
    <3>6. shadow.cash \in Int
      BY <3>1
    <3> QED
      BY <3>2, <3>4, <3>5, <3>6
  <2> HIDE DEF fees
  <2>7. Size(Followed - NAV) <= Allowance
    BY <2>1, <2>3, <2>5, <2>6 DEF Size
  <2> QED
    BY <2>7 DEF ShadowErrsByLeftovers, Followed
<1> QED
  BY <1>1, <1>2, ShadowedInit, HeldInvariant, DeskImplementsBroker, PTL DEF DeskSpec

-----------------------------------------------------------------------------
(* Planned again *)

\* What the orders of a set are worth at the market.
Gross(s) == Size(orders[s].quantity) * price[s]
Turnover(S) == Total([s \in Symbols |-> IF s \in S THEN Gross(s) ELSE 0])

Filled == {s \in Symbols : orders[s].status = "filled"}

\* What is held of a symbol once its order is filled.
Due(s) == positions[s] + (IF s \in Open THEN orders[s].quantity ELSE 0)

\* How far that is from the weight at a NAV.
Rest(s, nav) == (target[s] * nav) \div WHOLE - Due(s) * price[s]

\* An excess is less than a lot or too small to trade; so is what is missing, or
\* it is less than the least order.
Near(s, nav) ==
  \/ Size(Rest(s, nav)) * WHOLE <= THRESHOLD * nav
  \/ Size(Rest(s, nav)) <= Lot[s] * price[s]
  \/ Rest(s, nav) > 0 /\ Rest(s, nav) < MinNotional

\* While the prices of a plan stand, its orders lead near the weights at its NAV, and
\* its fills have cost no more than the rate.
Settling(rate) ==
  intact =>
    /\ \A s \in Symbols : price[s] > 0
    /\ Batch # {} =>
         \E nav \in Nat, cost \in Nat :
           /\ nav > 0 /\ NAV = nav - cost
           /\ cost * WHOLE <= Turnover(Filled) * rate
           /\ \A s \in Symbols : Near(s, nav)

LEMMA TurnoverType ==
  ASSUME Types, NEW S \in SUBSET Symbols
  PROVE  /\ Turnover(S) \in Int
         /\ [s \in Symbols |-> IF s \in S THEN Gross(s) ELSE 0] \in [Symbols -> Int]
         /\ \A s \in Symbols : Gross(s) \in Nat
<1>1. \A s \in Symbols : Gross(s) \in Nat
  <2> SUFFICES ASSUME NEW s \in Symbols PROVE Gross(s) \in Nat
    OBVIOUS
  <2>1. orders[s].quantity \in Int /\ price[s] \in Nat
    BY NAVType DEF Types
  <2>2. Size(orders[s].quantity) \in Nat
    BY <2>1 DEF Size
  <2> QED
    BY <2>1, <2>2 DEF Gross
<1> DEFINE f == [s \in Symbols |-> IF s \in S THEN Gross(s) ELSE 0]
<1>2. f \in [Symbols -> Int] /\ Symbols \in SUBSET Symbols
  BY <1>1
<1>3. Turnover(S) = Total(f)
  BY DEF Turnover
<1> HIDE DEF f
<1>4. Total(f) \in Int
  BY <1>2, TotalType
<1> QED
  BY <1>1, <1>2, <1>3, <1>4 DEF f

\* The turnovers of two sets without a common symbol add up.
LEMMA TurnoverAdd ==
  ASSUME Types, NEW S \in SUBSET Symbols, NEW T \in SUBSET Symbols, S \cap T = {}
  PROVE  Turnover(S \cup T) = Turnover(S) + Turnover(T)
<1> DEFINE On(U) == [s \in Symbols |-> IF s \in U THEN Gross(s) ELSE 0]
           f == On(S)
           g == On(T)
           h == On(S \cup T)
<1>1. \A s \in Symbols : Gross(s) \in Int
  BY TurnoverType
<1>2. f \in [Symbols -> Int] /\ g \in [Symbols -> Int] /\ h \in [Symbols -> Int]
  BY <1>1
<1>3. \A s \in Symbols : h[s] = f[s] + g[s]
  BY <1>1
<1>4. Turnover(S) = Total(f) /\ Turnover(T) = Total(g) /\ Turnover(S \cup T) = Total(h)
  BY DEF Turnover
<1> HIDE DEF f, g, h
<1>5. Total(h) = Total(f) + Total(g)
  BY <1>2, <1>3, TotalAdd
<1> QED
  BY <1>4, <1>5

\* Fills cost their turnover at the rate, at most.
LEMMA CostOfTurnover ==
  ASSUME Types, NEW rate \in Nat, NEW slippage \in Slippages, Within(slippage, rate),
         NEW D \in SUBSET Symbols
  PROVE  CostOf(D, slippage) \in Nat /\ CostOf(D, slippage) * WHOLE <= Turnover(D) * rate
<1> DEFINE c == [s \in D |-> Costs(orders[s].quantity, price[s], slippage)]
           k == [s \in Symbols |->
                   IF s \in D THEN Costs(orders[s].quantity, price[s], slippage) ELSE 0]
           wk == [s \in Symbols |-> WHOLE * k[s]]
           g == [s \in Symbols |-> IF s \in D THEN Gross(s) ELSE 0]
           rg == [s \in Symbols |-> rate * g[s]]
<1>0. \A s \in Symbols : orders[s].quantity \in Int /\ price[s] \in Nat
  BY NAVType DEF Types
<1>1. \A s \in Symbols : Costs(orders[s].quantity, price[s], slippage) \in Nat
  BY <1>0, CostsNat
<1>2. /\ c \in [D -> Nat] /\ c \in [D -> Int] /\ k \in [Symbols -> Int]
      /\ \A s \in Symbols : k[s] = IF s \in D THEN c[s] ELSE 0
  BY <1>1
<1>3. wk \in [Symbols -> Int] /\ \A s \in Symbols : wk[s] = WHOLE * k[s]
  <2>1. \A s \in Symbols : WHOLE * k[s] \in Int
    <3> HIDE DEF k
    <3> QED
      BY <1>2, Whole
  <2> QED
    BY <2>1
<1>4. g \in [Symbols -> Int] /\ Turnover(D) = Total(g)
  BY TurnoverType DEF Turnover
<1>5. rg \in [Symbols -> Int] /\ \A s \in Symbols : rg[s] = rate * g[s]
  <2>1. \A s \in Symbols : rate * g[s] \in Int
    <3> HIDE DEF g
    <3> QED
      BY <1>4
  <2> QED
    BY <2>1
<1>6. ASSUME NEW s \in Symbols PROVE wk[s] <= rg[s]
  <2>1. CASE s \in D
    <3> DEFINE x == Costs(orders[s].quantity, price[s], slippage)
               y == Gross(s)
    <3>1. wk[s] = WHOLE * x /\ rg[s] = rate * y
      BY <2>1
    <3>2. x * WHOLE <= Size(orders[s].quantity) * price[s] * rate
      BY <1>0, CostRate
    <3>3. Size(orders[s].quantity) * price[s] * rate = y * rate
      BY DEF Gross
    <3>4. x \in Nat /\ y \in Nat
      BY <1>1, TurnoverType
    <3> HIDE DEF x, y
    <3>5. WHOLE * x = x * WHOLE /\ rate * y = y * rate
      BY <3>4, Whole
    <3> QED
      BY <3>1, <3>2, <3>3, <3>5
  <2>2. CASE s \notin D
    <3>1. wk[s] = WHOLE * 0 /\ rg[s] = rate * 0
      BY <2>2
    <3>2. WHOLE * 0 = 0 /\ rate * 0 = 0
      BY Whole
    <3> QED
      BY <3>1, <3>2
  <2> QED
    BY <2>1, <2>2
<1>7. CostOf(D, slippage) = Total(c)
  BY DEF CostOf
<1> HIDE DEF c, k, wk, g, rg
<1>8. Total(c) \in Nat /\ Total(k) = Total(c)
  BY <1>2, TotalNat, TotalRestrict
<1>9. Total(wk) = WHOLE * Total(k) /\ Total(rg) = rate * Total(g) /\ Total(g) \in Int
  <2>1. Total(wk) = WHOLE * Total(k)
    BY <1>2, <1>3, Whole, TotalScale
  <2>2. rate \in Int
    OBVIOUS
  <2>3. Total(rg) = rate * Total(g) /\ Total(g) \in Int
    BY <1>4, <1>5, <2>2, TotalScale
  <2> QED
    BY <2>1, <2>3
<1>10. Total(wk) <= Total(rg)
  BY <1>3, <1>5, <1>6, TotalMonotone
<1> DEFINE C == Total(c)
           G == Total(g)
<1>11. C \in Nat /\ G \in Int /\ WHOLE * C <= rate * G
  BY <1>8, <1>9, <1>10
<1>12. CostOf(D, slippage) = C /\ Turnover(D) = G
  BY <1>4, <1>7
<1> HIDE DEF C, G
<1>13. WHOLE * C = C * WHOLE /\ rate * G = G * rate
  BY <1>11, Whole
<1> QED
  BY <1>11, <1>12, <1>13

\* What a plan orders leads near the weight.
LEMMA QuantityNear ==
  ASSUME Types, NAV > 0, NEW weights \in [Symbols -> 0..WHOLE], NEW s \in Symbols,
         price[s] > 0, Lot[s] > 0
  PROVE  LET rest == Deviation(weights, s) - Quantity(weights, s) * price[s]
         IN \/ Size(rest) * WHOLE <= THRESHOLD * NAV
            \/ Size(rest) <= Lot[s] * price[s]
            \/ rest > 0 /\ rest < MinNotional
<1> DEFINE d == Deviation(weights, s)
           q == Quantity(weights, s)
           p == price[s]
           l == Lot[s]
<1>1. d \in Int /\ NAV \in Int /\ p \in Nat /\ l \in Nat /\ MinNotional \in Nat
  BY NAVType, DeviationRange, Broker
<1>2. CASE ~Deviates(d)
  <2>1. s \notin Sold(weights)
    BY <1>2 DEF Sold
  <2>2. q = 0
    BY <1>2, <2>1 DEF Quantity
  <2>3. d - q * p = d
    <3> HIDE DEF d, q, p
    <3> QED
      BY <1>1, <2>2
  <2>4. Size(d) * WHOLE <= THRESHOLD * NAV
    <3>1. ~(Size(d) * WHOLE > THRESHOLD * NAV)
      BY <1>2 DEF Deviates
    <3>2. Size(d) \in Int
      <4> HIDE DEF d
      <4> QED
        BY <1>1 DEF Size
    <3> DEFINE x == Size(d)
    <3>3. x \in Int /\ ~(x * WHOLE > THRESHOLD * NAV)
      BY <3>1, <3>2
    <3> HIDE DEF x
    <3>4. x * WHOLE <= THRESHOLD * NAV
      BY <1>1, <3>3, Whole DEF THRESHOLD
    <3> QED
      BY <3>4 DEF x
  <2> HIDE DEF d, q, p
  <2> QED
    BY <2>3, <2>4 DEF d, q, p
<1>3. CASE Deviates(d) /\ d < 0
  <2> DEFINE x == SellQuantity(weights, s)
             r == (x + l) * p
  <2>1. q = -x
    BY <1>1, <1>3 DEF Quantity, Sold
  <2>2. x \in Nat /\ x * p <= -d /\ -d <= r
    BY <1>3, SellFacts
  <2> HIDE DEF d, q, p, l, x
  <2>3. r = x * p + l * p /\ (-x) * p = -(x * p) /\ x * p \in Int /\ l * p \in Int
    BY <1>1, <2>2
  <2> DEFINE y == x * p
             z == l * p
  <2>4. y \in Int /\ z \in Int /\ r = y + z /\ q * p = -y /\ y <= -d /\ -d <= r
    BY <2>1, <2>2, <2>3
  <2> HIDE DEF y, z, r
  <2>5. d - q * p = d + y /\ d + y <= 0 /\ -(d + y) <= z
    BY <1>1, <2>4
  <2>6. Size(d - q * p) <= z
    BY <1>1, <2>4, <2>5 DEF Size
  <2> QED
    BY <2>6 DEF d, q, p, l, z
<1>4. CASE Deviates(d) /\ d >= 0
  <2> DEFINE x == BuyQuantity(weights, s)
             r == (x + l) * p
  <2>1. d > 0
    <3>1. d # 0
      <4> SUFFICES ASSUME d = 0 PROVE FALSE
        OBVIOUS
      <4>1. Deviates(0)
        BY <1>4
      <4> QED
        BY <1>1, <4>1, Whole DEF Deviates, Size, THRESHOLD
    <3> HIDE DEF d
    <3> QED
      BY <1>1, <1>4, <3>1
  <2>2. q = x
    <3>1. s \notin Sold(weights)
      <4>1. ~(d < 0)
        <5> HIDE DEF d
        <5> QED
          BY <1>1, <1>4
      <4> QED
        BY <4>1 DEF Sold
    <3> QED
      BY <1>1, <1>4, <3>1 DEF Quantity
  <2>3. /\ x \in Nat /\ x * p <= d
        /\ x > 0 => d >= MinNotional
        /\ d >= MinNotional => d < r
    BY <2>1, BuyFacts
  <2> HIDE DEF d, q, p, l, x
  <2>4. r = x * p + l * p /\ x * p \in Int /\ l * p \in Int
    BY <1>1, <2>3
  <2>5. CASE d >= MinNotional
    <3> DEFINE y == x * p
               z == l * p
    <3>1. y \in Int /\ z \in Int /\ r = y + z /\ q * p = y /\ y <= d /\ d < r
      BY <2>2, <2>3, <2>4, <2>5
    <3> HIDE DEF y, z, r
    <3>2. Size(d - q * p) <= z
      BY <1>1, <3>1 DEF Size
    <3> QED
      BY <3>2 DEF d, q, p, l, z
  <2>6. CASE ~(d >= MinNotional)
    <3>1. x = 0
      BY <2>3, <2>6
    <3>2. d - q * p = d
      BY <1>1, <2>2, <3>1
    <3>3. d - q * p > 0 /\ d - q * p < MinNotional
      BY <1>1, <2>1, <2>6, <3>2
    <3> QED
      BY <3>3 DEF d, q, p
  <2> QED
    BY <2>5, <2>6
<1>5. Deviates(d) => d < 0 \/ d >= 0
  <2> HIDE DEF d
  <2> QED
    BY <1>1
<1> QED
  BY <1>2, <1>3, <1>4, <1>5

\* A plan on a full set of prices settles.
LEMMA SettlingPlan ==
  ASSUME Types, \A s \in Symbols : Lot[s] > 0, NEW rate \in Nat,
         NEW weights \in Targets, PlanOrders(weights)
  PROVE  Settling(rate)'
<1> SUFFICES ASSUME intact' PROVE /\ \A s \in Symbols : price'[s] > 0
                                  /\ Batch' # {} =>
                                       \E nav \in Nat, cost \in Nat :
                                         /\ nav > 0 /\ NAV' = nav - cost
                                         /\ cost * WHOLE <= Turnover(Filled)' * rate
                                         /\ \A s \in Symbols : Near(s, nav)'
  BY DEF Settling
<1>0. weights \in [Symbols -> 0..WHOLE]
  BY TargetRange
<1>1. /\ UNCHANGED <<cash, positions, price>> /\ target' = weights
      /\ \A s \in Symbols : price[s] > 0
      /\ \A s \in Symbols : /\ orders'[s].quantity = Quantity(weights, s)
                            /\ orders'[s].status
                                 = IF Quantity(weights, s) = 0 THEN "none" ELSE "pending"
  BY DEF PlanOrders, Planned
<1>2. NAV' = NAV /\ NAV \in Int
  BY <1>1, NAVType DEF NAV
<1>3. ASSUME Batch' # {} PROVE NAV > 0
  <2>1. PICK s \in Symbols : Quantity(weights, s) # 0
    BY <1>1, <1>3 DEF Batch
  <2> QED
    BY <1>0, <2>1, QuantityFacts
<1>4. Filled' = {}
  BY <1>1 DEF Filled
<1>5. Turnover(Filled)' = 0
  <2>1. Turnover(Filled)' = Total([s \in Symbols |-> 0])
    BY <1>4 DEF Turnover
  <2> QED
    BY <2>1, ZeroTotal
<1>6. ASSUME NAV > 0, NEW s \in Symbols PROVE Near(s, NAV)'
  <2> DEFINE d == Deviation(weights, s)
             q == Quantity(weights, s)
             p == price[s]
             h == positions[s]
             w == (weights[s] * NAV) \div WHOLE
  <2>1. q \in Int /\ h \in Int /\ p \in Int /\ d \in Int
    BY <1>0, <1>6, QuantityFacts, NAVType, DeviationRange DEF Types
  <2>2. Due(s)' = h + q
    <3>1. s \in Open' <=> q # 0
      BY <1>1 DEF Open
    <3>2. Due(s)' = h + (IF s \in Open' THEN q ELSE 0)
      BY <1>1 DEF Due
    <3> HIDE DEF q, h
    <3> QED
      BY <2>1, <3>1, <3>2
  <2>3. Rest(s, NAV)' = w - Due(s)' * p
    BY <1>1, <1>2 DEF Rest
  <2>4. d = w - h * p
    BY DEF Deviation
  <2>5. w \in Int
    <3>1. NAV \in Nat /\ weights[s] \in 0..WHOLE
      BY <1>0, <1>2, <1>6
    <3> QED
      BY <3>1, WeightRange
  <2>6. \/ Size(d - q * p) * WHOLE <= THRESHOLD * NAV
        \/ Size(d - q * p) <= Lot[s] * p
        \/ d - q * p > 0 /\ d - q * p < MinNotional
    BY <1>0, <1>1, <1>6, QuantityNear
  <2> HIDE DEF d, q, p, h, w
  <2>7. Rest(s, NAV)' = d - q * p
    <3>1. (h + q) * p = h * p + q * p /\ h * p \in Int /\ q * p \in Int
      BY <2>1
    <3> QED
      BY <2>2, <2>3, <2>4, <2>5, <3>1
  <2>8. price'[s] = p
    BY <1>1 DEF p
  <2> QED
    BY <1>2, <2>6, <2>7, <2>8 DEF Near
<1>7. ASSUME Batch' # {}
      PROVE  /\ NAV \in Nat /\ 0 \in Nat /\ NAV > 0 /\ NAV' = NAV - 0
             /\ 0 * WHOLE <= Turnover(Filled)' * rate
  BY <1>2, <1>3, <1>5, <1>7, Whole
<1>8. ASSUME Batch' # {}, NEW s \in Symbols PROVE Near(s, NAV)'
  BY <1>3, <1>6, <1>8
<1> QED
  BY <1>1, <1>2, <1>7, <1>8 DEF Near, Rest

\* So does every execution of its orders, at its prices.
LEMMA SettlingExecute ==
  ASSUME ~Resubmits, Types, Held, NEW rate \in Nat, Settling(rate),
         NEW approve_all \in BOOLEAN, NEW slippage \in Slippages, Within(slippage, rate),
         ExecuteOrders(approve_all, slippage)
  PROVE  Settling(rate)'
<1> SUFFICES ASSUME intact' PROVE /\ \A s \in Symbols : price'[s] > 0
                                  /\ Batch' # {} =>
                                       \E nav \in Nat, cost \in Nat :
                                         /\ nav > 0 /\ NAV' = nav - cost
                                         /\ cost * WHOLE <= Turnover(Filled)' * rate
                                         /\ \A s \in Symbols : Near(s, nav)'
  BY DEF Settling
<1> DEFINE D == Done(approve_all)
           C == CostOf(D, slippage)
<1>1. /\ D \in SUBSET Symbols /\ D \subseteq Open
      /\ \A s \in Symbols :
           /\ orders'[s].quantity = orders[s].quantity
           /\ s \in D => orders'[s].status = "filled"
           /\ s \notin D /\ price[s] > 0 => orders'[s].status = orders[s].status
           /\ orders'[s].status = "none" <=> orders[s].status = "none"
           /\ orders'[s].status = "filled" => orders[s].status = "filled" \/ s \in D
      /\ UNCHANGED <<price, target, intact>>
  BY ExecuteFacts
<1>2. positions' = [s \in Symbols |-> IF s \in D THEN positions[s] + orders[s].quantity
                                                 ELSE positions[s]]
  BY HeldExecute
<1>3. NAV' = NAV - C
  BY ExecuteNAV
<1>4. C \in Nat /\ C * WHOLE <= Turnover(D) * rate
  BY <1>1, CostOfTurnover
<1> HIDE DEF D, C
<1>5. /\ \A s \in Symbols : price[s] > 0
      /\ Batch # {} =>
           \E nav \in Nat, cost \in Nat :
             /\ nav > 0 /\ NAV = nav - cost
             /\ cost * WHOLE <= Turnover(Filled) * rate
             /\ \A s \in Symbols : Near(s, nav)
  BY <1>1 DEF Settling
<1>6. Batch' = Batch
  BY <1>1 DEF Batch
<1>7. /\ Filled' = Filled \cup D /\ Filled \cap D = {} /\ Filled \in SUBSET Symbols
      /\ Open' = Open \ D
  <2>1. \A s \in Symbols : s \in D => orders[s].status \in {"pending", "approved"}
    BY <1>1 DEF Open
  <2>2. \A s \in Symbols : s \notin D => orders'[s].status = orders[s].status
    BY <1>1, <1>5
  <2> QED
    BY <1>1, <2>1, <2>2 DEF Filled, Open
<1>8. Turnover(Filled)' = Turnover(Filled) + Turnover(D)
  <2>1. \A s \in Symbols : Gross(s)' = Gross(s)
    BY <1>1 DEF Gross
  <2>2. Turnover(Filled)' = Turnover(Filled \cup D)
    BY <1>7, <2>1 DEF Turnover
  <2> QED
    BY <1>1, <1>7, <2>2, TurnoverAdd
<1>9. ASSUME NEW s \in Symbols PROVE Due(s)' = Due(s)
  <2>1. positions[s] \in Int /\ orders[s].quantity \in Int
    BY DEF Types
  <2>2. Due(s)' = positions'[s] + (IF s \in Open' THEN orders[s].quantity ELSE 0)
    BY <1>1 DEF Due
  <2>3. CASE s \in D
    <3>1. s \in Open /\ s \notin Open'
      BY <1>1, <1>7, <2>3
    <3>2. positions'[s] = positions[s] + orders[s].quantity
      BY <1>2, <2>3
    <3> QED
      BY <2>1, <2>2, <3>1, <3>2 DEF Due
  <2>4. CASE s \notin D
    <3>1. s \in Open <=> s \in Open'
      BY <1>7, <2>4
    <3>2. positions'[s] = positions[s]
      BY <1>2, <2>4
    <3> QED
      BY <2>2, <3>1, <3>2 DEF Due
  <2> QED
    BY <2>3, <2>4
<1>10. ASSUME NEW nav, NEW s \in Symbols, Near(s, nav)
       PROVE  Near(s, nav)'
  <2>1. Rest(s, nav)' = Rest(s, nav)
    BY <1>1, <1>9 DEF Rest
  <2> QED
    BY <1>1, <1>10, <2>1 DEF Near
<1>11. ASSUME Batch' # {}
       PROVE  \E nav \in Nat, cost \in Nat :
                /\ nav > 0 /\ NAV' = nav - cost
                /\ cost * WHOLE <= Turnover(Filled)' * rate
                /\ \A s \in Symbols : Near(s, nav)'
  <2>1. PICK nav \in Nat, cost \in Nat :
          /\ nav > 0 /\ NAV = nav - cost
          /\ cost * WHOLE <= Turnover(Filled) * rate
          /\ \A s \in Symbols : Near(s, nav)
    BY <1>5, <1>6, <1>11
  <2>2. NAV' = nav - (cost + C) /\ cost + C \in Nat
    BY <1>3, <1>4, <2>1
  <2>3. (cost + C) * WHOLE <= Turnover(Filled)' * rate
    <3> DEFINE F == Turnover(Filled)
               G == Turnover(D)
    <3>1. F \in Int /\ G \in Int
      BY <1>1, <1>7, TurnoverType
    <3>2. cost * WHOLE <= F * rate /\ C * WHOLE <= G * rate /\ Turnover(Filled)' = F + G
      BY <1>4, <1>8, <2>1
    <3> HIDE DEF F, G
    <3>3. (cost + C) * WHOLE = cost * WHOLE + C * WHOLE /\ (F + G) * rate = F * rate + G * rate
      BY <1>4, <3>1, Whole
    <3>4. cost * WHOLE \in Int /\ C * WHOLE \in Int /\ F * rate \in Int /\ G * rate \in Int
      BY <1>4, <3>1, Whole
    <3> QED
      BY <3>2, <3>3, <3>4
  <2>4. \A s \in Symbols : Near(s, nav)'
    BY <1>10, <2>1
  <2> QED
    BY <2>1, <2>2, <2>3, <2>4
<1> QED
  BY <1>1, <1>5, <1>11

LEMMA SettlingSame ==
  ASSUME NEW rate \in Nat, Settling(rate), UNCHANGED <<cash, positions, price, target, intact>>,
         Types, Types',
         \A s \in Symbols : /\ orders'[s].quantity = orders[s].quantity
                            /\ s \in Open' <=> s \in Open
                            /\ s \in Filled' <=> s \in Filled
                            /\ s \in Batch' <=> s \in Batch
  PROVE  Settling(rate)'
<1>1. Open' = Open /\ Filled' = Filled /\ Batch' = Batch
  BY DEF Open, Filled, Batch
<1>2. \A s \in Symbols : Due(s)' = Due(s) /\ Gross(s)' = Gross(s)
  BY <1>1 DEF Due, Gross
<1>3. Turnover(Filled)' = Turnover(Filled) /\ NAV' = NAV
  BY <1>1, <1>2 DEF Turnover, NAV
<1>4. \A s \in Symbols : \A nav : Near(s, nav)' <=> Near(s, nav)
  BY <1>2 DEF Near, Rest
<1> QED
  BY <1>1, <1>3, <1>4 DEF Settling

LEMMA SettlingStep ==
  ASSUME ~Resubmits, \A s \in Symbols : Lot[s] > 0,
         NEW rate \in Nat, \A slippage \in Slippages : Within(slippage, rate),
         Types, Held, Settling(rate), [Next]_vars
  PROVE  Settling(rate)'
<1>1. ASSUME NEW weights \in Targets, PlanOrders(weights) PROVE Settling(rate)'
  BY <1>1, SettlingPlan
<1>2. ASSUME NEW s \in Symbols, Approve(s) PROVE Settling(rate)'
  <2>1. UNCHANGED <<cash, positions, price, target, intact>>
    BY <1>2 DEF Approve
  <2>2. \A t \in Symbols : /\ orders'[t].quantity = orders[t].quantity
                           /\ t \in Open' <=> t \in Open
                           /\ t \in Filled' <=> t \in Filled
                           /\ t \in Batch' <=> t \in Batch
    BY <1>2 DEF Approve, Types, Open, Filled, Batch
  <2> QED
    BY <2>1, <2>2, TypesStep, SettlingSame
<1>3. ASSUME NEW quotes \in Prices, MovePrices(quotes) PROVE Settling(rate)'
  BY <1>3 DEF MovePrices, Settling
<1>4. ASSUME NEW approve_all \in BOOLEAN, NEW slippage \in Slippages,
             ExecuteOrders(approve_all, slippage)
      PROVE  Settling(rate)'
  BY <1>4, SettlingExecute
<1>5. CASE UNCHANGED vars
  <2>1. UNCHANGED <<cash, positions, price, target, intact, orders>>
    BY <1>5 DEF vars
  <2>2. Open' = Open /\ Filled' = Filled /\ Batch' = Batch
    BY <2>1 DEF Open, Filled, Batch
  <2> QED
    BY <2>1, <2>2, TypesStep, SettlingSame
<1> QED
  BY <1>1, <1>2, <1>3, <1>4, <1>5 DEF Next

\* Costs move the weight of a symbol by no more than themselves.
LEMMA WeightMoves ==
  ASSUME NEW bps \in 0..WHOLE, NEW n \in Nat, NEW m \in Nat, NEW c \in Nat, n = m - c
  PROVE  LET a == (bps * n) \div WHOLE
             b == (bps * m) \div WHOLE
         IN a \in Int /\ b \in Int /\ a <= b /\ b <= a + c
<1> DEFINE x == bps * n
           y == bps * m
           a == x \div WHOLE
           b == y \div WHOLE
           z == c * WHOLE
<1>1. bps \in Nat /\ bps <= WHOLE
  BY Whole
<1>2. x \in Int /\ y \in Int /\ z \in Int
  BY <1>1, Whole
<1>3. x <= y /\ y <= x + z
  <2>1. bps * m = bps * n + bps * c /\ bps * c \in Nat
    BY <1>1
  <2>2. bps * c <= WHOLE * c
    BY <1>1, Whole, MulMono
  <2>3. WHOLE * c = z
    BY Whole
  <2> HIDE DEF z
  <2>4. bps * n \in Int
    BY <1>1
  <2> QED
    BY <1>2, <2>1, <2>2, <2>3, <2>4
<1>4. a \in Int /\ b \in Int /\ a * WHOLE <= x /\ x < a * WHOLE + WHOLE
      /\ b * WHOLE <= y /\ y < b * WHOLE + WHOLE
  <2> HIDE DEF x, y
  <2> QED
    BY <1>2, Whole, DivRange, Zenon
<1> HIDE DEF a, b, x, y
<1>5. a <= b
  <2>1. a * WHOLE \in Int /\ b * WHOLE \in Int
    BY <1>4, Whole
  <2>2. a * WHOLE <= y
    BY <1>2, <1>3, <1>4, <2>1
  <2>3. a <= y \div WHOLE
    BY <1>2, <1>4, <2>2, Whole, DivFloor, Zenon
  <2> QED
    BY <2>3 DEF b
<1>6. b <= a + c
  <2>1. SUFFICES ASSUME a + c + 1 <= b PROVE FALSE
    BY <1>4
  <2>2. (a + c + 1) * WHOLE <= b * WHOLE /\ (a + c + 1) * WHOLE \in Int /\ b * WHOLE \in Int
    BY <1>4, <2>1, Whole, MulMono
  <2>3. (a + c + 1) * WHOLE = a * WHOLE + z + WHOLE
    BY <1>4, Whole
  <2>4. a * WHOLE \in Int /\ WHOLE \in Int
    BY <1>4, Whole
  <2> HIDE DEF z
  <2> QED
    BY <1>2, <1>3, <1>4, <2>2, <2>3, <2>4
<1> QED
  BY <1>4, <1>5, <1>6 DEF a, b, x, y

\* At the rate, the batch costs 0.2% of the NAV at most.
Lean(rate) == Turnover(Batch) * rate * (WHOLE + THRESHOLD) <= THRESHOLD * NAV * WHOLE

\* What costs of a lean batch and a deviation that was near the weight before them
\* leave to trade.
LEMMA Leftover ==
  ASSUME NEW nav \in Nat, NEW cost \in Nat, NEW n \in Nat, n = nav - cost,
         cost * (WHOLE + THRESHOLD) <= THRESHOLD * n
  PROVE  /\ cost * WHOLE <= THRESHOLD * n
         /\ THRESHOLD * nav <= 2 * THRESHOLD * n
         /\ THRESHOLD * nav + cost * WHOLE <= 2 * THRESHOLD * n
  BY DEF WHOLE, THRESHOLD

\* The last plan, made again.
LEMMA AgainSmall ==
  ASSUME Types, NEW nav \in Nat, NEW cost \in Nat, NAV = nav - cost, NAV > 0,
         cost * (WHOLE + THRESHOLD) <= THRESHOLD * NAV,
         NEW s \in Symbols, s \notin Open, Near(s, nav), price[s] > 0, Lot[s] > 0
  PROVE  LET again == Size(Quantity(target, s))
         IN again <= Lot[s] \/ again * price[s] * WHOLE <= 2 * THRESHOLD * NAV
<1> DEFINE q == Quantity(target, s)
           d == Deviation(target, s)
           g == Rest(s, nav)
           p == price[s]
           l == Lot[s]
           h == positions[s] * p
           a == (target[s] * NAV) \div WHOLE
           b == (target[s] * nav) \div WHOLE
           most == 2 * THRESHOLD * NAV
           lp == l * p
<1>1. target \in [Symbols -> 0..WHOLE] /\ NAV \in Nat /\ p \in Nat \ {0} /\ l \in Nat \ {0}
      /\ MinNotional \in Nat /\ positions[s] \in Nat
  BY NAVType, Broker DEF Types
<1>2. /\ q \in Int /\ InLots(s, q)
      /\ q > 0 => d > 0 /\ q * p <= d
      /\ q < 0 => d < 0 /\ (-q) * p <= -d
  BY <1>1, QuantityFacts
<1>3. q > 0 => d >= MinNotional
  <2> SUFFICES ASSUME q > 0 PROVE d >= MinNotional
    OBVIOUS
  <2>1. d > 0
    BY <1>2
  <2>2. s \notin Sold(target)
    <3>1. ~(d < 0)
      <4>1. d \in Int
        BY <1>1, DeviationRange
      <4> HIDE DEF d
      <4> QED
        BY <2>1, <4>1
    <3> QED
      BY <3>1 DEF Sold
  <2>3. Deviates(d)
    <3> SUFFICES ASSUME ~Deviates(d) PROVE FALSE
      OBVIOUS
    <3>1. q = 0
      BY <2>2 DEF Quantity
    <3> QED
      BY <3>1
  <2>4. q = BuyQuantity(target, s)
    BY <1>1, <2>2, <2>3 DEF Quantity
  <2> QED
    BY <1>1, <2>1, <2>4, BuyFacts
<1>4. a \in Int /\ b \in Int /\ a <= b /\ b <= a + cost
  <2>1. target[s] \in 0..WHOLE
    BY <1>1
  <2> QED
    BY <1>1, <2>1, WeightMoves
<1>5. d = a - h /\ g = b - h /\ h \in Int
  <2>1. Due(s) = positions[s]
    BY <1>1 DEF Due
  <2>2. h \in Int
    BY <1>1
  <2> QED
    BY <2>1, <2>2 DEF Deviation, Rest
<1>6. \/ Size(g) * WHOLE <= THRESHOLD * nav
      \/ Size(g) <= lp
      \/ g > 0 /\ g < MinNotional
  BY DEF Near
<1>7. /\ cost * WHOLE <= THRESHOLD * NAV
      /\ THRESHOLD * nav <= most
      /\ THRESHOLD * nav + cost * WHOLE <= most
  BY <1>1, Leftover
<1>8. lp \in Nat /\ most \in Int /\ THRESHOLD * NAV \in Int /\ most = 2 * (THRESHOLD * NAV)
      /\ THRESHOLD * nav \in Int /\ cost * WHOLE \in Nat
  BY <1>1, Whole DEF THRESHOLD
<1> HIDE DEF q, d, g, h, a, b, most, p
<1>9. d \in Int /\ g \in Int /\ d <= g /\ g <= d + cost
  BY <1>4, <1>5
<1>10. CASE q = 0
  <2>1. Size(q) = 0
    BY <1>10 DEF Size
  <2> QED
    BY <1>1, <2>1 DEF q, l
<1>11. CASE q > 0
  <2>1. Size(q) = q /\ q * p <= d /\ d >= MinNotional /\ q * p \in Int /\ d > 0
    BY <1>1, <1>2, <1>3, <1>11 DEF Size
  <2>2. g > 0 /\ Size(g) = g /\ q * p <= g
    BY <1>9, <2>1 DEF Size
  <2>3. CASE g * WHOLE <= THRESHOLD * nav
    <3>1. (q * p) * WHOLE <= g * WHOLE /\ (q * p) * WHOLE \in Int /\ g * WHOLE \in Int
      BY <1>9, <2>1, <2>2, Whole, MulMono
    <3>2. (q * p) * WHOLE <= most
      BY <1>7, <1>8, <2>3, <3>1
    <3> QED
      BY <2>1, <3>2 DEF q, p, most
  <2>4. CASE g <= lp
    <3>1. SUFFICES ASSUME l + 1 <= q PROVE FALSE
      <4>1. q <= l
        BY <1>1, <1>2, <3>1
      <4> QED
        BY <2>1, <4>1 DEF q, l
    <3> HIDE DEF l, lp
    <3>2. (l + 1) * p <= q * p /\ (l + 1) * p \in Int
      BY <1>1, <1>2, <3>1, MulMono
    <3>3. (l + 1) * p = lp + p
      BY <1>1 DEF lp
    <3> QED
      BY <1>1, <1>8, <1>9, <2>1, <2>2, <2>4, <3>2, <3>3
  <2>5. CASE g > 0 /\ g < MinNotional
    BY <1>1, <1>9, <2>1, <2>5
  <2> QED
    BY <1>6, <2>2, <2>3, <2>4, <2>5
<1>12. CASE q < 0
  <2> DEFINE x == -q
  <2>1. x \in Nat /\ Size(q) = x /\ x * p <= -d /\ x * p \in Int /\ x > 0
    BY <1>1, <1>2, <1>12 DEF Size
  <2>2. \E k \in Int : x = k * l
    <3>1. PICK k \in Int : q = k * Lot[s]
      BY <1>2 DEF InLots
    <3>2. -q = (-k) * l /\ -k \in Int
      BY <1>1, <3>1
    <3> QED
      BY <3>2
  <2> HIDE DEF x
  <2>3. x * p <= cost - g
    BY <1>9, <2>1
  <2> DEFINE xp == x * p
             cw == cost * WHOLE
  <2>4. xp * WHOLE \in Int /\ cw \in Nat
    BY <1>8, <2>1, Whole
  <2>5. SUFFICES x <= l \/ xp * WHOLE <= most
    BY <2>1 DEF q, l, p, most
  <2>6. CASE g >= 0
    <3>1. xp \in Int /\ xp <= cost
      BY <1>9, <2>1, <2>3, <2>6
    <3> HIDE DEF xp
    <3>2. xp * WHOLE <= cw
      BY <3>1, Whole, MulMono
    <3> HIDE DEF cw
    <3> QED
      BY <1>1, <1>7, <1>8, <2>4, <3>2 DEF cw
  <2>7. CASE g < 0 /\ Size(g) * WHOLE <= THRESHOLD * nav
    <3>1. Size(g) = -g
      BY <1>9, <2>7 DEF Size
    <3>2. xp \in Int /\ xp <= cost + -g
      BY <1>9, <2>1, <2>3
    <3> HIDE DEF xp
    <3>3. xp * WHOLE <= (cost + -g) * WHOLE
      BY <1>9, <3>2, Whole, MulMono
    <3>4. (cost + -g) * WHOLE = cw + (-g) * WHOLE /\ (-g) * WHOLE \in Int
      BY <1>9, Whole
    <3>5. (-g) * WHOLE <= THRESHOLD * nav
      BY <2>7, <3>1
    <3>6. cw + THRESHOLD * nav <= most
      BY <1>7, <1>8
    <3> HIDE DEF cw
    <3> QED
      BY <1>8, <2>4, <3>3, <3>4, <3>5, <3>6
  <2>8. CASE g < 0 /\ Size(g) <= lp
    <3>1. Size(g) = -g
      BY <1>9, <2>8 DEF Size
    <3>2. SUFFICES ASSUME l + 1 <= x PROVE xp * WHOLE <= most
      BY <1>1, <2>1
    <3>3. 2 * l <= x
      <4>1. PICK k \in Int : x = k * l
        BY <2>2
      <4>2. k >= 2
        <5>1. SUFFICES ASSUME k <= 1 PROVE FALSE
          BY <4>1
        <5> HIDE DEF l
        <5>2. k * l <= 1 * l
          BY <1>1, <5>1, MulMono
        <5>3. 1 * l = l
          BY <1>1
        <5> QED
          BY <1>1, <2>1, <3>2, <4>1, <5>2, <5>3
      <4> HIDE DEF l
      <4> QED
        BY <1>1, <4>1, <4>2, MulMono
    <3>4. 2 * lp <= xp
      <4> HIDE DEF l
      <4>1. (2 * l) * p <= x * p
        BY <1>1, <2>1, <3>3, MulMono
      <4>2. (2 * l) * p = 2 * (l * p)
        BY <1>1
      <4> QED
        BY <4>1, <4>2 DEF l
    <3> HIDE DEF l, lp
    <3>5. xp \in Int /\ xp <= 2 * cost
      BY <1>8, <1>9, <2>1, <2>3, <2>8, <3>1, <3>4
    <3> HIDE DEF xp
    <3>6. xp * WHOLE <= (2 * cost) * WHOLE /\ (2 * cost) * WHOLE = 2 * cw
      BY <3>5, Whole, MulMono
    <3>7. 2 * cw <= most
      BY <1>7, <1>8
    <3> HIDE DEF cw
    <3> QED
      BY <1>8, <2>4, <3>6, <3>7
  <2> QED
    BY <1>6, <1>9, <2>6, <2>7, <2>8
<1> QED
  BY <1>2, <1>10, <1>11, <1>12

\* After a lean batch was filled, costs and deviations are those of the plan.
LEMMA ExecutedFacts ==
  ASSUME Types, NEW rate \in Nat, Settling(rate), Lean(rate), Executed
  PROVE  /\ NAV > 0 /\ \A s \in Symbols : price[s] > 0 /\ s \notin Open
         /\ \E nav \in Nat, cost \in Nat :
              /\ NAV = nav - cost /\ cost * (WHOLE + THRESHOLD) <= THRESHOLD * NAV
              /\ \A s \in Symbols : Near(s, nav)
<1>1. /\ intact /\ Batch # {} /\ Filled = Batch /\ \A s \in Symbols : s \notin Open
  BY DEF Executed, Filled, Batch, Open
<1>2. /\ \A t \in Symbols : price[t] > 0
      /\ \E nav \in Nat, cost \in Nat :
           /\ nav > 0 /\ NAV = nav - cost
           /\ cost * WHOLE <= Turnover(Filled) * rate
           /\ \A t \in Symbols : Near(t, nav)
  BY <1>1 DEF Settling
<1>3. PICK nav \in Nat, cost \in Nat :
        /\ nav > 0 /\ NAV = nav - cost
        /\ cost * WHOLE <= Turnover(Filled) * rate
        /\ \A t \in Symbols : Near(t, nav)
  BY <1>2
<1> DEFINE T == Turnover(Filled)
<1>4. T \in Int /\ NAV \in Int /\ T * rate * (WHOLE + THRESHOLD) <= THRESHOLD * NAV * WHOLE
  <2>1. Filled \in SUBSET Symbols
    BY DEF Filled
  <2> QED
    BY <1>1, <2>1, NAVType, TurnoverType DEF Lean
<1> HIDE DEF T
<1>5. cost * (WHOLE + THRESHOLD) <= THRESHOLD * NAV
  <2> DEFINE y == T * rate
             n == NAV
  <2>1. y \in Int /\ n \in Int /\ cost * WHOLE <= y
        /\ y * (WHOLE + THRESHOLD) <= THRESHOLD * n * WHOLE
    BY <1>3, <1>4 DEF T
  <2> HIDE DEF y, n
  <2>2. cost * (WHOLE + THRESHOLD) <= THRESHOLD * n
    BY <2>1 DEF WHOLE, THRESHOLD
  <2> QED
    BY <2>2 DEF n
<1>6. NAV > 0
  <2> SUFFICES ASSUME NAV <= 0 PROVE FALSE
    BY <1>4
  <2> DEFINE n == NAV
  <2>1. n \in Int /\ n <= 0 /\ n = nav - cost /\ nav > 0
        /\ cost * (WHOLE + THRESHOLD) <= THRESHOLD * n
    BY <1>3, <1>4, <1>5
  <2> HIDE DEF n
  <2> QED
    BY <2>1 DEF WHOLE, THRESHOLD
<1> QED
  BY <1>1, <1>2, <1>3, <1>5, <1>6

\* Through plans, approvals, executions and moves of the market.
LEMMA SettlingInvariant ==
  ASSUME ~Resubmits, \A s \in Symbols : Lot[s] > 0,
         NEW rate \in Nat, \A slippage \in Slippages : Within(slippage, rate)
  PROVE  DeskSpec => [](Types /\ Settling(rate))
<1>1. Init => Settling(rate)
  BY DEF Init, Settling
<1>2. Types /\ Held /\ Settling(rate) /\ [Next]_vars => Settling(rate)'
  BY SettlingStep
<1> QED
  BY <1>1, <1>2, HeldInvariant, DeskImplementsBroker, PTL DEF Spec

\* A rebalance settles: planned again after its execution, the same target asks for a
\* lot or twice the threshold at most (broker.py:119), if the costs of its batch are
\* within 0.2% of the NAV.  At the default slippage and commission (rate 9) they are
\* for every batch that turns over twice the NAV, which is as much as a broker
\* without debt can.
THEOREM ChurnEnds ==
  ASSUME ~Resubmits, \A s \in Symbols : Lot[s] > 0,
         NEW rate \in Nat, \A slippage \in Slippages : Within(slippage, rate)
  PROVE  DeskSpec => [](Lean(rate) => NoChurn)
<1>1. Types /\ Settling(rate) => (Lean(rate) => NoChurn)
  <2> SUFFICES ASSUME Types, Settling(rate), Lean(rate), Executed, NEW s \in Symbols
               PROVE  LET again == Size(Planned(target)[s].quantity)
                      IN again <= Lot[s] \/ again * price[s] * WHOLE <= 2 * THRESHOLD * NAV
    BY DEF NoChurn
  <2>1. /\ NAV > 0 /\ price[s] > 0 /\ s \notin Open
        /\ \E nav \in Nat, cost \in Nat :
             /\ NAV = nav - cost /\ cost * (WHOLE + THRESHOLD) <= THRESHOLD * NAV
             /\ \A t \in Symbols : Near(t, nav)
    BY ExecutedFacts
  <2>2. PICK nav \in Nat, cost \in Nat :
          /\ NAV = nav - cost /\ cost * (WHOLE + THRESHOLD) <= THRESHOLD * NAV
          /\ \A t \in Symbols : Near(t, nav)
    BY <2>1
  <2>3. Size(Planned(target)[s].quantity) = Size(Quantity(target, s))
    BY DEF Planned
  <2> QED
    BY <2>1, <2>2, <2>3, AgainSmall
<1> QED
  BY <1>1, SettlingInvariant, PTL

-----------------------------------------------------------------------------
(* A quiet monitor *)

\* The most a lean batch leaves a symbol off its weight by.
Leaves(s) ==
  Greatest(Greatest(MinNotional, Lot[s] * price[s]), (THRESHOLD * NAV) \div WHOLE)
  + (THRESHOLD * NAV) \div WHOLE + 1

\* Least orders and lots are small enough for the limits of the monitor, for each
\* symbol and for all of them together.
Fine ==
  /\ \A s \in Symbols : ~Beyond(Leaves(s), POSITION_LIMIT)
  /\ ~Beyond(Total([s \in Symbols |-> Leaves(s)]), TOTAL_LIMIT)

LEMMA GapSmall ==
  ASSUME Types, NEW nav \in Nat, NEW cost \in Nat, NAV = nav - cost, NAV > 0,
         cost * (WHOLE + THRESHOLD) <= THRESHOLD * NAV,
         NEW s \in Symbols, s \notin Open, Near(s, nav)
  PROVE  Gap(s) \in Int /\ Leaves(s) \in Int /\ Size(Gap(s)) <= Leaves(s)
<1> DEFINE d == Deviation(target, s)
           g == Rest(s, nav)
           h == positions[s] * price[s]
           a == (target[s] * NAV) \div WHOLE
           b == (target[s] * nav) \div WHOLE
           lp == Lot[s] * price[s]
           tn == THRESHOLD * NAV
           k == tn \div WHOLE
           most == Leaves(s)
<1>1. target \in [Symbols -> 0..WHOLE] /\ NAV \in Nat /\ price[s] \in Nat /\ Lot[s] \in Nat
      /\ MinNotional \in Nat /\ positions[s] \in Nat
  BY NAVType, Broker DEF Types
<1>2. a \in Int /\ b \in Int /\ a <= b /\ b <= a + cost
  <2>1. target[s] \in 0..WHOLE
    BY <1>1
  <2> QED
    BY <1>1, <2>1, WeightMoves
<1>3. g = b - h /\ h \in Int /\ Gap(s) = h - a
  <2>1. Due(s) = positions[s]
    BY <1>1 DEF Due
  <2>2. h \in Int
    BY <1>1
  <2> QED
    BY <2>1, <2>2 DEF Gap, Rest
<1>4. lp \in Nat /\ tn \in Nat
  <2>1. lp \in Nat
    BY <1>1
  <2> DEFINE n == NAV
  <2>2. n \in Nat
    BY <1>1
  <2> HIDE DEF n
  <2>3. THRESHOLD * n \in Nat
    BY <2>2 DEF THRESHOLD
  <2> QED
    BY <2>1, <2>3 DEF n
<1>5. /\ cost * WHOLE <= tn /\ THRESHOLD * nav + cost * WHOLE <= 2 * tn
  <2>1. /\ cost * WHOLE <= tn
        /\ THRESHOLD * nav + cost * WHOLE <= 2 * THRESHOLD * NAV
    BY <1>1, Leftover
  <2>2. 2 * THRESHOLD * NAV = 2 * (THRESHOLD * NAV)
    BY <1>1 DEF THRESHOLD
  <2> QED
    BY <2>1, <2>2
<1>6. \/ Size(g) * WHOLE <= THRESHOLD * nav
      \/ Size(g) <= lp
      \/ g > 0 /\ g < MinNotional
  BY DEF Near
<1>7. most = Greatest(Greatest(MinNotional, lp), k) + k + 1
  BY DEF Leaves
<1> HIDE DEF d, g, h, a, b, lp, tn, most
<1>8. k \in Int /\ tn < k * WHOLE + WHOLE /\ k >= 0
  <2>1. k \in Int /\ tn < k * WHOLE + WHOLE
    BY <1>4, Whole, DivRange
  <2>2. 0 * WHOLE <= tn /\ 0 \in Int /\ tn \in Int
    BY <1>4, Whole
  <2>3. 0 <= k
    BY <2>2, Whole, DivFloor, Zenon
  <2> HIDE DEF k
  <2> QED
    BY <2>1, <2>3
<1> HIDE DEF k
<1>9. cost <= k
  <2>1. SUFFICES ASSUME k + 1 <= cost PROVE FALSE
    BY <1>8
  <2> QED
    BY <1>4, <1>5, <1>8, <2>1 DEF WHOLE
<1>10. /\ most \in Int /\ MinNotional + k + 1 <= most /\ lp + k + 1 <= most
       /\ k + k + 1 <= most
  BY <1>1, <1>4, <1>7, <1>8 DEF Greatest
<1>11. Gap(s) \in Int /\ g \in Int /\ -g <= Gap(s) /\ Gap(s) <= cost - g
  BY <1>2, <1>3
<1> DEFINE z == Gap(s)
<1>12. Size(g) \in Nat /\ Size(z) \in Nat /\ Size(z) <= Size(g) + cost
  <2> HIDE DEF z
  <2> QED
    BY <1>11 DEF Size, z
<1>13. Size(z) <= most
  <2>1. CASE Size(g) <= lp
    BY <1>4, <1>8, <1>9, <1>10, <1>12, <2>1
  <2>2. CASE g > 0 /\ g < MinNotional
    <3>1. Size(g) = g
      BY <1>11, <2>2 DEF Size
    <3> QED
      BY <1>1, <1>8, <1>9, <1>10, <1>11, <1>12, <2>2, <3>1
  <2>3. CASE Size(g) * WHOLE <= THRESHOLD * nav
    <3> DEFINE x == Size(g)
               y == x + cost
    <3>1. x \in Nat /\ x * WHOLE <= THRESHOLD * nav
      BY <1>12, <2>3
    <3> HIDE DEF x
    <3>2. y \in Nat /\ y * WHOLE <= 2 * tn
      <4>1. y * WHOLE = x * WHOLE + cost * WHOLE /\ x * WHOLE \in Int /\ cost * WHOLE \in Int
        BY <3>1, Whole
      <4>2. THRESHOLD * nav \in Int
        BY DEF THRESHOLD
      <4> HIDE DEF y
      <4>3. y * WHOLE <= 2 * tn
        BY <1>4, <1>5, <3>1, <4>1, <4>2
      <4> QED
        BY <3>1, <4>3 DEF y
    <3> HIDE DEF y
    <3>3. y <= k + k + 1
      BY <1>4, <1>8, <3>2 DEF WHOLE
    <3>4. Size(z) <= y
      BY <1>12 DEF x, y
    <3> HIDE DEF z
    <3> QED
      BY <1>8, <1>10, <1>12, <3>2, <3>3, <3>4
  <2> QED
    BY <1>6, <2>1, <2>2, <2>3
<1> QED
  BY <1>10, <1>11, <1>13 DEF most

\* A plan executed in full at its prices leaves the monitor nothing to report about
\* the positions (reconciliation.py:118), if its costs are within 0.2% of the NAV and
\* least orders, lots and the 0.2% that nobody trades keep to the limits together.
THEOREM QuietIfFine ==
  ASSUME ~Resubmits, \A s \in Symbols : Lot[s] > 0,
         NEW rate \in Nat, \A slippage \in Slippages : Within(slippage, rate)
  PROVE  DeskSpec => [](Lean(rate) /\ Fine => QuietWhenExecuted)
<1>1. Types /\ Settling(rate) => (Lean(rate) /\ Fine => QuietWhenExecuted)
  <2> SUFFICES ASSUME Types, Settling(rate), Lean(rate), Fine, Executed
               PROVE  PositionAlerts = {}
    BY DEF QuietWhenExecuted
  <2>1. /\ NAV > 0 /\ \A s \in Symbols : price[s] > 0 /\ s \notin Open
        /\ \E nav \in Nat, cost \in Nat :
             /\ NAV = nav - cost /\ cost * (WHOLE + THRESHOLD) <= THRESHOLD * NAV
             /\ \A s \in Symbols : Near(s, nav)
    BY ExecutedFacts
  <2>2. PICK nav \in Nat, cost \in Nat :
          /\ NAV = nav - cost /\ cost * (WHOLE + THRESHOLD) <= THRESHOLD * NAV
          /\ \A s \in Symbols : Near(s, nav)
    BY <2>1
  <2>3. \A s \in Symbols : Gap(s) \in Int /\ Leaves(s) \in Int /\ Size(Gap(s)) <= Leaves(s)
    BY <2>1, <2>2, GapSmall
  <2>4. \A s \in Symbols : Size(Gap(s)) \in Int
    BY <2>3 DEF Size
  <2> DEFINE f == [s \in Symbols |-> Size(Gap(s))]
             m == [s \in Symbols |-> Leaves(s)]
             n == (POSITION_LIMIT * NAV) \div WHOLE
             all == (TOTAL_LIMIT * NAV) \div WHOLE
  <2>5. n \in Int /\ all \in Int
    <3>1. POSITION_LIMIT * NAV \in Int /\ TOTAL_LIMIT * NAV \in Int
      BY NAVType DEF POSITION_LIMIT, TOTAL_LIMIT
    <3> QED
      BY <3>1, Whole, DivRange, Zenon
  <2>6. f \in [Symbols -> Int] /\ m \in [Symbols -> Int] /\ \A s \in Symbols : f[s] <= m[s]
    BY <2>3, <2>4
  <2>7. \A s \in Symbols : ~(Leaves(s) > n)
    BY DEF Fine, Beyond
  <2>8. ~(Total(m) > all)
    BY DEF Fine, Beyond
  <2> HIDE DEF f, m, n, all
  <2>9. Total(f) <= Total(m) /\ Total(f) \in Int /\ Total(m) \in Int
    <3>1. Symbols \in SUBSET Symbols
      OBVIOUS
    <3> QED
      BY <2>6, <3>1, TotalMonotone, TotalType
  <2>10. ~(Total(f) > all)
    BY <2>5, <2>8, <2>9
  <2>11. ~Beyond(TotalGap, TOTAL_LIMIT)
    BY <2>10 DEF TotalGap, Beyond, f, all
  <2>12. \A s \in Symbols : ~(Size(Gap(s)) > n)
    BY <2>3, <2>4, <2>5, <2>7
  <2>13. \A s \in Symbols : ~Beyond(Size(Gap(s)), POSITION_LIMIT)
    BY <2>12 DEF Beyond, n
  <2> QED
    BY <2>1, <2>11, <2>13 DEF PositionAlerts, Off
<1> QED
  BY <1>1, SettlingInvariant, PTL
=============================================================================

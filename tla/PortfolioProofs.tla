--------------------------- MODULE PortfolioProofs ---------------------------
(***************************************************************************)
(* Proofs about the portfolio package.  RiskOverlay: for every set of      *)
(* drawdowns and every recovery step.  CapitalManager: for all currencies, *)
(* pools, amounts, targets, steps and rates of interest.                   *)
(* AllocationPolicy: for all symbols, bounds, sleeves, limits and wishes.  *)
(***************************************************************************)
EXTENDS RiskOverlay, CapitalManager, AllocationPolicy, Sums, TLAPS

-----------------------------------------------------------------------------
(* The risk overlay *)

\* Outside the full-risk state, the calm updates seen since the last drawdown
\* and the cooldown still to run add up to the whole cooldown.
CooldownAccounted ==
  overlay_state # "full_risk" => calm + recovery_cooldown >= COOLDOWN

\* The inductive invariant.  ExposureCapped needs the state to be the class of
\* the last drawdown: a drawdown that does not deepen then stays under the
\* ceiling of a class at least as mild.
OverlayInv ==
  /\ TypeOK
  /\ drawdown_state = Classify(previous_drawdown)
  /\ ExposureCapped
  /\ CooldownAccounted

\* A drawdown is classified into one of the five states.
LEMMA ClassifyType ==
  ASSUME NEW dd \in Int
  PROVE  Classify(dd) \in DrawdownStates
BY DEF Classify, DrawdownStates

\* A milder drawdown never has a lower ceiling.
LEMMA CeilingMonotone ==
  ASSUME NEW a \in Int, NEW b \in Int, a <= b
  PROVE  RiskMultiplier(Classify(a)) <= RiskMultiplier(Classify(b))
BY DEF Classify, RiskMultiplier

\* Every ceiling is a multiplier the clamp accepts.
LEMMA CeilingRange ==
  ASSUME NEW s \in DrawdownStates
  PROVE  RiskMultiplier(s) \in FLOOR..FULL
BY DEF RiskMultiplier, DrawdownStates, FLOOR, FULL

\* Steps 4 and 5 stay in range, and never raise what already is in range.
LEMMA SettleRange ==
  ASSUME NEW m \in Nat, NEW p \in BOOLEAN
  PROVE  /\ Settle(m, p) \in FLOOR..FULL
         /\ m >= FLOOR => Settle(m, p) <= m
<1>1. (85 * m) \div 100 \in Nat /\ (85 * m) \div 100 <= m
  OBVIOUS
<1>2. QED
  BY <1>1 DEF Settle, Greatest, Least, FLOOR, FULL

LEMMA InitInv == Init => OverlayInv
<1> SUFFICES ASSUME Init PROVE OverlayInv
  OBVIOUS
<1>0. spike \in BOOLEAN
  BY DEF Init
<1>1. TypeOK
  BY <1>0 DEF Init, TypeOK, FULL, FLOOR, COOLDOWN, CALM, DrawdownStates, OverlayStates
<1>2. drawdown_state = Classify(previous_drawdown)
  BY DEF Init, Classify
<1>3. ExposureCapped /\ CooldownAccounted
  BY DEF Init, ExposureCapped, CooldownAccounted
<1>4. QED
  BY <1>1, <1>2, <1>3 DEF OverlayInv

\* What every update does before it chooses a branch.
LEMMA ObserveFacts ==
  ASSUME TypeOK, NEW dd \in Drawdowns, NEW corr \in Correlations, Observe(dd, corr)
  PROVE  /\ dd \in Int
         /\ previous_drawdown' \in Drawdowns \cup {0}
         /\ drawdown_state' \in DrawdownStates
         /\ drawdown_state' = Classify(previous_drawdown')
         /\ spike' \in BOOLEAN
         /\ calm' \in 0..CALM
<1>1. dd \in Int
  BY DrawdownsAssumption
<1>2. drawdown_state' \in DrawdownStates
  BY <1>1, ClassifyType DEF Observe
<1>3. spike' \in BOOLEAN
  BY DEF Observe, TypeOK
<1>4. calm' \in 0..CALM
  BY DEF Observe, TypeOK, Least, CALM, COOLDOWN
<1>5. QED
  BY <1>1, <1>2, <1>3, <1>4 DEF Observe

\* A step that does not raise the multiplier obeys the two rules on rises.
NoRise == multiplier \in Nat /\ multiplier' \in Nat /\ multiplier' <= multiplier

LEMMA NoRiseObeys ==
  ASSUME NoRise, RecoveryStep \in Nat
  PROVE  /\ multiplier' > multiplier => calm >= COOLDOWN
         /\ multiplier' <= multiplier + RecoveryStep + SNAP
<1>1. ~(multiplier' > multiplier)
  BY DEF NoRise
<1>2. multiplier' <= multiplier + RecoveryStep + SNAP
  BY DEF NoRise, FULL, NEARLY_FULL, SNAP
<1>3. QED
  BY <1>1, <1>2

\* Each branch of an update keeps the invariant and obeys the two rules on rises.
LEMMA UpdateStep ==
  ASSUME OverlayInv, NEW dd \in Drawdowns, NEW corr \in Correlations,
         Update(dd, corr)
  PROVE  /\ OverlayInv'
         /\ multiplier' > multiplier => calm >= COOLDOWN
         /\ multiplier' <= multiplier + RecoveryStep + SNAP
<1>1. Observe(dd, corr) /\ TypeOK
  BY DEF Update, OverlayInv
<1>2. /\ dd \in Int
      /\ previous_drawdown' \in Drawdowns \cup {0}
      /\ drawdown_state' \in DrawdownStates
      /\ drawdown_state' = Classify(previous_drawdown')
      /\ spike' \in BOOLEAN
      /\ calm' \in 0..CALM
  BY <1>1, ObserveFacts
<1>3. /\ multiplier \in Nat /\ multiplier >= FLOOR /\ multiplier <= FULL
      /\ previous_drawdown \in Int
      /\ RecoveryStep \in Nat
  BY <1>1, DrawdownsAssumption, RecoveryStepAssumption DEF TypeOK, FLOOR, FULL
<1>4. CASE Cut(dd)
  <2> DEFINE ceiling == RiskMultiplier(Classify(dd))
             m == Least(multiplier, ceiling)
  <2>1. ceiling \in FLOOR..FULL
    BY <1>2, ClassifyType, CeilingRange
  <2>2. m \in Nat /\ m >= FLOOR /\ m <= ceiling /\ m <= multiplier
    BY <1>3, <2>1 DEF Least, FLOOR, FULL
  <2>3. multiplier' \in FLOOR..FULL /\ multiplier' <= m
    <3>1. multiplier' = Settle(m, spike')
      BY <1>4 DEF Cut
    <3> HIDE DEF m
    <3>2. QED
      BY <3>1, <2>2, <1>2, SettleRange
  <2>4. multiplier' <= multiplier /\ multiplier' <= ceiling
    <3> HIDE DEF m, ceiling
    <3>1. QED
      BY <2>1, <2>2, <2>3, <1>3 DEF FLOOR, FULL
  <2>5. drawdown_state' = Classify(dd)
    BY <1>1 DEF Observe
  <2>6. TypeOK'
    BY <1>4, <1>2, <2>3 DEF Cut, TypeOK, OverlayStates, COOLDOWN
  <2>7. ExposureCapped'
    BY <2>4, <2>5 DEF ExposureCapped
  <2>8. CooldownAccounted'
    <3>1. calm' \in Nat /\ recovery_cooldown' = COOLDOWN
      BY <1>4, <1>2 DEF Cut, COOLDOWN, CALM
    <3>2. \A a, b \in Nat : a + b >= b
      OBVIOUS
    <3>3. QED
      BY <3>1, <3>2 DEF CooldownAccounted, COOLDOWN
  <2>9. OverlayInv'
    BY <1>2, <2>6, <2>7, <2>8 DEF OverlayInv
  <2>10. NoRise
    <3> HIDE DEF m, ceiling
    <3>1. QED
      BY <2>3, <2>4, <1>3 DEF NoRise, FULL, FLOOR
  <2>11. QED
    BY <2>9, <2>10, NoRiseObeys, <1>3
<1>5. CASE Cool(dd)
  <2>1. multiplier' \in FLOOR..FULL /\ multiplier' <= multiplier
    BY <1>5, <1>2, <1>3, SettleRange DEF Cool
  <2>2. TypeOK'
    BY <1>5, <1>2, <1>1, <2>1 DEF Cool, TypeOK, OverlayStates, COOLDOWN
  <2>3. drawdown_state' = "normal"
    BY <1>1, <1>5 DEF Observe, Cool, Returning
  <2>4. calm' = Least(calm + 1, CALM)
    BY <1>1, <1>5 DEF Observe, Cool, Returning
  <2>5. CooldownAccounted'
    BY <1>5, <1>1, <2>4 DEF OverlayInv, CooldownAccounted, Cool, Returning, TypeOK,
                            Least, COOLDOWN, CALM
  <2>6. OverlayInv'
    BY <1>2, <2>2, <2>3, <2>5 DEF OverlayInv, ExposureCapped
  <2>7. NoRise
    BY <2>1, <1>3 DEF NoRise, FULL, FLOOR
  <2>8. QED
    BY <2>6, <2>7, NoRiseObeys, <1>3
<1>6. CASE Recover(dd)
  <2> DEFINE raised == Least(100, multiplier + RecoveryStep)
             m == IF raised >= NEARLY_FULL THEN FULL ELSE raised
  <2>1. /\ m \in Nat /\ m >= FLOOR
        /\ m <= multiplier + RecoveryStep + SNAP
    BY <1>3 DEF Least, FLOOR, FULL, NEARLY_FULL, SNAP
  <2>2. multiplier' = Settle(m, spike')
    BY <1>6 DEF Recover, RiskMultiplier
  <2>3. multiplier' \in FLOOR..FULL /\ multiplier' <= m
    <3> HIDE DEF m
    <3>1. QED
      BY <2>1, <2>2, <1>2, SettleRange
  <2>4. TypeOK'
    BY <1>6, <1>2, <1>1, <2>3 DEF Recover, TypeOK, OverlayStates, COOLDOWN
  <2>5. drawdown_state' = "normal" /\ calm' = Least(calm + 1, CALM)
    BY <1>1, <1>6 DEF Observe, Recover, Returning
  <2>6. calm >= COOLDOWN
    BY <1>6, <1>1 DEF OverlayInv, CooldownAccounted, Recover, Returning, TypeOK,
                      COOLDOWN, CALM
  <2>7. CooldownAccounted'
    BY <1>1, <1>6, <2>5, <2>6 DEF CooldownAccounted, Recover, TypeOK, Least, COOLDOWN, CALM
  <2>8. OverlayInv'
    BY <1>2, <2>4, <2>5, <2>7 DEF OverlayInv, ExposureCapped
  <2>9. multiplier' <= multiplier + RecoveryStep + SNAP
    <3> HIDE DEF m
    <3>1. QED
      BY <2>1, <2>3, <1>3 DEF FULL, NEARLY_FULL, SNAP, FLOOR
  <2>10. QED
    BY <2>6, <2>8, <2>9
<1>7. CASE Hold(dd)
  <2>1. multiplier' \in FLOOR..FULL /\ multiplier' <= multiplier
    BY <1>7, <1>2, <1>3, SettleRange DEF Hold
  <2>2. TypeOK'
    BY <1>7, <1>2, <1>1, <2>1 DEF Hold, TypeOK, OverlayStates, COOLDOWN
  <2>3. ExposureCapped'
    <3>1. SUFFICES ASSUME Classify(dd) # "normal"
                   PROVE  multiplier' <= RiskMultiplier(Classify(dd))
      BY <1>1 DEF ExposureCapped, Observe
    <3>2. previous_drawdown <= dd
      BY <3>1, <1>7, <1>2, <1>3 DEF Hold, Worsening
    <3>3. Classify(previous_drawdown) # "normal"
      BY <3>1, <3>2, <1>2, <1>3 DEF Classify
    <3>4. multiplier <= RiskMultiplier(Classify(previous_drawdown))
      BY <3>3 DEF OverlayInv, ExposureCapped
    <3>5. RiskMultiplier(Classify(previous_drawdown)) <= RiskMultiplier(Classify(dd))
      BY <3>2, <1>2, <1>3, CeilingMonotone
    <3>6. /\ RiskMultiplier(Classify(previous_drawdown)) \in FLOOR..FULL
          /\ RiskMultiplier(Classify(dd)) \in FLOOR..FULL
      BY <1>2, <1>3, ClassifyType, CeilingRange
    <3>7. QED
      BY <2>1, <3>4, <3>5, <3>6, <1>3 DEF FLOOR, FULL
  <2>4. OverlayInv'
    BY <1>2, <2>2, <2>3, <1>7 DEF OverlayInv, CooldownAccounted, Hold
  <2>5. NoRise
    BY <2>1, <1>3 DEF NoRise, FULL, FLOOR
  <2>6. QED
    BY <2>4, <2>5, NoRiseObeys, <1>3
<1>8. QED
  BY <1>4, <1>5, <1>6, <1>7 DEF Update

LEMMA StepInv == OverlayInv /\ [Next]_vars => OverlayInv'
<1>1. CASE UNCHANGED vars
  BY <1>1 DEF vars, OverlayInv, TypeOK, ExposureCapped, CooldownAccounted
<1>2. CASE Next
  BY <1>2, UpdateStep DEF Next
<1>3. QED
  BY <1>1, <1>2

\* The strengthened invariant holds throughout.
THEOREM OverlayInvariant == Spec => []OverlayInv
BY InitInv, StepInv, PTL DEF Spec

\* The fields of the overlay keep their types.
THEOREM TypeCorrect == Spec => []TypeOK
<1>1. OverlayInv => TypeOK
  BY DEF OverlayInv
<1>2. QED
  BY <1>1, OverlayInvariant, PTL

\* In a drawdown, exposure never exceeds the ceiling of its severity.
THEOREM ExposureIsCapped == Spec => []ExposureCapped
<1>1. OverlayInv => ExposureCapped
  BY DEF OverlayInv
<1>2. QED
  BY <1>1, OverlayInvariant, PTL

\* Risk rises only after COOLDOWN calm updates in a row.
THEOREM RiseNeedsCalm == Spec => RiseOnlyWhenCalm
<1>1. OverlayInv /\ [Next]_vars => [multiplier' > multiplier => calm >= COOLDOWN]_vars
  BY UpdateStep DEF Next
<1>2. QED
  BY <1>1, OverlayInvariant, PTL DEF Spec, RiseOnlyWhenCalm

\* A single update never raises risk by more than a step and the final snap.
THEOREM RiseIsBounded == Spec => RiseIsGradual
<1>1. OverlayInv /\ [Next]_vars =>
        [multiplier' <= multiplier + RecoveryStep + SNAP]_vars
  BY UpdateStep DEF Next
<1>2. QED
  BY <1>1, OverlayInvariant, PTL DEF Spec, RiseIsGradual

-----------------------------------------------------------------------------
(* The capital manager *)

\* The pools that are open in a map of pools: Opened, of any state.
Open(p) == {c \in Currencies : p[c] # None}

Pools == [Currencies -> Nat \cup {None}]

\* Open pools are finitely many and hold whole amounts.
LEMMA OpenPools ==
  ASSUME NEW p \in Pools
  PROVE  /\ IsFiniteSet(Open(p)) /\ Cardinality(Open(p)) \in Nat
         /\ \A c \in Open(p) : c \in Currencies /\ p[c] \in Nat
         /\ SumFunctionOnSet(p, Open(p)) \in Nat
<1>1. IsFiniteSet(Open(p))
  BY FS_Subset, CapitalAssumption DEF Open
<1>2. \A c \in Open(p) : c \in Currencies /\ p[c] \in Nat
  BY DEF Open, Pools
<1> QED
  BY <1>1, <1>2, SumNat, FS_CardinalityType

\* Pools that pay a share each lose no more than as many shares as are open.
LEMMA SharesPaid ==
  ASSUME NEW p \in Pools, NEW q \in Pools, Open(q) = Open(p), NEW share \in Nat,
         \A c \in Open(p) : q[c] >= p[c] - share
  PROVE  SumFunctionOnSet(q, Open(p)) >=
           SumFunctionOnSet(p, Open(p)) - share * Cardinality(Open(p))
<1> DEFINE O == Open(p)
           less == [c \in O |-> -share]
           left == [c \in O |-> p[c] - share]
<1>1. /\ IsFiniteSet(O) /\ Cardinality(O) \in Nat
      /\ \A c \in O : p[c] \in Int /\ q[c] \in Int
      /\ SumFunctionOnSet(p, O) \in Int /\ SumFunctionOnSet(q, O) \in Int
  BY OpenPools
<1>2. SumFunctionOnSet(less, O) = (-share) * Cardinality(O)
  <2>1. -share \in Int /\ \A c \in O : less[c] = -share
    OBVIOUS
  <2> HIDE DEF O, less
  <2> QED BY <1>1, <2>1, SumConstant
<1>3. SumFunctionOnSet(left, O) = 1 * SumFunctionOnSet(p, O) + SumFunctionOnSet(less, O)
  <2>1. \A c \in O : /\ p[c] \in Int /\ less[c] \in Int
                     /\ left[c] = 1 * p[c] + less[c]
    BY <1>1
  <2> HIDE DEF O, less, left
  <2> QED BY <1>1, <2>1, SumLinear
<1>4. SumFunctionOnSet(left, O) <= SumFunctionOnSet(q, O)
  <2>1. \A c \in O : /\ left[c] \in Int /\ q[c] \in Int /\ left[c] <= q[c]
    BY <1>1
  <2> HIDE DEF O, left
  <2> QED BY <1>1, <2>1, SumMonotone
<1> QED
  <2> HIDE DEF O, less, left
  <2>1. (-share) * Cardinality(O) = -(share * Cardinality(O)) /\ share * Cardinality(O) \in Int
    BY <1>1
  <2> QED BY <1>1, <1>2, <1>3, <1>4, <2>1 DEF O

\* Pools that pay a share each in full lose exactly as many shares as are open.
LEMMA SharesPaidInFull ==
  ASSUME NEW p \in Pools, NEW q \in Pools, Open(q) = Open(p), NEW share \in Nat,
         \A c \in Open(p) : q[c] = p[c] - share
  PROVE  SumFunctionOnSet(q, Open(p)) =
           SumFunctionOnSet(p, Open(p)) - share * Cardinality(Open(p))
<1> DEFINE O == Open(p)
           less == [c \in O |-> -share]
<1>1. /\ IsFiniteSet(O) /\ Cardinality(O) \in Nat
      /\ \A c \in O : p[c] \in Int /\ q[c] \in Int
      /\ SumFunctionOnSet(p, O) \in Int /\ SumFunctionOnSet(q, O) \in Int
  BY OpenPools
<1>2. SumFunctionOnSet(less, O) = (-share) * Cardinality(O)
  <2>1. -share \in Int /\ \A c \in O : less[c] = -share
    OBVIOUS
  <2> HIDE DEF O, less
  <2> QED BY <1>1, <2>1, SumConstant
<1>3. SumFunctionOnSet(q, O) = 1 * SumFunctionOnSet(p, O) + SumFunctionOnSet(less, O)
  <2>1. \A c \in O : /\ p[c] \in Int /\ less[c] \in Int
                     /\ q[c] = 1 * p[c] + less[c]
    BY <1>1
  <2> HIDE DEF O, less
  <2> QED BY <1>1, <2>1, SumLinear
<1> QED
  <2> HIDE DEF O, less
  <2>1. (-share) * Cardinality(O) = -(share * Cardinality(O)) /\ share * Cardinality(O) \in Int
    BY <1>1
  <2> QED BY <1>1, <1>2, <1>3, <2>1 DEF O

LEMMA CapitalStart == CapitalInit => NothingLost
<1> SUFFICES ASSUME CapitalInit PROVE NothingLost
  OBVIOUS
<1>1. pools \in Pools /\ Cash \in Nat
  <2>1. pools \in Pools
    BY CapitalAssumption DEF CapitalInit, Pools
  <2> QED BY <2>1, OpenPools DEF Cash, Opened, Open
<1>2. 0 \in 0..Interval - 1 /\ 0 \in 0..Bookings
  BY CapitalAssumption
<1> QED
  BY <1>1, <1>2 DEF CapitalInit, NothingLost, Surplus, CapitalTypeOK, Balance, Pools, UNITS

\* A deployment step is taken only while less than the target is deployed, so it is
\* a positive amount, and it is cut to what is not deployed.
LEMMA StepFacts ==
  ASSUME NothingLost, deployed < Target
  PROVE  Step \in Nat \ {0} /\ deployed + Step <= total_capital
<1>1. deployed \in Nat /\ total_capital \in Int
  BY DEF NothingLost, CapitalTypeOK
<1>2. Target \in Int /\ Target <= Greatest(0, total_capital)
  <2> DEFINE T == DeploymentTarget
  <2>0. T \in 0..100
    BY CapitalAssumption
  <2> HIDE DEF T
  <2>1. CASE total_capital >= 0
    <3>1. T * total_capital <= 100 * total_capital /\ T * total_capital \in Int
      BY <2>0, <2>1, <1>1, MulMono
    <3>2. (total_capital * T) \div 100 <= total_capital
      BY <3>1, <1>1, <2>0, DivBound
    <3>3. (total_capital * T) \div 100 \in Int
      BY <1>1, <2>0
    <3> QED BY <3>2, <3>3, <2>1, <1>1 DEF Target, Greatest, T
  <2>2. CASE total_capital < 0
    <3>1. total_capital * T \in Int /\ total_capital * T <= 0 * 100
      <4>1. total_capital * T <= 0 * T
        BY <2>0, <2>2, <1>1, MulMono
      <4> QED BY <4>1, <2>0, <1>1
    <3>2. (total_capital * T) \div 100 <= 0
      BY <3>1, DivBound
    <3>3. (total_capital * T) \div 100 \in Int
      BY <1>1, <2>0
    <3> QED BY <3>2, <3>3, <2>2, <1>1 DEF Target, Greatest, T
  <2> QED BY <2>1, <2>2, <1>1
<1>3. Target <= total_capital /\ deployed < total_capital
  BY <1>1, <1>2 DEF Greatest
<1> DEFINE least == (total_capital * MinStep) \div 100
<1>4. least \in Int
  BY <1>1, CapitalAssumption
<1> HIDE DEF least
<1>5. Step = Least(Greatest(Target - deployed, least), total_capital - deployed)
  BY DEF Step, least
<1> QED BY <1>1, <1>2, <1>3, <1>4, <1>5 DEF Least, Greatest

\* The pools lose a step at most, and but for its remainder the whole of it while
\* none of them runs dry.
LEMMA DeployLosesNothing ==
  ASSUME NothingLost, Deploy, deployed < Target
  PROVE  /\ pools' \in Pools /\ deployed' \in Nat /\ Cash' + deployed' >= Cash + deployed
         /\ Cash' <= Cash
         /\ Opened # {} =>
              \/ Cash' + deployed' - (Cash + deployed) < Cardinality(Opened)
              \/ \E c \in Opened : pools'[c] = 0
<1>1. /\ pools \in Pools /\ deployed \in Nat /\ total_capital \in Int /\ Cash \in Nat
      /\ IsFiniteSet(Opened) /\ Cardinality(Opened) \in Nat
      /\ \A c \in Opened : c \in Currencies /\ pools[c] \in Nat
  <2>1. pools \in Pools
    BY DEF NothingLost, CapitalTypeOK, Pools
  <2> QED BY <2>1, OpenPools DEF Cash, Opened, Open, NothingLost, CapitalTypeOK
<1>3. Step \in Nat
  BY StepFacts
<1> DEFINE share == Step \div Cardinality(Opened)
<1>4. CASE Opened = {}
  <2>1. pools' = pools
    BY <1>1, <1>4 DEF Deploy, Opened, Pools
  <2>2. Cash' = Cash
    BY <2>1 DEF Cash, Opened
  <2>3. deployed' = deployed + Step
    BY DEF Deploy
  <2> HIDE DEF share
  <2> QED BY <2>1, <2>2, <2>3, <1>1, <1>3, <1>4
<1>5. CASE Opened # {}
  <2>1. Cardinality(Opened) \in Nat \ {0}
    BY <1>1, <1>5, FS_EmptySet
  <2>2. /\ share \in Nat /\ share * Cardinality(Opened) <= Step
        /\ Step < share * Cardinality(Opened) + Cardinality(Opened)
    <3>1. /\ share \in Int /\ share * Cardinality(Opened) <= Step
          /\ Step < share * Cardinality(Opened) + Cardinality(Opened)
      <4> DEFINE n == Cardinality(Opened)
                 x == Step
      <4>1. x \in Int /\ n \in Nat \ {0}
        BY <2>1, <1>3
      <4> HIDE DEF n, x
      <4>2. x \div n \in Int /\ (x \div n) * n <= x /\ x < (x \div n) * n + n
        BY <4>1, DivRange
      <4> QED BY <4>2 DEF n, x
    <3>2. 0 * Cardinality(Opened) <= Step
      BY <2>1, <1>3
    <3>3. 0 <= share
      BY <2>1, <1>3, <3>2, DivFloor
    <3> QED BY <3>1, <3>3
  <2>3. pools' = [c \in Currencies |-> IF pools[c] = None THEN None
                                       ELSE Withdrawn(pools[c], share)]
    BY DEF Deploy
  <2> HIDE DEF share
  <2>4. /\ \A c \in Opened : /\ pools'[c] \in Nat /\ pools'[c] >= pools[c] - share
                             /\ pools'[c] <= pools[c]
                             /\ pools'[c] # 0 => pools'[c] = pools[c] - share
        /\ \A c \in Currencies \ Opened : pools'[c] = None
    <3>1. ASSUME NEW c \in Opened
          PROVE  /\ pools'[c] \in Nat /\ pools'[c] >= pools[c] - share
                 /\ pools'[c] <= pools[c]
                 /\ pools'[c] # 0 => pools'[c] = pools[c] - share
      <4>1. pools[c] \in Nat /\ c \in Currencies
        BY <1>1
      <4>2. pools'[c] = Withdrawn(pools[c], share)
        BY <2>3, <4>1 DEF Opened
      <4> QED BY <2>2, <4>1, <4>2 DEF Withdrawn, Greatest
    <3>2. \A c \in Currencies \ Opened : pools'[c] = None
      BY <2>3 DEF Opened
    <3> QED BY <3>1, <3>2
  <2>5. pools' \in Pools
    BY <2>3, <2>4 DEF Pools
  <2>6. Open(pools') = Opened /\ Open(pools) = Opened
    BY <2>4, CapitalAssumption DEF Open, Opened
  <2>7. SumFunctionOnSet(pools', Opened) >= Cash - share * Cardinality(Opened)
    BY <1>1, <2>2, <2>4, <2>5, <2>6, SharesPaid DEF Cash
  <2>8. Cash' = SumFunctionOnSet(pools', Opened)
    BY <2>6 DEF Cash, Open, Opened
  <2>9. Cash' \in Int /\ deployed' = deployed + Step
    BY <2>5, <2>6, <2>8, OpenPools DEF Deploy
  <2>10. Cash' <= Cash
    <3>1. \A c \in Opened : pools[c] \in Int /\ pools'[c] \in Int /\ pools'[c] <= pools[c]
      BY <1>1, <2>4
    <3>2. SumFunctionOnSet(pools', Opened) <= SumFunctionOnSet(pools, Opened)
      BY <1>1, <3>1, SumMonotone
    <3> QED BY <2>8, <3>2 DEF Cash
  <2>11. ASSUME ~ \E c \in Opened : pools'[c] = 0
         PROVE  Cash' = Cash - share * Cardinality(Opened)
    <3>1. SumFunctionOnSet(pools', Opened) = Cash - share * Cardinality(Opened)
      <4>1. pools \in Pools /\ share \in Nat /\ Open(pools') = Open(pools)
        BY <1>1, <2>2, <2>6
      <4>2. \A c \in Open(pools) : pools'[c] = pools[c] - share
        BY <2>4, <2>6, <2>11
      <4>3. SumFunctionOnSet(pools', Open(pools))
              = SumFunctionOnSet(pools, Open(pools)) - share * Cardinality(Open(pools))
        BY <2>5, <4>1, <4>2, SharesPaidInFull
      <4>4. Cash = SumFunctionOnSet(pools, Opened)
        BY DEF Cash
      <4> QED BY <2>6, <4>3, <4>4
    <3> QED BY <2>8, <3>1
  <2> DEFINE paid == share * Cardinality(Opened)
             money == Cash'
  <2>12. paid \in Int /\ money \in Int /\ paid <= Step /\ Step < paid + Cardinality(Opened)
    BY <2>1, <2>2, <2>9
  <2>13. money >= Cash - paid /\ money <= Cash
    BY <2>7, <2>8, <2>10
  <2>14. (\E c \in Opened : pools'[c] = 0) \/ money = Cash - paid
    BY <2>11
  <2> HIDE DEF paid, money
  <2>15. /\ money + deployed' >= Cash + deployed /\ deployed' \in Nat
         /\ \/ money + deployed' - (Cash + deployed) < Cardinality(Opened)
            \/ \E c \in Opened : pools'[c] = 0
    BY <1>1, <1>3, <2>1, <2>9, <2>12, <2>13, <2>14
  <2> QED
    BY <2>5, <2>10, <2>15 DEF money
<1> QED BY <1>4, <1>5

\* A contribution adds its amount to one pool, which it opens if need be.
LEMMA ContributionKept ==
  ASSUME NothingLost, NEW amount \in Amounts, NEW currency \in Currencies,
         Contribute(amount, currency)
  PROVE  pools' \in Pools /\ Cash' = Cash + amount
<1>1. /\ pools \in Pools /\ amount \in Nat
      /\ pools' = [pools EXCEPT ![currency] =
                    IF pools[currency] = None THEN amount ELSE pools[currency] + amount]
  BY CapitalAssumption DEF NothingLost, CapitalTypeOK, Pools, Contribute
<1> DEFINE O == Open(pools)
           new == pools'[currency]
<1>2. /\ IsFiniteSet(O) /\ Cash = SumFunctionOnSet(pools, O) /\ Cash \in Nat
      /\ \A c \in O : c \in Currencies /\ pools[c] \in Nat
  BY <1>1, OpenPools DEF Cash, Opened, Open
<1>3. /\ new = IF currency \in O THEN pools[currency] + amount ELSE amount
      /\ new \in Nat
      /\ \A c \in Currencies \ {currency} : pools'[c] = pools[c]
  BY <1>1, <1>2 DEF Pools, Open
<1>4. pools' \in Pools
  BY <1>1, <1>3 DEF Pools
<1>5. Opened' = O \cup {currency} /\ Open(pools') = O \cup {currency}
  BY <1>3, CapitalAssumption DEF Opened, Open
<1>6. Cash' = SumFunctionOnSet(pools', O \cup {currency})
  BY <1>5 DEF Cash
<1>7. \A c \in O \ {currency} : pools'[c] = pools[c]
  BY <1>2, <1>3
<1>8. CASE currency \in O
  <2>1. O \cup {currency} = O
    BY <1>8
  <2> HIDE DEF O
  <2>2. SumFunctionOnSet(pools', O) = SumFunctionOnSet(pools, O) + new - pools[currency]
    <3>1. pools'[currency] \in Int /\ \A c \in O : pools[c] \in Int
      BY <1>2, <1>3
    <3> QED BY <1>2, <1>7, <1>8, <3>1, SumChange
  <2>3. new = pools[currency] + amount /\ pools[currency] \in Int /\ amount \in Int
    BY <1>1, <1>2, <1>3, <1>8
  <2>4. Cash' = Cash + new - pools[currency]
    BY <1>2, <1>6, <2>1, <2>2
  <2> HIDE DEF new
  <2>5. Cash' = Cash + amount
    BY <1>2, <2>3, <2>4
  <2> QED BY <1>4, <2>5
<1>9. CASE currency \notin O
  <2> DEFINE P == O \cup {currency}
  <2>1. P \ {currency} = O /\ currency \in P
    BY <1>9
  <2>2. IsFiniteSet(P)
    BY <1>2, FS_AddElement
  <2> HIDE DEF O, P
  <2>3. \A c \in P : pools'[c] \in Int
    BY <1>2, <1>3, <1>7, <1>9 DEF P
  <2>4. SumFunctionOnSet(pools', P) = new + SumFunctionOnSet(pools', P \ {currency})
    BY <2>1, <2>2, <2>3, SumSplit
  <2>5. SumFunctionOnSet(pools', O) = SumFunctionOnSet(pools, O)
    <3>1. \A c \in O : pools[c] \in Int /\ pools'[c] = pools[c]
      BY <1>2, <1>7, <1>9
    <3> QED BY <1>2, <3>1, SumSame
  <2> QED BY <1>1, <1>2, <1>3, <1>4, <1>6, <1>9, <2>1, <2>4, <2>5 DEF P
<1> QED BY <1>8, <1>9

\* A redemption is paid out of one pool, as far as it goes: in full, until the pool
\* is dry, or not at all without a pool.
PaidOut(paid, currency) ==
  pools' = [pools EXCEPT ![currency] =
    IF pools[currency] = None THEN None ELSE Withdrawn(pools[currency], paid)]

LEMMA RedemptionPaid ==
  ASSUME NothingLost, NEW currency \in Currencies, NEW paid \in Nat,
         PaidOut(paid, currency)
  PROVE  /\ pools' \in Pools /\ Cash' \in Nat /\ Cash' >= Cash - paid /\ Cash' <= Cash
         /\ \/ Cash' = Cash - paid \/ pools'[currency] = 0
            \/ pools'[currency] = None /\ pools' = pools
<1> DEFINE O == Open(pools)
<1>1. pools \in Pools
  BY DEF NothingLost, CapitalTypeOK, Pools
<1>2. /\ IsFiniteSet(O) /\ Cash = SumFunctionOnSet(pools, O) /\ Cash \in Nat
      /\ \A c \in O : c \in Currencies /\ pools[c] \in Nat
  BY <1>1, OpenPools DEF Cash, Opened, Open
<1>3. CASE pools[currency] = None
  <2>1. pools' = pools
    BY <1>1, <1>3 DEF Pools, PaidOut
  <2>2. Cash' = Cash
    BY <2>1 DEF Cash, Opened
  <2> QED BY <1>1, <1>2, <1>3, <2>1, <2>2
<1>4. CASE pools[currency] # None
  <2>1. pools[currency] \in Nat /\ currency \in O
    BY <1>1, <1>4 DEF Pools, Open
  <2>2. /\ pools'[currency] = Withdrawn(pools[currency], paid)
        /\ \A c \in Currencies \ {currency} : pools'[c] = pools[c]
    BY <1>1, <1>4 DEF Pools, PaidOut
  <2>3. /\ pools'[currency] \in Nat /\ pools'[currency] >= pools[currency] - paid
        /\ pools'[currency] <= pools[currency]
        /\ pools'[currency] # 0 => pools'[currency] = pools[currency] - paid
    BY <2>1, <2>2 DEF Withdrawn, Greatest
  <2>4. pools' \in Pools
    BY <1>1, <1>4, <2>2, <2>3 DEF Pools, PaidOut
  <2>5. Opened' = O /\ Open(pools') = O
    BY <2>1, <2>2, <2>3, CapitalAssumption DEF Opened, Open
  <2>6. Cash' = SumFunctionOnSet(pools', O) /\ Cash' \in Nat
    BY <2>4, <2>5, OpenPools DEF Cash
  <2>7. SumFunctionOnSet(pools', O) =
          SumFunctionOnSet(pools, O) + pools'[currency] - pools[currency]
    <3>1. /\ pools'[currency] \in Int /\ \A c \in O : pools[c] \in Int
          /\ \A c \in O \ {currency} : pools'[c] = pools[c]
      BY <1>2, <2>2, <2>3
    <3> HIDE DEF O
    <3> QED BY <1>2, <2>1, <3>1, SumChange
  <2> HIDE DEF O
  <2>8. Cash' = Cash + pools'[currency] - pools[currency]
    BY <1>2, <2>6, <2>7
  <2>9. /\ Cash' >= Cash - paid /\ Cash' <= Cash
        /\ Cash' = Cash - paid \/ pools'[currency] = 0
    BY <1>2, <2>1, <2>3, <2>8
  <2> QED BY <2>4, <2>6, <2>9
<1> QED BY <1>3, <1>4

\* Interest lets no pool shrink, and is counted as it is paid.
LEMMA InterestKept ==
  ASSUME NothingLost, Accrue
  PROVE  pools' \in Pools /\ Cash' \in Nat /\ Cash' >= Cash /\ interest' = interest + Cash' - Cash
<1> DEFINE O == Open(pools)
           rate == 10000 + InterestBps
<1>0. rate \in Nat /\ rate >= 10000
  BY CapitalAssumption
<1>a. pools \in Pools
  BY DEF NothingLost, CapitalTypeOK, Pools
<1>1. pools' = [c \in Currencies |-> IF pools[c] = None THEN None
                                    ELSE (pools[c] * rate) \div 10000]
  BY DEF Accrue
<1>2. /\ IsFiniteSet(O) /\ Cash = SumFunctionOnSet(pools, O) /\ Cash \in Nat
      /\ \A c \in O : c \in Currencies /\ pools[c] \in Nat
  BY <1>a, OpenPools DEF Cash, Opened, Open
<1>3. ASSUME NEW x \in Nat
      PROVE  (x * rate) \div 10000 \in Nat /\ (x * rate) \div 10000 >= x
  <2> HIDE DEF rate
  <2>1. 10000 * x <= rate * x /\ rate * x \in Int /\ rate * x = x * rate
    BY <1>0, MulMono
  <2>2. x <= (x * rate) \div 10000
    BY <2>1, DivFloor
  <2> QED BY <1>0, <2>1, <2>2
<1>4. /\ \A c \in O : pools'[c] \in Nat /\ pools'[c] >= pools[c]
      /\ \A c \in Currencies \ O : pools'[c] = None
  <2> HIDE DEF rate
  <2>1. ASSUME NEW c \in O PROVE pools'[c] \in Nat /\ pools'[c] >= pools[c]
    <3>1. pools[c] \in Nat /\ pools'[c] = (pools[c] * rate) \div 10000
      BY <1>1, <1>2 DEF Open
    <3> QED BY <1>3, <3>1
  <2> QED BY <1>1, <2>1 DEF Open
<1>5. pools' \in Pools
  BY <1>1, <1>4 DEF Pools
<1>6. Opened' = O /\ Open(pools') = O /\ Opened = O
  BY <1>4, CapitalAssumption DEF Opened, Open
<1>7. Cash' = SumFunctionOnSet(pools', O) /\ Cash' \in Nat
  BY <1>5, <1>6, OpenPools DEF Cash
<1>8. SumFunctionOnSet(pools, O) <= SumFunctionOnSet(pools', O)
  <2>1. \A c \in O : pools[c] \in Int /\ pools'[c] \in Int /\ pools[c] <= pools'[c]
    BY <1>2, <1>4
  <2> HIDE DEF O
  <2> QED BY <1>2, <2>1, SumMonotone
<1> QED BY <1>2, <1>5, <1>6, <1>7, <1>8 DEF Accrue

\* NothingLost by its parts, with Cash for the sum of the pools.
LEMMA CapitalParts ==
  NothingLost <=>
    /\ pools \in Pools /\ deployed \in Nat /\ units \in Nat /\ opening \in Nat
    /\ interest \in Nat /\ total_capital \in Int /\ contributions \in Int
    /\ state \in {"deploying", "fully_deployed"}
    /\ days \in 0..Interval - 1 /\ bookings \in 0..Bookings
    /\ Cash + deployed >= opening + contributions + interest
<1>1. pools \in Pools => Cash \in Nat
  BY OpenPools DEF Cash, Opened, Open
<1> QED
  BY <1>1 DEF NothingLost, Surplus, CapitalTypeOK, Balance, Pools

LEMMA CapitalStep == NothingLost /\ [CapitalNext]_capitalVars => NothingLost'
<1> SUFFICES ASSUME NothingLost, [CapitalNext]_capitalVars PROVE NothingLost'
  OBVIOUS
<1>p. /\ pools \in Pools /\ state \in {"deploying", "fully_deployed"}
      /\ days \in 0..Interval - 1 /\ bookings \in 0..Bookings
  BY CapitalParts
<1>0. /\ deployed \in Nat /\ units \in Nat /\ opening \in Nat
      /\ interest \in Nat /\ total_capital \in Int /\ contributions \in Int
      /\ Cash \in Nat /\ Cash + deployed >= opening + contributions + interest
  BY <1>p, CapitalParts, OpenPools DEF Cash, Opened, Open
<1>w. ASSUME /\ pools' \in Pools /\ deployed' \in Nat /\ units' \in Nat /\ opening' \in Nat
             /\ interest' \in Nat /\ total_capital' \in Int /\ contributions' \in Int
             /\ state' \in {"deploying", "fully_deployed"}
             /\ days' \in 0..Interval - 1 /\ bookings' \in 0..Bookings
             /\ Cash' + deployed' >= opening' + contributions' + interest'
      PROVE  NothingLost'
  <2>1. Cash' \in Nat
    BY <1>w, OpenPools DEF Cash, Opened, Open
  <2>2. Surplus' >= 0
    <3> DEFINE money == Cash'
    <3>1. /\ Surplus' = (money + deployed') - (opening' + contributions' + interest')
          /\ money \in Nat /\ money + deployed' >= opening' + contributions' + interest'
      <4>1. Balance' = money + deployed'
        BY DEF Balance
      <4>2. Surplus' = Balance' - (opening' + contributions' + interest')
        BY DEF Surplus
      <4> QED BY <1>w, <2>1, <4>1, <4>2
    <3>2. deployed' \in Nat /\ opening' \in Nat /\ contributions' \in Int /\ interest' \in Nat
      BY <1>w
    <3> DEFINE held == money + deployed'
               booked == opening' + contributions' + interest'
    <3>3. held \in Int /\ booked \in Int /\ booked <= held
      <4> HIDE DEF money
      <4>1. money \in Int /\ deployed' \in Int /\ opening' \in Int /\ interest' \in Int
        BY <3>1, <3>2
      <4>2. booked \in Int
        BY <3>2, <4>1
      <4>3. held \in Int
        BY <4>1
      <4>4. held >= booked
        BY <3>1
      <4> HIDE DEF held, booked
      <4> QED BY <4>2, <4>3, <4>4
    <3>4. Surplus' = held - booked
      BY <3>1
    <3> HIDE DEF held, booked
    <3> QED BY <3>3, <3>4
  <2> QED BY <1>w, <2>2 DEF NothingLost, CapitalTypeOK, Pools
<1>b. bookings < Bookings => bookings + 1 \in 0..Bookings
  BY <1>p, CapitalAssumption
<1>1. CASE StepDeployment
  <2>1. days' \in 0..Interval - 1
    BY <1>p, <1>1, CapitalAssumption DEF StepDeployment
  <2>2. UNCHANGED <<total_capital, contributions, units, opening, interest, bookings>>
    BY <1>1 DEF StepDeployment, moneyVars
  <2>3. state' \in {"deploying", "fully_deployed"}
    BY <1>p, <1>1 DEF StepDeployment, Deploy
  <2>4. /\ pools' \in Pools /\ deployed' \in Nat /\ Cash' + deployed' >= Cash + deployed
        /\ Cash' \in Nat
    <3>1. CASE UNCHANGED <<pools, deployed>>
      <4>1. Cash' = Cash
        BY <3>1 DEF Cash, Opened
      <4> QED BY <1>0, <1>p, <3>1, <4>1
    <3>2. CASE Deploy /\ ~(deployed >= Target)
      <4>1. deployed < Target
        <5>1. Target \in Int
          BY <1>0, CapitalAssumption DEF Target
        <5> QED BY <1>0, <3>2, <5>1
      <4>2. Cash' \in Nat
        BY <3>2, <4>1, DeployLosesNothing, OpenPools DEF Cash, Opened, Open
      <4> QED BY <3>2, <4>1, <4>2, DeployLosesNothing
    <3> QED BY <1>1, <3>1, <3>2 DEF StepDeployment
  <2>5. Cash' + deployed' >= opening' + contributions' + interest'
    <3> DEFINE before == Cash + deployed
               after == Cash' + deployed'
    <3>1. before \in Int
      BY <1>0
    <3>4. after \in Int
      BY <2>4
    <3>5. after >= before
      BY <2>4
    <3>2. before >= opening + contributions + interest
      BY <1>0
    <3> HIDE DEF before, after
    <3>3. after >= opening + contributions + interest
      BY <1>0, <3>1, <3>2, <3>4, <3>5
    <3> QED BY <2>2, <3>3 DEF after
  <2>6. /\ units' \in Nat /\ opening' \in Nat /\ interest' \in Nat
        /\ total_capital' \in Int /\ contributions' \in Int /\ bookings' \in 0..Bookings
    BY <1>0, <1>p, <2>2
  <2> QED BY <1>w, <2>1, <2>3, <2>4, <2>5, <2>6
<1>2. ASSUME NEW amount \in Amounts, NEW currency \in Currencies, Contribute(amount, currency)
      PROVE  NothingLost'
  <2>1. pools' \in Pools /\ Cash' = Cash + amount /\ amount \in Nat
    BY <1>2, ContributionKept, CapitalAssumption
  <2>2. units' \in Nat
    <3>1. CASE Balance = 0
      BY <1>0, <1>2, <2>1, <3>1 DEF Contribute
    <3>2. CASE Balance # 0
      <4>1. Balance \in Nat \ {0} /\ amount * units \in Nat
        BY <1>0, <2>1, <3>2 DEF Balance
      <4>2. (amount * units) \div Balance \in Nat
        BY <4>1
      <4> QED BY <1>0, <1>2, <3>2, <4>2 DEF Contribute
    <3> QED BY <3>1, <3>2
  <2>3. /\ contributions' = contributions + amount /\ total_capital' = total_capital + amount
        /\ UNCHANGED <<deployed, state, days, opening, interest>>
    BY <1>2 DEF Contribute
  <2>4. bookings' \in 0..Bookings
    BY <1>2, <1>b DEF Contribute
  <2>5. Cash' + deployed' >= opening' + contributions' + interest'
    BY <1>0, <2>1, <2>3
  <2>6. total_capital' \in Int /\ contributions' \in Int
    BY <1>0, <2>1, <2>3
  <2> QED BY <1>0, <1>p, <1>w, <2>1, <2>2, <2>3, <2>4, <2>5, <2>6
<1>3. ASSUME NEW amount \in Amounts, NEW currency \in Currencies, Redeem(amount, currency)
      PROVE  NothingLost'
  <2> DEFINE paid == Least(amount, Balance)
  <2>1. paid \in Nat
    BY <1>0, CapitalAssumption DEF Least, Balance
  <2>2. pools' \in Pools /\ Cash' \in Nat /\ Cash' >= Cash - paid
    <3>1. PaidOut(paid, currency)
      BY <1>p, <1>3 DEF Redeem, Pools, PaidOut
    <3> HIDE DEF paid
    <3> QED BY <2>1, <3>1, RedemptionPaid
  <2>3. units' \in Nat
    <3> DEFINE redeemed == IF Balance = 0 THEN 0 ELSE (paid * units) \div Balance
    <3>1. redeemed \in Int
      <4> HIDE DEF paid
      <4>1. CASE Balance = 0
        BY <4>1
      <4>2. CASE Balance # 0
        <5>1. Balance \in Nat \ {0} /\ paid * units \in Nat
          BY <1>0, <2>1, <4>2 DEF Balance
        <5> QED BY <4>2, <5>1
      <4> QED BY <4>1, <4>2
    <3>2. units' = Greatest(0, units - redeemed)
      BY <1>3 DEF Redeem
    <3> HIDE DEF redeemed
    <3> QED BY <1>0, <3>1, <3>2 DEF Greatest
  <2>4. /\ contributions' = contributions - paid /\ total_capital' = total_capital - paid
        /\ UNCHANGED <<deployed, state, days, opening, interest>>
    BY <1>3 DEF Redeem
  <2>5. bookings' \in 0..Bookings
    BY <1>3, <1>b DEF Redeem
  <2> HIDE DEF paid
  <2>6. Cash' + deployed' >= opening' + contributions' + interest'
    <3> DEFINE money == Cash'
    <3>1. money \in Nat /\ money >= Cash - paid
      BY <2>2
    <3> HIDE DEF money
    <3>2. money + deployed >= opening + (contributions - paid) + interest
      BY <1>0, <2>1, <3>1
    <3> QED BY <2>4, <3>2 DEF money
  <2>7. total_capital' \in Int /\ contributions' \in Int
    BY <1>0, <2>1, <2>4
  <2> QED BY <1>0, <1>p, <1>w, <2>2, <2>3, <2>4, <2>5, <2>6, <2>7
<1>4. CASE Accrue
  <2>1. /\ pools' \in Pools /\ Cash' \in Nat /\ Cash' >= Cash
        /\ interest' = interest + Cash' - Cash
    BY <1>4, InterestKept
  <2>2. UNCHANGED <<deployed, total_capital, contributions, units, state, days, opening>>
    BY <1>4 DEF Accrue
  <2>3. bookings' \in 0..Bookings
    BY <1>4, <1>b DEF Accrue
  <2>4. interest' \in Nat /\ Cash' + deployed' >= opening' + contributions' + interest'
    <3> DEFINE money == Cash'
    <3>1. money \in Nat /\ money >= Cash /\ interest' = interest + (money - Cash)
      BY <1>0, <2>1
    <3> HIDE DEF money
    <3>2. /\ interest' \in Nat
          /\ money + deployed >= opening + contributions + interest'
      BY <1>0, <3>1
    <3> QED BY <2>2, <3>2 DEF money
  <2> QED BY <1>0, <1>p, <1>w, <2>1, <2>2, <2>3, <2>4
<1>5. CASE UNCHANGED capitalVars
  BY <1>5 DEF capitalVars, NothingLost, Surplus, CapitalTypeOK, Balance, Cash, Opened
<1> QED
  BY <1>1, <1>2, <1>3, <1>4, <1>5 DEF CapitalNext

\* NothingLost is inductive as it stands: no pool is overdrawn, and cash and
\* deployed capital never fall behind what was put in and earned
\* (step_deployment, record_contribution, record_withdrawal, accrue_cash).
THEOREM CapitalNeverLost == CapitalSpec => []NothingLost
  BY CapitalStart, CapitalStep, PTL DEF CapitalSpec

\* A manager without a pool has no capital: every contribution opens one.
NoPoolNoCapital == Opened = {} => total_capital <= 0

LEMMA PoolsHoldCapital == CapitalSpec => []NoPoolNoCapital
<1>1. CapitalInit => NoPoolNoCapital
  <2> SUFFICES ASSUME CapitalInit, Opened = {} PROVE total_capital <= 0
    BY DEF NoPoolNoCapital
  <2>1. SumFunctionOnSet(pools, {}) = 0
    BY SumEmpty
  <2> QED BY <2>1 DEF CapitalInit, Cash
<1>2. NothingLost /\ NoPoolNoCapital /\ [CapitalNext]_capitalVars => NoPoolNoCapital'
  <2> SUFFICES ASSUME NothingLost, NoPoolNoCapital, [CapitalNext]_capitalVars, Opened' = {}
               PROVE  total_capital' <= 0
    BY DEF NoPoolNoCapital
  <2>0. pools \in Pools /\ total_capital \in Int /\ Cash \in Nat /\ deployed \in Nat
    <3>1. pools \in Pools /\ total_capital \in Int /\ deployed \in Nat
      BY CapitalParts
    <3> QED BY <3>1, OpenPools DEF Cash, Opened, Open
  <2>a. \A c \in Currencies : pools'[c] = None
    BY DEF Opened
  <2>1. CASE StepDeployment
    <3>1. total_capital' = total_capital
      BY <2>1 DEF StepDeployment, moneyVars
    <3>2. Opened = {}
      <4>1. CASE pools' = pools
        BY <2>a, <4>1 DEF Opened
      <4>2. CASE Deploy /\ ~(deployed >= Target)
        <5>1. SUFFICES ASSUME NEW c \in Opened PROVE FALSE
          OBVIOUS
        <5>2. pools[c] \in Nat /\ c \in Currencies
          BY <2>0 DEF Opened, Pools
        <5>3. pools'[c] = Withdrawn(pools[c], Step \div Cardinality(Opened))
          BY <4>2, <5>1, <5>2 DEF Deploy, Opened
        <5>4. Step \in Nat
          <6>1. Target \in Int
            BY <2>0, CapitalAssumption DEF Target
          <6>2. deployed < Target
            BY <2>0, <4>2, <6>1
          <6> QED BY <6>2, StepFacts
        <5>5. Cardinality(Opened) \in Nat \ {0}
          <6>1. IsFiniteSet(Opened)
            BY <2>0, OpenPools DEF Opened, Open
          <6> QED BY <5>1, <6>1, FS_EmptySet, FS_CardinalityType
        <5> DEFINE share == Step \div Cardinality(Opened)
        <5>6. share \in Int
          BY <5>4, <5>5, DivRange
        <5> HIDE DEF share
        <5>7. Withdrawn(pools[c], share) \in Int
          BY <5>2, <5>6 DEF Withdrawn, Greatest
        <5> QED BY <2>a, <5>2, <5>3, <5>7, CapitalAssumption DEF share
      <4> QED BY <2>1, <4>1, <4>2 DEF StepDeployment
    <3> QED BY <3>1, <3>2 DEF NoPoolNoCapital
  <2>2. ASSUME NEW amount \in Amounts, NEW currency \in Currencies, Contribute(amount, currency)
        PROVE  FALSE
    <3>1. amount \in Nat /\ pools[currency] \in Nat \cup {None}
      BY <2>0, CapitalAssumption DEF Pools
    <3>2. pools'[currency] = IF pools[currency] = None THEN amount ELSE pools[currency] + amount
      BY <2>0, <2>2 DEF Contribute, Pools
    <3>3. pools'[currency] \in Nat
      BY <3>1, <3>2
    <3> QED BY <2>a, <3>3, CapitalAssumption
  <2>3. ASSUME NEW amount \in Amounts, NEW currency \in Currencies, Redeem(amount, currency)
        PROVE  total_capital' <= 0
    <3>1. PICK paid \in Nat : total_capital' = total_capital - paid /\ PaidOut(paid, currency)
      <4>1. Least(amount, Balance) \in Nat
        BY <2>0, CapitalAssumption DEF Least, Balance
      <4> QED BY <2>0, <2>3, <4>1 DEF Redeem, PaidOut, Pools
    <3>2. Opened = {}
      <4>1. SUFFICES ASSUME NEW c \in Opened PROVE FALSE
        OBVIOUS
      <4>2. pools[c] \in Nat /\ c \in Currencies
        BY <2>0, <4>1 DEF Opened, Pools
      <4>3. pools'[c] = pools[c] \/ pools'[c] = Withdrawn(pools[c], paid)
        BY <2>0, <3>1, <4>1, <4>2 DEF PaidOut, Opened, Pools
      <4>4. pools'[c] \in Nat
        BY <3>1, <4>2, <4>3 DEF Withdrawn, Greatest
      <4> QED BY <2>a, <4>2, <4>4, CapitalAssumption
    <3> QED BY <2>0, <3>1, <3>2 DEF NoPoolNoCapital
  <2>4. CASE Accrue
    <3>1. total_capital' = total_capital
      BY <2>4 DEF Accrue
    <3>2. Opened = {}
      <4>1. SUFFICES ASSUME NEW c \in Opened PROVE FALSE
        OBVIOUS
      <4>2. pools[c] \in Nat /\ c \in Currencies /\ InterestBps \in Nat
        BY <2>0, <4>1, CapitalAssumption DEF Opened, Pools
      <4>3. pools'[c] = (pools[c] * (10000 + InterestBps)) \div 10000
        BY <2>4, <4>1, <4>2 DEF Accrue, Opened
      <4>4. pools[c] * (10000 + InterestBps) \in Nat
        BY <4>2
      <4>5. pools'[c] \in Int
        BY <4>3, <4>4
      <4> QED BY <2>a, <4>2, <4>5, CapitalAssumption
    <3> QED BY <3>1, <3>2 DEF NoPoolNoCapital
  <2>5. CASE UNCHANGED capitalVars
    BY <2>5 DEF capitalVars, Opened, NoPoolNoCapital
  <2> QED BY <2>1, <2>2, <2>3, <2>4, <2>5 DEF CapitalNext
<1> QED
  BY <1>1, <1>2, CapitalNeverLost, PTL DEF CapitalSpec

\* Every step deploys something and stays within the capital (capital.py:99-103),
\* whatever was redeemed since the last one: nothing deployed is taken back.
THEOREM StepsStayWithinCapital == CapitalSpec => StepsWithinCapital
<1>1. ASSUME NothingLost, [CapitalNext]_capitalVars, deployed' # deployed
      PROVE  deployed < deployed' /\ deployed' <= total_capital'
  <2>1. StepDeployment /\ deployed' = deployed + Step /\ ~(deployed >= Target)
    BY <1>1 DEF CapitalNext, capitalVars, StepDeployment, Deploy, Contribute, Redeem, Accrue
  <2>2. deployed \in Nat /\ total_capital \in Int
    BY <1>1 DEF NothingLost, CapitalTypeOK
  <2>3. Target \in Int
    BY <2>2, CapitalAssumption DEF Target
  <2>4. Step \in Nat \ {0} /\ deployed + Step <= total_capital
    BY <1>1, <2>1, <2>2, <2>3, StepFacts
  <2>5. total_capital' = total_capital
    BY <2>1 DEF StepDeployment, moneyVars
  <2> HIDE DEF Step
  <2> QED
    BY <2>1, <2>2, <2>4, <2>5
<1>2. NothingLost /\ [CapitalNext]_capitalVars =>
        [deployed' # deployed => deployed < deployed' /\ deployed' <= total_capital']_capitalVars
  BY <1>1
<1> QED
  BY <1>2, CapitalNeverLost, PTL DEF CapitalSpec, StepsWithinCapital

\* The books go off only where a pool runs dry or is missing, but for the remainder
\* that pools sharing a step leave, and then by no more than the step booked
\* (capital.py:105-107, :147): money is never lost, and made nowhere else.
THEOREM BooksOffOnlyThere == CapitalSpec => BooksOffOnlyWhenDry
<1> DEFINE off == Surplus' - Surplus
           Explained ==
             /\ off >= 0
             /\ \/ off = 0
                \/ /\ off <= deployed' - deployed
                   /\ off < Cardinality(Opened) \/ \E c \in Opened : pools'[c] = 0
                \/ /\ off <= contributions - contributions'
                   /\ \E c \in Currencies :
                        pools'[c] = 0 \/ (pools'[c] = None /\ pools' = pools)
<1>1. ASSUME NothingLost, NothingLost', NoPoolNoCapital, [CapitalNext]_capitalVars
      PROVE  Explained
  <2>0. /\ pools \in Pools /\ pools' \in Pools /\ {deployed, deployed'} \subseteq Nat
        /\ {opening, opening', interest, interest'} \subseteq Nat
        /\ {contributions, contributions', total_capital} \subseteq Int
    BY <1>1 DEF NothingLost, CapitalTypeOK, Pools
  <2>1. Cash \in Nat /\ Cash' \in Nat
    BY <2>0, OpenPools DEF Cash, Opened, Open
  <2> DEFINE money == Cash
             left == Cash'
  <2>2. /\ money \in Nat /\ left \in Nat
        /\ off = ((left + deployed') - (opening' + contributions' + interest'))
                 - ((money + deployed) - (opening + contributions + interest))
    <3>1. /\ Surplus = (money + deployed) - (opening + contributions + interest)
          /\ Surplus' = (left + deployed') - (opening' + contributions' + interest')
      <4>1. Balance = Cash + deployed /\ Balance' = Cash' + deployed'
        BY DEF Balance
      <4>2. /\ Surplus = Balance - (opening + contributions + interest)
            /\ Surplus' = Balance' - (opening' + contributions' + interest')
        BY DEF Surplus
      <4> QED BY <4>1, <4>2
    <3> QED BY <2>1, <3>1
  <2>3. CASE StepDeployment
    <3>1. UNCHANGED <<contributions, opening, interest, total_capital>>
      BY <2>3 DEF StepDeployment, moneyVars
    <3>2. CASE UNCHANGED <<pools, deployed>>
      <4>1. left = money
        BY <3>2 DEF Cash, Opened
      <4> HIDE DEF left, money, off
      <4>2. off = 0
        BY <2>0, <2>2, <3>1, <3>2, <4>1
      <4> QED BY <4>2
    <3>3. CASE Deploy /\ ~(deployed >= Target)
      <4>1. Target \in Int /\ deployed < Target
        <5>1. Target \in Int
          BY <2>0, CapitalAssumption DEF Target
        <5> QED BY <2>0, <3>3, <5>1
      <4>2. Opened # {}
        <5>1. SUFFICES ASSUME total_capital <= 0 PROVE FALSE
          BY <1>1 DEF NoPoolNoCapital
        <5>2. Step \in Nat \ {0} /\ deployed + Step <= total_capital
          BY <1>1, <4>1, StepFacts
        <5> HIDE DEF Step
        <5> QED BY <2>0, <5>1, <5>2
      <4>3. /\ left + deployed' >= money + deployed /\ left <= money
            /\ \/ left + deployed' - (money + deployed) < Cardinality(Opened)
               \/ \E c \in Opened : pools'[c] = 0
        BY <1>1, <3>3, <4>1, <4>2, DeployLosesNothing
      <4> HIDE DEF left, money, off
      <4>4. off = left + deployed' - (money + deployed)
        BY <2>0, <2>2, <3>1
      <4>5. off >= 0 /\ off <= deployed' - deployed
        BY <2>0, <2>2, <4>3, <4>4
      <4> QED BY <4>3, <4>4, <4>5
    <3> QED BY <2>3, <3>2, <3>3 DEF StepDeployment
  <2>4. ASSUME NEW amount \in Amounts, NEW currency \in Currencies, Contribute(amount, currency)
        PROVE  Explained
    <3>1. left = money + amount /\ amount \in Nat
      BY <1>1, <2>4, ContributionKept, CapitalAssumption
    <3>2. contributions' = contributions + amount /\ UNCHANGED <<deployed, opening, interest>>
      BY <2>4 DEF Contribute
    <3> HIDE DEF left, money, off
    <3>3. off = 0
      BY <2>0, <2>2, <3>1, <3>2
    <3> QED BY <3>3
  <2>5. ASSUME NEW amount \in Amounts, NEW currency \in Currencies, Redeem(amount, currency)
        PROVE  Explained
    <3>1. PICK paid \in Nat : contributions' = contributions - paid /\ PaidOut(paid, currency)
      <4>1. Least(amount, Balance) \in Nat
        BY <2>0, <2>1, CapitalAssumption DEF Least, Balance
      <4> QED BY <2>0, <2>5, <4>1 DEF Redeem, PaidOut, Pools
    <3>2. UNCHANGED <<deployed, opening, interest>>
      BY <2>5 DEF Redeem
    <3>3. /\ left >= money - paid /\ left <= money
          /\ \/ left = money - paid \/ pools'[currency] = 0
             \/ pools'[currency] = None /\ pools' = pools
      BY <1>1, <3>1, RedemptionPaid
    <3> HIDE DEF left, money, off
    <3>4. off = left + paid - money
      BY <2>0, <2>2, <3>1, <3>2
    <3>5. off >= 0 /\ off <= contributions - contributions'
      BY <2>0, <2>2, <3>1, <3>3, <3>4
    <3>6. left = money - paid => off = 0
      BY <2>2, <3>1, <3>4
    <3> QED BY <3>3, <3>5, <3>6
  <2>6. CASE Accrue
    <3>1. interest' = interest + left - money
      BY <1>1, <2>6, InterestKept
    <3>2. UNCHANGED <<deployed, opening, contributions>>
      BY <2>6 DEF Accrue
    <3> HIDE DEF left, money, off
    <3>3. off = 0
      BY <2>0, <2>2, <3>1, <3>2
    <3> QED BY <3>3
  <2>7. CASE UNCHANGED capitalVars
    <3>1. left = money /\ UNCHANGED <<deployed, opening, interest, contributions>>
      BY <2>7 DEF capitalVars, Cash, Opened
    <3> HIDE DEF left, money, off
    <3>2. off = 0
      BY <2>0, <2>2, <3>1
    <3> QED BY <3>2
  <2> HIDE DEF Explained
  <2> QED BY <1>1, <2>3, <2>4, <2>5, <2>6, <2>7 DEF CapitalNext
<1>2. NothingLost /\ NothingLost' /\ NoPoolNoCapital /\ [CapitalNext]_capitalVars =>
        [LET gain == Surplus' - Surplus
         IN /\ gain >= 0
            /\ \/ gain = 0
               \/ /\ gain <= deployed' - deployed
                  /\ gain < Cardinality(Opened) \/ \E c \in Opened : pools'[c] = 0
               \/ /\ gain <= contributions - contributions'
                  /\ \E c \in Currencies :
                       pools'[c] = 0 \/ (pools'[c] = None /\ pools' = pools)]_capitalVars
  BY <1>1
<1> QED
  BY <1>2, CapitalNeverLost, PoolsHoldCapital, PTL DEF CapitalSpec, BooksOffOnlyWhenDry

-----------------------------------------------------------------------------
(* The constraints *)

\* Of Greatest, the prover needs the range only.
LEMMA PositiveRange ==
  ASSUME NEW x \in Int
  PROVE  /\ Positive(x) \in Nat /\ x <= Positive(x)
         /\ x >= 0 => Positive(x) = x
         /\ x <= 0 => Positive(x) = 0
  BY DEF Positive, Greatest

LEMMA SizeRange ==
  ASSUME NEW x \in Int
  PROVE  /\ Size(x) \in Nat /\ x <= Size(x) /\ -x <= Size(x)
         /\ Size(x) = x \/ Size(x) = -x
  BY DEF Size, Greatest

\* The symbols are finitely many, and cash is one of them.
LEMMA SymbolFacts ==
  /\ IsFiniteSet(Symbols) /\ IsFiniteSet(Risky) /\ Risky \subseteq Symbols
  /\ CASH \in Symbols /\ CASH \notin Risky /\ Risky = Symbols \ {CASH}
  /\ Cardinality(Risky) \in Nat
  BY ConstraintsAssumption, FS_Subset, FS_CardinalityType DEF Risky

\* The whole of a portfolio is its risky part and its cash.
LEMMA TotalSplit ==
  ASSUME NEW w, \A s \in Symbols : w[s] \in Int
  PROVE  /\ Total(w, Symbols) = w[CASH] + Total(w, Risky)
         /\ Total(w, Symbols) \in Int /\ Total(w, Risky) \in Int
<1>1. Total(w, Risky) \in Int /\ Total(w, Symbols) \in Int
  BY SymbolFacts, SumType DEF Total
<1>2. SumFunctionOnSet(w, Symbols) = w[CASH] + SumFunctionOnSet(w, Symbols \ {CASH})
  BY SymbolFacts, SumSplit
<1> QED
  BY <1>1, <1>2, SymbolFacts DEF Total

\* WithCash makes whole portfolios of risky weights that fit.
LEMMA WithCashWhole ==
  ASSUME NEW risky, \A s \in Risky : risky[s] \in Nat, Total(risky, Risky) <= WHOLE
  PROVE  /\ WithCash(risky) \in Weights
         /\ Total(WithCash(risky), Symbols) = WHOLE
         /\ WithCash(risky)[CASH] = WHOLE - Total(risky, Risky)
         /\ \A s \in Risky : WithCash(risky)[s] = risky[s]
         /\ Total(risky, Risky) \in Nat
<1> DEFINE f == WithCash(risky)
           sum == Total(risky, Risky)
<1>0. WHOLE \in Nat
  BY DEF WHOLE
<1>1. sum \in Nat /\ sum <= WHOLE /\ \A s \in Risky : risky[s] \in Nat /\ risky[s] <= sum
  BY SymbolFacts, SumNat DEF Total
<1>2. f = [s \in Symbols |-> IF s = CASH THEN WHOLE - sum ELSE risky[s]]
  BY DEF WithCash
<1>3. f[CASH] = WHOLE - sum /\ \A s \in Risky : f[s] = risky[s]
  BY <1>2, SymbolFacts
<1> HIDE DEF f, sum
<1>4. f[CASH] \in 0..WHOLE
  BY <1>0, <1>1, <1>3
<1>5. \A s \in Risky : f[s] \in 0..WHOLE
  BY <1>0, <1>1, <1>3
<1>6. \A s \in Symbols : f[s] \in 0..WHOLE /\ f[s] \in Int
  BY <1>0, <1>4, <1>5, SymbolFacts
<1>7. f \in Weights
  <2>1. f = [s \in Symbols |-> f[s]]
    BY <1>2
  <2> QED BY <1>6, <2>1 DEF Weights
<1>8. Total(f, Risky) = sum
  <2>1. \A s \in Risky : risky[s] \in Int /\ f[s] = risky[s]
    BY <1>1, <1>3
  <2> QED BY <2>1, SymbolFacts, SumSame DEF Total, sum
<1>9. Total(f, Symbols) = f[CASH] + Total(f, Risky)
  BY <1>6, TotalSplit
<1>10. Total(f, Symbols) = WHOLE
  BY <1>0, <1>1, <1>3, <1>8, <1>9
<1> QED
  BY <1>1, <1>3, <1>7, <1>10 DEF f, sum

\* Shares of a whole of positive parts: they fit, and what they leave is less
\* than one for each part.
LEMMA SharesFit ==
  ASSUME NEW S, IsFiniteSet(S), NEW f, \A s \in S : f[s] \in Nat,
         NEW whole \in Nat, SumFunctionOnSet(f, S) > 0
  PROVE  LET all == SumFunctionOnSet(f, S)
             shares == [s \in S |-> Part(f[s], whole, all)]
         IN /\ \A s \in S : shares[s] \in Nat /\ (whole <= all => shares[s] <= f[s])
            /\ SumFunctionOnSet(shares, S) \in Nat /\ SumFunctionOnSet(shares, S) <= whole
            /\ whole - SumFunctionOnSet(shares, S) < Cardinality(S)
<1> DEFINE all == SumFunctionOnSet(f, S)
           shares == [s \in S |-> Part(f[s], whole, all)]
           scaled == [s \in S |-> whole * f[s]]
           back == [s \in S |-> all * shares[s]]
           less == [s \in S |-> whole * f[s] - (all - 1)]
           n == Cardinality(S)
<1>0. all \in Nat \ {0} /\ n \in Nat
  BY SumNat, FS_CardinalityType
<1>1. ASSUME NEW s \in S
      PROVE  /\ shares[s] \in Nat /\ all * shares[s] <= whole * f[s]
             /\ whole * f[s] - (all - 1) <= all * shares[s]
             /\ whole <= all => shares[s] <= f[s]
  <2> DEFINE x == f[s] * whole
  <2>0. f[s] \in Nat /\ shares[s] = x \div all
    <3>1. f[s] \in Nat
      OBVIOUS
    <3> HIDE DEF all
    <3> QED BY <3>1 DEF Part
  <2> HIDE DEF all, shares
  <2>1. x \in Nat /\ x = whole * f[s]
    BY <2>0
  <2> HIDE DEF x
  <2>2. /\ x \div all \in Int /\ (x \div all) * all <= x /\ x < (x \div all) * all + all
    <3>1. x \in Int /\ all \in Nat \ {0}
      BY <1>0, <2>1
    <3> QED BY <3>1, DivRange
  <2>3. 0 <= x \div all
    BY <1>0, <2>1, DivFloor
  <2>4. (x \div all) * all = all * (x \div all) /\ all * (x \div all) \in Int
    BY <1>0, <2>2
  <2>5. whole <= all => x \div all <= f[s]
    <3> SUFFICES ASSUME whole <= all PROVE x \div all <= f[s]
      OBVIOUS
    <3>1. whole * f[s] <= all * f[s] /\ all * f[s] = f[s] * all
      BY <1>0, <2>0, MulMono
    <3> QED BY <1>0, <2>0, <2>1, <3>1, DivBound
  <2> QED BY <1>0, <2>0, <2>1, <2>2, <2>3, <2>4, <2>5
<1> DEFINE sum == SumFunctionOnSet(shares, S)
<1>2. sum \in Nat
  <2>1. \A s \in S : shares[s] \in Nat
    BY <1>1
  <2> HIDE DEF shares
  <2> QED BY <2>1, SumNat
<1>3. SumFunctionOnSet(back, S) = all * sum
  <2> DEFINE zero == [s \in S |-> 0]
  <2>1. \A s \in S : /\ shares[s] \in Int /\ zero[s] \in Int
                     /\ back[s] = all * shares[s] + zero[s]
    BY <1>0, <1>1
  <2>2. SumFunctionOnSet(zero, S) = 0 * n
    <3>1. \A s \in S : zero[s] = 0
      OBVIOUS
    <3> HIDE DEF zero
    <3> QED BY <3>1, SumConstant
  <2>3. SumFunctionOnSet(back, S) = all * sum + SumFunctionOnSet(zero, S)
    <3> HIDE DEF all, shares, zero, back
    <3> QED BY <1>0, <2>1, SumLinear DEF sum
  <2> HIDE DEF all, sum, zero, back, n
  <2>4. all * sum \in Int
    BY <1>0, <1>2
  <2> QED BY <1>0, <1>2, <2>2, <2>3, <2>4
<1>4. SumFunctionOnSet(scaled, S) = whole * all
  <2> DEFINE zero == [s \in S |-> 0]
  <2>1. \A s \in S : /\ f[s] \in Int /\ zero[s] \in Int
                     /\ scaled[s] = whole * f[s] + zero[s]
    OBVIOUS
  <2>2. SumFunctionOnSet(zero, S) = 0 * n
    <3>1. \A s \in S : zero[s] = 0
      OBVIOUS
    <3> HIDE DEF zero
    <3> QED BY <3>1, SumConstant
  <2>3. SumFunctionOnSet(scaled, S) = whole * all + SumFunctionOnSet(zero, S)
    <3> HIDE DEF zero, scaled
    <3> QED BY <2>1, SumLinear
  <2> HIDE DEF all, zero, scaled, n
  <2>4. whole * all \in Int
    BY <1>0
  <2> QED BY <1>0, <2>2, <2>3, <2>4
<1>5. all * sum <= whole * all
  <2>1. \A s \in S : back[s] \in Int /\ scaled[s] \in Int /\ back[s] <= scaled[s]
    <3> HIDE DEF all, shares
    <3> QED BY <1>0, <1>1
  <2>2. SumFunctionOnSet(back, S) <= SumFunctionOnSet(scaled, S)
    <3> HIDE DEF back, scaled
    <3> QED BY <2>1, SumMonotone
  <2> HIDE DEF all, sum, back, scaled
  <2> QED BY <1>3, <1>4, <2>2
<1>6. whole * all - (all - 1) * n <= all * sum
  <2> DEFINE off == [s \in S |-> -(all - 1)]
  <2>1. SumFunctionOnSet(off, S) = (-(all - 1)) * n
    <3>1. -(all - 1) \in Int /\ \A s \in S : off[s] = -(all - 1)
      BY <1>0
    <3> HIDE DEF off, all
    <3> QED BY <3>1, SumConstant
  <2>2. SumFunctionOnSet(less, S) = 1 * SumFunctionOnSet(scaled, S) + SumFunctionOnSet(off, S)
    <3>1. \A s \in S : /\ scaled[s] \in Int /\ off[s] \in Int
                       /\ less[s] = 1 * scaled[s] + off[s]
      <4> HIDE DEF all
      <4> QED BY <1>0
    <3> HIDE DEF off, scaled, less
    <3> QED BY <3>1, SumLinear
  <2>3. SumFunctionOnSet(less, S) <= SumFunctionOnSet(back, S)
    <3>1. \A s \in S : less[s] \in Int /\ back[s] \in Int /\ less[s] <= back[s]
      <4> HIDE DEF all, shares
      <4> QED BY <1>0, <1>1
    <3> HIDE DEF less, back
    <3> QED BY <3>1, SumMonotone
  <2> HIDE DEF all, sum, off, less, back, scaled, n
  <2>4. (-(all - 1)) * n = -((all - 1) * n) /\ (all - 1) * n \in Int /\ whole * all \in Int
    BY <1>0
  <2> QED BY <1>0, <1>3, <1>4, <2>1, <2>2, <2>3, <2>4
<1>7. sum <= whole
  <2> SUFFICES ASSUME sum > whole PROVE FALSE
    BY <1>2
  <2> HIDE DEF all, sum
  <2>1. (whole + 1) * all <= sum * all
    BY <1>0, <1>2, MulMono
  <2>2. (whole + 1) * all = whole * all + all /\ sum * all = all * sum
    BY <1>0, <1>2
  <2>3. whole * all \in Int /\ all * sum \in Int
    BY <1>0, <1>2
  <2> QED BY <1>0, <1>5, <2>1, <2>2, <2>3
<1>8. whole - sum < n
  <2> SUFFICES ASSUME n <= whole - sum PROVE FALSE
    BY <1>0, <1>2
  <2> HIDE DEF all, sum, n
  <2>1. n * all <= (whole - sum) * all
    BY <1>0, <1>2, MulMono
  <2>2. /\ n * all = (all - 1) * n + n
        /\ (whole - sum) * all = whole * all - all * sum
        /\ (all - 1) * n \in Int /\ whole * all \in Int /\ all * sum \in Int
    BY <1>0, <1>2
  <2>3. n <= 0
    BY <1>0, <1>6, <2>1, <2>2
  <2>4. n = 0
    BY <1>0, <2>3
  <2>5. S = {}
    BY <2>4, FS_EmptySet DEF n
  <2> QED BY <1>0, <2>5, SumEmpty DEF all
<1> QED
  BY <1>1, <1>2, <1>7, <1>8

-----------------------------------------------------------------------------
(* The trades of a rebalance *)

\* Weights are numbers of the whole.
LEMMA WeightRange ==
  ASSUME NEW w \in Weights
  PROVE  \A s \in Symbols : w[s] \in Nat /\ w[s] \in Int /\ w[s] >= 0 /\ w[s] <= WHOLE
<1>1. WHOLE \in Nat
  BY DEF WHOLE
<1>2. \A s \in Symbols : w[s] \in 0..WHOLE
  BY DEF Weights
<1> QED BY <1>1, <1>2

\* What a portfolio trades against another is counted symbol by symbol.
LEMMA TradedFacts ==
  ASSUME NEW w, NEW c, \A s \in Symbols : w[s] \in Int /\ c[s] \in Int
  PROVE  LET size == [s \in Symbols |-> Size(w[s] - c[s])]
         IN /\ Traded(w, c) = size[CASH] + Total(size, Risky)
            /\ Traded(w, c) = Total(size, Symbols)
            /\ Traded(w, c) \in Nat /\ Total(size, Risky) \in Nat
            /\ \A s \in Symbols : size[s] \in Nat
            /\ size[CASH] = Size(w[CASH] - c[CASH])
            /\ \A s \in Risky : size[s] = Size(w[s] - c[s])
<1> DEFINE size == [s \in Symbols |-> Size(w[s] - c[s])]
<1>1. \A s \in Symbols : size[s] \in Nat /\ size[s] = Size(w[s] - c[s])
  <2>1. \A s \in Symbols : w[s] - c[s] \in Int
    OBVIOUS
  <2> QED BY <2>1, SizeRange
<1>2. Traded(w, c) = Total(size, Symbols)
  BY DEF Traded
<1> HIDE DEF size
<1>3. Total(size, Symbols) \in Nat /\ Total(size, Risky) \in Nat
  BY <1>1, SymbolFacts, SumNat DEF Total
<1>4. Total(size, Symbols) = size[CASH] + Total(size, Risky)
  BY <1>1, TotalSplit
<1> QED
  BY <1>1, <1>2, <1>3, <1>4, SymbolFacts DEF size

\* Part of a move is no larger than its part.
LEMMA PartRange ==
  ASSUME NEW x \in Int, NEW a \in Nat, NEW b \in Nat \ {0}
  PROVE  /\ Part(x, a, b) \in Int
         /\ b * Size(Part(x, a, b)) <= a * Size(x)
         /\ x >= 0 => /\ Part(x, a, b) >= 0
                      /\ a * x - (b - 1) <= b * Part(x, a, b) /\ b * Part(x, a, b) <= a * x
         /\ x <= 0 => /\ Part(x, a, b) <= 0
                      /\ a * x <= b * Part(x, a, b) /\ b * Part(x, a, b) <= a * x + (b - 1)
<1>1. ASSUME NEW y \in Nat
      PROVE  /\ (y * a) \div b \in Nat /\ b * ((y * a) \div b) <= a * y
             /\ a * y - (b - 1) <= b * ((y * a) \div b)
             /\ a * y \in Int /\ b * ((y * a) \div b) \in Int
  <2> DEFINE z == y * a
  <2>1. z \in Int /\ z >= 0 /\ z = a * y
    OBVIOUS
  <2> HIDE DEF z
  <2> DEFINE q == z \div b
  <2>2. q \in Int /\ q * b <= z /\ z < q * b + b
    BY <2>1, DivRange
  <2>3. 0 <= q
    BY <2>1, DivFloor
  <2> HIDE DEF q
  <2>4. q * b = b * q /\ b * q \in Int
    BY <2>2
  <2>5. q \in Nat /\ b * q <= z /\ z - (b - 1) <= b * q
    BY <2>1, <2>2, <2>3, <2>4
  <2> QED BY <2>1, <2>4, <2>5 DEF q, z
<1>2. CASE x >= 0
  <2> DEFINE p == (x * a) \div b
  <2>1. p \in Nat /\ b * p <= a * x /\ a * x - (b - 1) <= b * p /\ Part(x, a, b) = p
    BY <1>1, <1>2 DEF Part
  <2>2. Size(x) = x
    BY <1>2 DEF Size, Greatest
  <2> HIDE DEF p
  <2>3. Size(p) = p
    BY <2>1 DEF Size, Greatest
  <2>4. x <= 0 => x = 0 /\ a * x = 0 /\ p = 0
    <3> SUFFICES ASSUME x <= 0 PROVE x = 0 /\ a * x = 0 /\ p = 0
      OBVIOUS
    <3>1. x = 0 /\ a * x = 0
      BY <1>2
    <3>2. b * p <= 0
      BY <2>1, <3>1
    <3>3. p > 0 => b * p > 0
      BY <2>1
    <3> QED BY <2>1, <3>1, <3>2, <3>3
  <2> QED BY <1>2, <2>1, <2>2, <2>3, <2>4
<1>3. CASE x < 0
  <2> DEFINE y == -x
             q == (y * a) \div b
  <2>0. y \in Nat /\ x = -y
    BY <1>3
  <2>1. q \in Nat /\ b * q <= a * y /\ a * y - (b - 1) <= b * q
    BY <1>1, <2>0
  <2>2. Part(x, a, b) = -q
    BY <1>3 DEF Part
  <2>3. Size(x) = y
    BY <1>3 DEF Size, Greatest
  <2> HIDE DEF q, y
  <2>4. Size(-q) = q
    BY <2>1 DEF Size, Greatest
  <2>5. a * x = -(a * y) /\ b * (-q) = -(b * q) /\ a * y \in Int /\ b * q \in Int
    BY <2>0, <2>1
  <2> QED BY <1>3, <2>0, <2>1, <2>2, <2>3, <2>4, <2>5
<1> QED BY <1>2, <1>3

\* A portfolio on the way to another: whole numbers, and within the limit.
LEMMA TowardsTraded ==
  ASSUME NEW w, NEW c, \A s \in Symbols : w[s] \in Int /\ c[s] \in Int,
         NEW limit \in Nat, Traded(w, c) > limit
  PROVE  LET v == Towards(w, c, limit, Traded(w, c))
         IN (\A s \in Symbols : v[s] \in Int) /\ Traded(v, c) <= limit
<1> DEFINE b == Traded(w, c)
           v == Towards(w, c, limit, b)
           sizes == [s \in Symbols |-> Size(w[s] - c[s])]
           moves == [s \in Symbols |-> Size(v[s] - c[s])]
           zero == [s \in Symbols |-> 0]
           part == [s \in Symbols |-> limit * sizes[s]]
           back == [s \in Symbols |-> b * moves[s]]
<1>1. b \in Nat \ {0} /\ b = Total(sizes, Symbols) /\ \A s \in Symbols : sizes[s] \in Nat
  BY TradedFacts
<1>2. ASSUME NEW s \in Symbols
      PROVE  /\ v[s] \in Int /\ v[s] - c[s] = Part(w[s] - c[s], limit, b)
             /\ moves[s] \in Nat /\ b * moves[s] <= limit * sizes[s]
  <2> HIDE DEF b
  <2>1. w[s] - c[s] \in Int /\ c[s] \in Int
    OBVIOUS
  <2> DEFINE p == Part(w[s] - c[s], limit, b)
  <2>2. p \in Int /\ b * Size(p) <= limit * Size(w[s] - c[s])
    BY <1>1, <2>1, PartRange
  <2>3. v[s] = c[s] + p
    BY DEF Towards
  <2> HIDE DEF p, v
  <2>4. v[s] \in Int /\ v[s] - c[s] = p /\ Size(p) \in Nat
    BY <2>1, <2>2, <2>3, SizeRange
  <2>5. moves[s] = Size(p)
    BY <2>4
  <2> QED BY <2>2, <2>4, <2>5 DEF p
<1>3. Traded(v, c) = Total(moves, Symbols) /\ Total(moves, Symbols) \in Nat
  <2>1. \A s \in Symbols : v[s] \in Int /\ c[s] \in Int
    BY <1>2
  <2> HIDE DEF v
  <2> QED BY <2>1, TradedFacts
<1>4. \A s \in Symbols : moves[s] \in Nat /\ b * moves[s] <= limit * sizes[s]
  BY <1>2
<1> DEFINE sum == Total(moves, Symbols)
<1> HIDE DEF b, moves, sizes, sum
<1>5. Total(zero, Symbols) = 0
  <2>1. \A s \in Symbols : zero[s] = 0
    OBVIOUS
  <2> HIDE DEF zero
  <2>2. SumFunctionOnSet(zero, Symbols) = 0 * Cardinality(Symbols)
    BY <2>1, SymbolFacts, SumConstant
  <2> QED BY <2>2, SymbolFacts, FS_CardinalityType DEF Total
<1>6. Total(back, Symbols) = b * sum + 0
  <2>1. \A s \in Symbols : /\ moves[s] \in Int /\ zero[s] \in Int
                           /\ back[s] = b * moves[s] + zero[s]
    BY <1>1, <1>4
  <2> HIDE DEF back, zero
  <2> QED BY <1>1, <1>5, <2>1, SymbolFacts, SumLinear DEF Total, sum
<1>7. Total(part, Symbols) = limit * b + 0
  <2>1. \A s \in Symbols : /\ sizes[s] \in Int /\ zero[s] \in Int
                           /\ part[s] = limit * sizes[s] + zero[s]
    BY <1>1
  <2> HIDE DEF part, zero
  <2> QED BY <1>1, <1>5, <2>1, SymbolFacts, SumLinear DEF Total
<1>8. Total(back, Symbols) <= Total(part, Symbols)
  <2>1. \A s \in Symbols : back[s] \in Int /\ part[s] \in Int /\ back[s] <= part[s]
    BY <1>1, <1>4
  <2> HIDE DEF back, part
  <2> QED BY <2>1, SymbolFacts, SumMonotone DEF Total
<1>9. sum \in Nat
  BY <1>3 DEF sum
<1>10. sum <= limit
  <2> SUFFICES ASSUME sum > limit PROVE FALSE
    BY <1>9
  <2>1. (limit + 1) * b <= sum * b
    BY <1>1, <1>9, MulMono
  <2>2. /\ (limit + 1) * b = limit * b + b /\ sum * b = b * sum
        /\ limit * b \in Int /\ b * sum \in Int
    BY <1>1, <1>9
  <2>3. b * sum <= limit * b
    BY <1>6, <1>7, <1>8, <2>2
  <2> DEFINE x == limit * b
             y == b * sum
  <2>4. x \in Int /\ y \in Int /\ y <= x /\ x + b <= y
    BY <2>1, <2>2, <2>3
  <2> HIDE DEF x, y
  <2> QED BY <1>1, <2>4
<1>11. (\A s \in Symbols : v[s] \in Int) /\ Traded(v, c) <= limit
  <2>1. \A s \in Symbols : v[s] \in Int
    BY <1>2
  <2> HIDE DEF v
  <2>2. Traded(v, c) = sum
    BY <1>3 DEF sum
  <2> QED BY <1>10, <2>1, <2>2
<1> HIDE DEF v
<1> QED BY <1>11 DEF v, b

\* What normalising makes of whole numbers: a whole portfolio whose risky symbols
\* keep their long weights, or their shares of them if they are too many.
LEMMA NormalisedFacts ==
  ASSUME NEW v, \A s \in Symbols : v[s] \in Int
  PROVE  LET f == Normalised(v)
             long == [s \in Symbols |-> Positive(v[s])]
             all == Total(long, Risky)
         IN /\ f \in Weights /\ Total(f, Symbols) = WHOLE
            /\ f[CASH] = WHOLE - Total(f, Risky) /\ Total(f, Risky) \in 0..WHOLE
            /\ all \in Nat /\ \A s \in Symbols : long[s] = Positive(v[s]) /\ long[s] \in Nat
            /\ \A s \in Risky : f[s] \in Nat /\ f[s] <= long[s]
            /\ all <= WHOLE => \A s \in Risky : f[s] = long[s]
            /\ all > WHOLE => WHOLE - Total(f, Risky) < Cardinality(Risky)
<1> DEFINE f == Normalised(v)
           long == [s \in Symbols |-> Positive(v[s])]
           all == Total(long, Risky)
           shares == [s \in Risky |-> Part(long[s], WHOLE, all)]
           cut == [s \in Risky |->
                    IF all > WHOLE THEN Part(long[s], WHOLE, all) ELSE long[s]]
           sum == Total(cut, Risky)
<1>0. WHOLE \in Nat \ {0}
  BY DEF WHOLE
<1>1. \A s \in Symbols : long[s] = Positive(v[s]) /\ long[s] \in Nat
  BY PositiveRange
<1>2. f = WithCash(cut)
  BY DEF Normalised
<1> HIDE DEF long, f
<1>3. all \in Nat
  BY <1>1, SymbolFacts, SumNat DEF Total
<1>4. /\ \A s \in Risky : cut[s] \in Nat /\ cut[s] <= long[s] /\ (all <= WHOLE => cut[s] = long[s])
      /\ sum \in Nat /\ sum <= WHOLE
      /\ all > WHOLE => WHOLE - sum < Cardinality(Risky)
  <2>1. CASE all <= WHOLE
    <3>1. \A s \in Risky : cut[s] = long[s] /\ long[s] \in Nat /\ long[s] \in Int
      BY <1>1, <1>3, <2>1, <1>0, SymbolFacts
    <3>2. sum = all
      <4> HIDE DEF cut
      <4> QED BY <3>1, SymbolFacts, SumSame DEF Total
    <3> HIDE DEF all, sum, cut
    <3> QED BY <1>0, <1>3, <2>1, <3>1, <3>2
  <2>2. CASE all > WHOLE
    <3>1. cut = shares
      <4> HIDE DEF all
      <4> QED BY <2>2
    <3> HIDE DEF cut
    <3>2. \A s \in Risky : long[s] \in Nat
      BY <1>1, SymbolFacts
    <3>3. all = SumFunctionOnSet(long, Risky) /\ all > 0
      BY <1>0, <1>3, <2>2 DEF Total
    <3>4. /\ \A s \in Risky : shares[s] \in Nat /\ (WHOLE <= all => shares[s] <= long[s])
          /\ SumFunctionOnSet(shares, Risky) \in Nat /\ SumFunctionOnSet(shares, Risky) <= WHOLE
          /\ WHOLE - SumFunctionOnSet(shares, Risky) < Cardinality(Risky)
      BY <1>0, <3>2, <3>3, SymbolFacts, SharesFit
    <3>5. sum = SumFunctionOnSet(shares, Risky)
      BY <3>1 DEF Total
    <3> HIDE DEF all, sum, shares
    <3> QED BY <1>0, <1>3, <2>2, <3>1, <3>4, <3>5
  <2> QED BY <1>0, <1>3, <2>1, <2>2
<1> HIDE DEF all, cut
<1>5. /\ f \in Weights /\ Total(f, Symbols) = WHOLE
      /\ f[CASH] = WHOLE - sum /\ \A s \in Risky : f[s] = cut[s]
  BY <1>2, <1>4, WithCashWhole
<1>6. Total(f, Risky) = sum
  <2>1. \A s \in Risky : cut[s] \in Int /\ f[s] = cut[s]
    BY <1>4, <1>5
  <2> QED BY <2>1, SymbolFacts, SumSame DEF Total
<1> HIDE DEF sum
<1>7. Total(f, Risky) \in 0..WHOLE
  BY <1>0, <1>4, <1>6
<1> QED BY <1>1, <1>3, <1>4, <1>5, <1>6, <1>7 DEF f, long, all

\* Normalising at most doubles what is traded against a whole portfolio, but for
\* what the truncations of a cut leave.
LEMMA NormalisedTraded ==
  ASSUME NEW v, \A s \in Symbols : v[s] \in Int,
         NEW c \in Weights, Total(c, Symbols) = WHOLE,
         NEW dust \in Nat, Cardinality(Risky) <= dust + 1
  PROVE  Traded(Normalised(v), c) <= 2 * Traded(v, c) + 2 * dust
<1> DEFINE f == Normalised(v)
           long == [s \in Symbols |-> Positive(v[s])]
           off == [s \in Symbols |-> Size(v[s] - c[s])]
           move == [s \in Symbols |-> Size(f[s] - c[s])]
           gap == [s \in Symbols |-> long[s] - f[s]]
           D == Total(off, Risky)
           R == Total(long, Risky)
           K == Total(f, Risky)
           C == Total(c, Risky)
           A == Total(move, Risky)
<1>0. WHOLE \in Nat /\ Cardinality(Risky) \in Nat
  BY SymbolFacts DEF WHOLE
<1>1. \A s \in Symbols : c[s] \in Int /\ c[s] >= 0
  BY WeightRange
<1>2. /\ f \in Weights /\ f[CASH] = WHOLE - K /\ K \in 0..WHOLE
      /\ R \in Nat /\ \A s \in Symbols : long[s] = Positive(v[s]) /\ long[s] \in Nat
      /\ \A s \in Risky : f[s] \in Nat /\ f[s] <= long[s]
      /\ R <= WHOLE => \A s \in Risky : f[s] = long[s]
      /\ R > WHOLE => WHOLE - K < Cardinality(Risky)
  BY NormalisedFacts
<1>3. /\ Traded(v, c) = off[CASH] + D /\ D \in Nat /\ off[CASH] \in Nat
      /\ \A s \in Symbols : off[s] \in Nat
      /\ \A s \in Risky : off[s] = Size(v[s] - c[s])
  BY <1>1, SymbolFacts, TradedFacts
<1>4. /\ Traded(f, c) = Size(f[CASH] - c[CASH]) + A /\ A \in Nat
      /\ \A s \in Symbols : move[s] \in Nat
      /\ \A s \in Risky : move[s] = Size(f[s] - c[s])
  <2>1. \A s \in Symbols : f[s] \in Int
    <3> HIDE DEF f
    <3> QED BY <1>2, WeightRange
  <2> HIDE DEF f
  <2> QED BY <1>1, <2>1, TradedFacts
<1>5. c[CASH] = WHOLE - C /\ C \in Nat /\ C <= WHOLE
  <2>1. WHOLE = c[CASH] + C /\ C \in Int
    BY <1>1, TotalSplit
  <2>2. C \in Nat
    <3>1. \A s \in Risky : c[s] \in Nat
      BY <1>1, SymbolFacts
    <3> QED BY <3>1, SymbolFacts, SumNat DEF Total
  <2>3. c[CASH] \in Int /\ c[CASH] >= 0
    BY <1>1, SymbolFacts
  <2> HIDE DEF C
  <2> QED BY <1>0, <2>1, <2>2, <2>3
<1> HIDE DEF f, long, off, move
\* Each symbol's long weight is off by no more than its weight was.
<1>6. \A s \in Risky : /\ long[s] - c[s] <= off[s] /\ c[s] - long[s] <= off[s]
                       /\ move[s] <= off[s] + gap[s] /\ gap[s] \in Nat
                       /\ long[s] \in Int /\ c[s] \in Int /\ off[s] \in Int /\ move[s] \in Int
                       /\ f[s] \in Int /\ gap[s] = long[s] - f[s]
  <2> SUFFICES ASSUME NEW s \in Risky
               PROVE  /\ long[s] - c[s] <= off[s] /\ c[s] - long[s] <= off[s]
                      /\ move[s] <= off[s] + gap[s] /\ gap[s] \in Nat
                      /\ long[s] \in Int /\ c[s] \in Int /\ off[s] \in Int /\ move[s] \in Int
                      /\ f[s] \in Int /\ gap[s] = long[s] - f[s]
    OBVIOUS
  <2>1. s \in Symbols /\ v[s] \in Int /\ c[s] \in Int /\ c[s] >= 0
    BY <1>1, SymbolFacts
  <2>2. /\ long[s] = Positive(v[s]) /\ long[s] \in Nat /\ f[s] \in Nat /\ f[s] <= long[s]
        /\ off[s] = Size(v[s] - c[s]) /\ move[s] = Size(f[s] - c[s])
        /\ off[s] \in Nat /\ move[s] \in Nat
    BY <1>2, <1>3, <1>4, <2>1
  <2>3. gap[s] = long[s] - f[s] /\ gap[s] \in Nat
    BY <2>1, <2>2
  <2>4. long[s] - c[s] <= off[s] /\ c[s] - long[s] <= off[s]
    BY <2>1, <2>2 DEF Positive, Size, Greatest
  <2>5. move[s] = f[s] - c[s] \/ move[s] = c[s] - f[s]
    BY <2>1, <2>2 DEF Size, Greatest
  <2> HIDE DEF gap
  <2> QED BY <2>1, <2>2, <2>3, <2>4, <2>5
<1> HIDE DEF gap
<1> DEFINE G == Total(gap, Risky)
           lc == [s \in Risky |-> long[s] - c[s]]
           cl == [s \in Risky |-> c[s] - long[s]]
           both == [s \in Risky |-> off[s] + gap[s]]
<1>7. G = R - K /\ G \in Nat
  <2>1. \A s \in Risky : gap[s] \in Int /\ f[s] \in Int /\ long[s] = 1 * gap[s] + f[s]
    BY <1>6
  <2>2. R = 1 * G + K
    BY <2>1, SymbolFacts, SumLinear DEF Total
  <2>3. G \in Nat
    BY <1>6, SymbolFacts, SumNat DEF Total
  <2> HIDE DEF G, R, K
  <2> QED BY <1>2, <2>2, <2>3
<1>8. R - C <= D
  <2>1. \A s \in Risky : lc[s] \in Int /\ c[s] \in Int /\ long[s] = 1 * lc[s] + c[s] /\ lc[s] <= off[s]
    BY <1>6
  <2> HIDE DEF lc
  <2>2. R = 1 * Total(lc, Risky) + C
    BY <2>1, SymbolFacts, SumLinear DEF Total
  <2>3. Total(lc, Risky) <= D /\ Total(lc, Risky) \in Int
    BY <1>6, <2>1, SymbolFacts, SumMonotone, SumType DEF Total
  <2> HIDE DEF R, C, D
  <2> QED BY <1>2, <1>3, <1>5, <2>2, <2>3
<1>9. C - R <= D
  <2>1. \A s \in Risky : cl[s] \in Int /\ long[s] \in Int /\ c[s] = 1 * cl[s] + long[s] /\ cl[s] <= off[s]
    BY <1>6
  <2> HIDE DEF cl
  <2>2. C = 1 * Total(cl, Risky) + R
    BY <2>1, SymbolFacts, SumLinear DEF Total
  <2>3. Total(cl, Risky) <= D /\ Total(cl, Risky) \in Int
    BY <1>6, <2>1, SymbolFacts, SumMonotone, SumType DEF Total
  <2> HIDE DEF R, C, D
  <2> QED BY <1>2, <1>3, <1>5, <2>2, <2>3
<1>10. A <= D + G
  <2>1. \A s \in Risky : /\ both[s] \in Int /\ off[s] \in Int /\ gap[s] \in Int
                         /\ both[s] = 1 * off[s] + gap[s] /\ move[s] <= both[s] /\ move[s] \in Int
    BY <1>6
  <2> HIDE DEF both
  <2>2. Total(both, Risky) = 1 * D + G
    BY <2>1, SymbolFacts, SumLinear DEF Total
  <2>3. A <= Total(both, Risky)
    BY <2>1, SymbolFacts, SumMonotone DEF Total
  <2> HIDE DEF A, D, G
  <2> QED BY <1>3, <1>7, <2>2, <2>3
<1>11. R <= WHOLE => R = K
  <2> SUFFICES ASSUME R <= WHOLE PROVE R = K
    OBVIOUS
  <2>1. \A s \in Risky : long[s] \in Int /\ f[s] = long[s]
    BY <1>2, <1>6
  <2> QED BY <2>1, SymbolFacts, SumSame DEF Total
<1> HIDE DEF A, C, D, G, K, R
<1>12. Size(f[CASH] - c[CASH]) = C - K \/ Size(f[CASH] - c[CASH]) = K - C
  <2>1. f[CASH] - c[CASH] = C - K /\ C - K \in Int
    BY <1>0, <1>2, <1>5
  <2>2. -(C - K) = K - C
    BY <1>2, <1>5
  <2> QED BY <2>1, <2>2, SizeRange
<1>13. Size(f[CASH] - c[CASH]) + A <= 2 * D + 2 * dust
  <2> DEFINE m == Size(f[CASH] - c[CASH])
  <2>1. m = C - K \/ m = K - C
    BY <1>12
  <2> HIDE DEF m
  <2>2. CASE R <= WHOLE
    BY <1>2, <1>3, <1>4, <1>5, <1>7, <1>8, <1>9, <1>10, <1>11, <2>1, <2>2 DEF m
  <2>3. CASE R > WHOLE
    <3>1. WHOLE - K <= dust
      BY <1>0, <1>2, <2>3
    <3> QED
      BY <1>0, <1>2, <1>3, <1>4, <1>5, <1>7, <1>8, <1>10, <2>1, <3>1 DEF m
  <2> QED BY <1>0, <1>2, <2>2, <2>3
<1>14. D <= Traded(v, c) /\ Traded(v, c) \in Nat
  BY <1>3
<1> QED
  <2>1. Traded(f, c) <= 2 * D + 2 * dust
    BY <1>4, <1>13
  <2>2. Traded(f, c) <= 2 * Traded(v, c) + 2 * dust
    <3>1. Traded(f, c) \in Int
      BY <1>2, <1>4, <1>12, <1>5
    <3> QED BY <1>3, <1>14, <2>1, <3>1
  <2> QED BY <2>2 DEF f

\* Normalising trades no more against a whole portfolio than before, but for what
\* the weights were off the whole and what the truncations of a cut leave.
LEMMA NormalisedAstray ==
  ASSUME NEW v, \A s \in Symbols : v[s] \in Int,
         NEW c \in Weights, Total(c, Symbols) = WHOLE,
         NEW dust \in Nat, Cardinality(Risky) <= dust + 1
  PROVE  Traded(Normalised(v), c) <=
           Traded(v, c) + Size(Total(v, Symbols) - WHOLE) + 2 * dust
<1> DEFINE f == Normalised(v)
           long == [s \in Symbols |-> Positive(v[s])]
           off == [s \in Symbols |-> Size(v[s] - c[s])]
           move == [s \in Symbols |-> Size(f[s] - c[s])]
           change == [s \in Risky |-> v[s] - f[s]]
           bound == [s \in Risky |-> off[s] + change[s]]
           C == Total(c, Risky)
           D == Total(off, Risky)
           K == Total(f, Risky)
           R == Total(long, Risky)
           V == Total(v, Risky)
           A == Total(move, Risky)
<1>0. WHOLE \in Nat /\ Cardinality(Risky) \in Nat
  BY SymbolFacts DEF WHOLE
<1>1. \A s \in Symbols : c[s] \in Int /\ c[s] >= 0
  BY WeightRange
<1>2. /\ f \in Weights /\ f[CASH] = WHOLE - K /\ K \in 0..WHOLE
      /\ R \in Nat /\ \A s \in Symbols : long[s] = Positive(v[s]) /\ long[s] \in Nat
      /\ \A s \in Risky : f[s] \in Nat /\ f[s] <= long[s]
      /\ R <= WHOLE => \A s \in Risky : f[s] = long[s]
      /\ R > WHOLE => WHOLE - K < Cardinality(Risky)
  BY NormalisedFacts
<1>3. /\ Traded(v, c) = off[CASH] + D /\ D \in Nat /\ off[CASH] = Size(v[CASH] - c[CASH])
      /\ \A s \in Risky : off[s] = Size(v[s] - c[s])
  BY <1>1, SymbolFacts, TradedFacts
<1>4. /\ Traded(f, c) = Size(f[CASH] - c[CASH]) + A /\ A \in Nat
      /\ \A s \in Risky : move[s] = Size(f[s] - c[s])
  <2>1. \A s \in Symbols : f[s] \in Int
    <3> HIDE DEF f
    <3> QED BY <1>2, WeightRange
  <2> HIDE DEF f
  <2> QED BY <1>1, <2>1, TradedFacts
<1>5. c[CASH] = WHOLE - C /\ C \in Int /\ c[CASH] >= 0
  <2>1. WHOLE = c[CASH] + C /\ C \in Int
    BY <1>1, TotalSplit
  <2>2. c[CASH] \in Int /\ c[CASH] >= 0
    BY <1>1, SymbolFacts
  <2> HIDE DEF C
  <2> QED BY <1>0, <2>1, <2>2
<1>6. Total(v, Symbols) = v[CASH] + V /\ V \in Int /\ v[CASH] \in Int
  BY TotalSplit, SymbolFacts
<1> HIDE DEF f, long, off, move
\* A weight that normalising lowers may be further off by what it loses.
<1>7. \A s \in Risky : /\ move[s] <= bound[s] /\ bound[s] = 1 * off[s] + change[s]
                       /\ v[s] = 1 * change[s] + f[s] /\ v[s] <= long[s]
                       /\ {move[s], bound[s], off[s], change[s], v[s], f[s], long[s]} \subseteq Int
  <2> SUFFICES ASSUME NEW s \in Risky
               PROVE  /\ move[s] <= bound[s] /\ bound[s] = 1 * off[s] + change[s]
                      /\ v[s] = 1 * change[s] + f[s] /\ v[s] <= long[s]
                      /\ {move[s], bound[s], off[s], change[s], v[s], f[s], long[s]} \subseteq Int
    OBVIOUS
  <2>1. v[s] \in Int /\ c[s] \in Int /\ c[s] >= 0
    BY <1>1, SymbolFacts
  <2>2. long[s] = Positive(v[s]) /\ f[s] \in Nat /\ f[s] <= long[s]
    BY <1>2, SymbolFacts
  <2>3. off[s] = Size(v[s] - c[s]) /\ move[s] = Size(f[s] - c[s])
    BY <1>3, <1>4
  <2>4. change[s] = v[s] - f[s] /\ bound[s] = off[s] + change[s]
    OBVIOUS
  <2> HIDE DEF change, bound
  <2>5. off[s] \in Int /\ move[s] \in Int /\ long[s] \in Int /\ v[s] <= long[s]
    BY <2>1, <2>2, <2>3 DEF Positive, Size, Greatest
  <2>6. move[s] <= off[s] + (v[s] - f[s])
    BY <2>1, <2>2, <2>3 DEF Positive, Size, Greatest
  <2> QED BY <2>1, <2>2, <2>4, <2>5, <2>6
<1> HIDE DEF change, bound
<1>8. A <= D + (V - K)
  <2>1. A <= Total(bound, Risky)
    BY <1>7, SymbolFacts, SumMonotone DEF Total
  <2>2. Total(bound, Risky) = 1 * D + Total(change, Risky)
    BY <1>7, SymbolFacts, SumLinear DEF Total
  <2>3. V = 1 * Total(change, Risky) + K
    BY <1>7, SymbolFacts, SumLinear DEF Total
  <2>4. Total(change, Risky) \in Int
    BY <1>7, SymbolFacts, SumType DEF Total
  <2> HIDE DEF A, D, K, V
  <2> QED BY <1>2, <1>3, <1>4, <1>6, <2>1, <2>2, <2>3, <2>4
<1>9. V <= R
  BY <1>7, SymbolFacts, SumMonotone DEF Total
<1>10. R <= WHOLE => R = K
  <2> SUFFICES ASSUME R <= WHOLE PROVE R = K
    OBVIOUS
  <2>1. \A s \in Risky : long[s] \in Int /\ f[s] = long[s]
    BY <1>2, <1>7
  <2> QED BY <2>1, SymbolFacts, SumSame DEF Total
<1> HIDE DEF A, C, D, K, R, V
<1> DEFINE new == f[CASH]
           old == v[CASH]
           had == c[CASH]
           astray == Size(Total(v, Symbols) - WHOLE)
<1>11. /\ new = WHOLE - K /\ new \in Nat /\ had \in Nat /\ old \in Int /\ K \in Int
       /\ R > WHOLE => new <= dust
  BY <1>0, <1>2, <1>5, <1>6
<1>12. Size(new - had) \in Nat /\ Size(old - had) \in Nat /\ astray \in Nat
  <2>1. new - had \in Int /\ old - had \in Int /\ Total(v, Symbols) - WHOLE \in Int
    BY <1>0, <1>6, <1>11
  <2> QED BY <2>1, SizeRange
<1>13. Size(new - had) + (V - K) <= Size(old - had) + astray + 2 * dust
  <2> DEFINE x == new - had
             y == old - had
             z == old + V - WHOLE
  <2>1. /\ Size(x) = x \/ Size(x) = -x
        /\ Size(y) >= y /\ Size(y) >= -y
        /\ astray >= old + (V - WHOLE) /\ astray >= WHOLE - old - V
    <3>1. x \in Int /\ y \in Int
      BY <1>11
    <3>2. Total(v, Symbols) - WHOLE \in Int
      BY <1>0, <1>6
    <3>3. astray >= Total(v, Symbols) - WHOLE /\ astray >= -(Total(v, Symbols) - WHOLE)
      BY <3>2, SizeRange
    <3>4. Size(x) = x \/ Size(x) = -x
      BY <3>1, SizeRange
    <3>5. Size(y) >= y /\ Size(y) >= -y
      BY <3>1, SizeRange
    <3> HIDE DEF astray, x, y
    <3>6. astray >= old + (V - WHOLE) /\ astray >= WHOLE - old - V
      BY <1>0, <1>6, <1>12, <3>3
    <3> QED BY <3>4, <3>5, <3>6
  <2> DEFINE sx == Size(x)
             sy == Size(y)
  <2>2. sx = new - had \/ sx = had - new
    BY <1>11, <2>1
  <2>3. sy >= old - had /\ sy >= had - old
    BY <1>11, <2>1
  <2>4. sx \in Nat /\ sy \in Nat
    BY <1>12
  <2> HIDE DEF astray, new, old, had, sx, sy
  <2>5. CASE R <= WHOLE
    BY <1>0, <1>2, <1>6, <1>9, <1>10, <1>11, <1>12, <2>1, <2>2, <2>3, <2>4, <2>5
  <2>6. CASE R > WHOLE
    BY <1>0, <1>6, <1>11, <1>12, <2>1, <2>2, <2>3, <2>4, <2>6
  <2> QED BY <1>0, <1>2, <2>5, <2>6 DEF sx, sy
<1> DEFINE sx == Size(new - had)
           sy == Size(old - had)
<1>14. /\ Traded(f, c) = sx + A /\ Traded(v, c) = sy + D
       /\ sx + (V - K) <= sy + astray + 2 * dust
       /\ sx \in Nat /\ sy \in Nat /\ astray \in Nat /\ K \in Int
  BY <1>3, <1>4, <1>11, <1>12, <1>13
<1> HIDE DEF sx, sy, astray
<1>15. Traded(f, c) <= Traded(v, c) + astray + 2 * dust
  BY <1>3, <1>4, <1>6, <1>8, <1>14
<1> QED BY <1>15 DEF f, astray

\* On the way from a whole portfolio to weights that are off the whole one is no
\* further off, but for the truncations.
LEMMA TowardsAstray ==
  ASSUME NEW w, NEW c, \A s \in Symbols : w[s] \in Int /\ c[s] \in Int,
         Total(c, Symbols) = WHOLE, NEW limit \in Nat, Traded(w, c) > limit
  PROVE  LET v == Towards(w, c, limit, Traded(w, c))
         IN Size(Total(v, Symbols) - WHOLE) <=
              Size(Total(w, Symbols) - WHOLE) + Cardinality(Risky)
<1> DEFINE b == Traded(w, c)
           v == Towards(w, c, limit, b)
           x == [s \in Symbols |-> w[s] - c[s]]
           p == [s \in Symbols |-> Part(x[s], limit, b)]
           n == Cardinality(Symbols)
           most == [s \in Symbols |-> b - 1]
           up == [s \in Symbols |-> limit * x[s] + most[s]]
           down == [s \in Symbols |-> b * p[s] + most[s]]
           zero == [s \in Symbols |-> 0]
           far == [s \in Symbols |-> limit * x[s]]
           back == [s \in Symbols |-> b * p[s]]
           X == Total(x, Symbols)
           P == Total(p, Symbols)
<1>1. b \in Nat \ {0} /\ limit < b /\ WHOLE \in Nat
  <2>1. b \in Nat /\ limit < b
    BY TradedFacts
  <2> HIDE DEF b
  <2> QED BY <2>1 DEF WHOLE
<1>2. n \in Nat /\ n = Cardinality(Risky) + 1
  BY SymbolFacts, FS_RemoveElement, FS_CardinalityType
<1> HIDE DEF b
<1>3. \A s \in Symbols : /\ x[s] \in Int /\ p[s] \in Int /\ w[s] = 1 * x[s] + c[s]
                         /\ v[s] = 1 * p[s] + c[s]
                         /\ b * p[s] <= limit * x[s] + (b - 1)
                         /\ limit * x[s] <= b * p[s] + (b - 1)
                         /\ b * p[s] \in Int /\ limit * x[s] \in Int
  <2> SUFFICES ASSUME NEW s \in Symbols
               PROVE  /\ x[s] \in Int /\ p[s] \in Int /\ w[s] = 1 * x[s] + c[s]
                      /\ v[s] = 1 * p[s] + c[s]
                      /\ b * p[s] <= limit * x[s] + (b - 1)
                      /\ limit * x[s] <= b * p[s] + (b - 1)
                      /\ b * p[s] \in Int /\ limit * x[s] \in Int
    OBVIOUS
  <2>1. w[s] \in Int /\ c[s] \in Int /\ x[s] = w[s] - c[s] /\ x[s] \in Int
    OBVIOUS
  <2>2. p[s] = Part(x[s], limit, b) /\ v[s] = c[s] + p[s]
    BY DEF Towards
  <2> DEFINE y == x[s]
             q == p[s]
  <2>3. y \in Int /\ q = Part(y, limit, b)
    BY <2>1, <2>2
  <2> HIDE DEF x, p, y, q
  <2>4. /\ q \in Int
        /\ y >= 0 => limit * y - (b - 1) <= b * q /\ b * q <= limit * y
        /\ y <= 0 => limit * y <= b * q /\ b * q <= limit * y + (b - 1)
    BY <1>1, <2>3, PartRange
  <2>5. b * q \in Int /\ limit * y \in Int /\ b - 1 \in Nat
    BY <1>1, <2>3, <2>4
  <2>6. b * q <= limit * y + (b - 1) /\ limit * y <= b * q + (b - 1)
    <3> DEFINE bq == b * q
               ly == limit * y
               one == b - 1
    <3>1. /\ bq \in Int /\ ly \in Int /\ one \in Nat
          /\ y >= 0 => ly - one <= bq /\ bq <= ly
          /\ y <= 0 => ly <= bq /\ bq <= ly + one
      BY <2>4, <2>5
    <3> HIDE DEF bq, ly, one
    <3>2. bq <= ly + one /\ ly <= bq + one
      BY <2>3, <3>1
    <3> QED BY <3>2 DEF bq, ly, one
  <2>7. w[s] = 1 * x[s] + c[s] /\ v[s] = 1 * p[s] + c[s]
    BY <2>1, <2>2, <2>4 DEF q
  <2> QED BY <2>1, <2>4, <2>5, <2>6, <2>7 DEF y, q
<1> HIDE DEF x, p, v
<1>4. Total(w, Symbols) = 1 * X + WHOLE /\ Total(v, Symbols) = 1 * P + WHOLE
  <2>1. Total(w, Symbols) = 1 * X + Total(c, Symbols)
    BY <1>3, SymbolFacts, SumLinear DEF Total
  <2>2. Total(v, Symbols) = 1 * P + Total(c, Symbols)
    BY <1>3, SymbolFacts, SumLinear DEF Total
  <2> QED BY <2>1, <2>2
<1>5. X \in Int /\ P \in Int
  BY <1>3, SymbolFacts, SumType DEF Total
<1>6. Total(most, Symbols) = (b - 1) * n
  <2>1. b - 1 \in Int /\ \A s \in Symbols : most[s] = b - 1
    BY <1>1
  <2> HIDE DEF most
  <2> QED BY <2>1, SymbolFacts, SumConstant DEF Total
<1>7. Total(far, Symbols) = limit * X /\ Total(back, Symbols) = b * P
  <2>0. Total(zero, Symbols) = 0
    <3>1. 0 \in Int /\ \A s \in Symbols : zero[s] = 0
      OBVIOUS
    <3> HIDE DEF zero
    <3>2. SumFunctionOnSet(zero, Symbols) = 0 * Cardinality(Symbols)
      BY <3>1, SymbolFacts, SumConstant, Zenon
    <3> QED BY <1>2, <3>2 DEF Total
  <2>1. \A s \in Symbols : /\ far[s] = limit * x[s] + zero[s] /\ zero[s] \in Int
                           /\ back[s] = b * p[s] + zero[s]
    BY <1>3
  <2> HIDE DEF far, back, zero
  <2>2. Total(far, Symbols) = limit * X + Total(zero, Symbols)
    BY <1>3, <2>1, SymbolFacts, SumLinear DEF Total
  <2>3. Total(back, Symbols) = b * P + Total(zero, Symbols)
    BY <1>1, <1>3, <2>1, SymbolFacts, SumLinear DEF Total
  <2>4. limit * X \in Int /\ b * P \in Int
    BY <1>1, <1>5
  <2> QED BY <2>0, <2>2, <2>3, <2>4
<1>8. \A s \in Symbols : /\ most[s] \in Int /\ far[s] \in Int /\ back[s] \in Int
                         /\ up[s] = 1 * far[s] + most[s] /\ down[s] = 1 * back[s] + most[s]
                         /\ back[s] <= up[s] /\ far[s] <= down[s]
                         /\ up[s] \in Int /\ down[s] \in Int
  <2>1. \A s \in Symbols : /\ most[s] = b - 1 /\ far[s] = limit * x[s] /\ back[s] = b * p[s]
                           /\ up[s] = far[s] + most[s] /\ down[s] = back[s] + most[s]
    OBVIOUS
  <2> HIDE DEF most, far, back, up, down
  <2>2. b - 1 \in Int
    BY <1>1
  <2>3. \A s \in Symbols : /\ most[s] \in Int /\ far[s] \in Int /\ back[s] \in Int
                           /\ back[s] <= far[s] + most[s] /\ far[s] <= back[s] + most[s]
    BY <1>3, <2>1, <2>2
  <2> QED BY <2>1, <2>3
<1> HIDE DEF most, far, back, up, down
<1>9. b * P <= limit * X + (b - 1) * n /\ limit * X <= b * P + (b - 1) * n
  <2>1. Total(up, Symbols) = 1 * Total(far, Symbols) + Total(most, Symbols)
    BY <1>8, SymbolFacts, SumLinear DEF Total
  <2>2. Total(down, Symbols) = 1 * Total(back, Symbols) + Total(most, Symbols)
    BY <1>8, SymbolFacts, SumLinear DEF Total
  <2>3. Total(back, Symbols) <= Total(up, Symbols) /\ Total(far, Symbols) <= Total(down, Symbols)
    BY <1>8, SymbolFacts, SumMonotone DEF Total
  <2>4. limit * X \in Int /\ b * P \in Int /\ (b - 1) * n \in Int
    BY <1>1, <1>2, <1>5
  <2> QED BY <1>6, <1>7, <2>1, <2>2, <2>3, <2>4
<1> DEFINE m == Size(X)
<1>10. m \in Nat /\ X <= m /\ -X <= m
  BY <1>5, SizeRange
<1> HIDE DEF X, P, n, m
\* |P| < |X| + n, since b times the one is less than b times the other.
<1>11. limit * X <= b * m /\ -(b * m) <= limit * X
  <2>1. limit * X <= limit * m /\ limit * m <= b * m
    <3>1. X * limit <= m * limit /\ limit * m <= b * m
      BY <1>1, <1>5, <1>10, MulMono
    <3> QED BY <1>1, <1>5, <1>10, <3>1
  <2>2. limit * (-X) <= limit * m
    <3>1. (-X) * limit <= m * limit
      <4>1. -X \in Int
        BY <1>5
      <4> QED BY <1>1, <1>10, <4>1, MulMono
    <3> QED BY <1>1, <1>5, <1>10, <3>1
  <2>3. limit * (-X) = -(limit * X) /\ limit * X \in Int /\ limit * m \in Int /\ b * m \in Int
    BY <1>1, <1>5, <1>10
  <2> QED BY <2>1, <2>2, <2>3
<1>12. b * P <= b * m + (b * n - n) /\ -(b * m) - (b * n - n) <= b * P
  <2>1. (b - 1) * n = b * n - n /\ {b * P, limit * X, b * n, b * m, n} \subseteq Int
    BY <1>1, <1>2, <1>5, <1>10
  <2> QED BY <1>9, <1>11, <2>1
<1>13. n >= 1
  BY <1>2, SymbolFacts DEF n
<1>14. P < m + n
  <2> SUFFICES ASSUME P >= m + n PROVE FALSE
    BY <1>2, <1>5, <1>10
  <2>1. (m + n) * b <= P * b
    BY <1>1, <1>2, <1>5, <1>10, MulMono
  <2>2. (m + n) * b = b * m + b * n /\ P * b = b * P /\ {b * P, b * n, b * m, n} \subseteq Int
    BY <1>1, <1>2, <1>5, <1>10
  <2> QED BY <1>12, <1>13, <2>1, <2>2
<1>15. -P < m + n
  <2> SUFFICES ASSUME -P >= m + n PROVE FALSE
    BY <1>2, <1>5, <1>10
  <2>1. (m + n) * b <= (-P) * b
    <3>1. -P \in Int
      BY <1>5
    <3> QED BY <1>1, <1>2, <1>10, <3>1, MulMono
  <2>2. (m + n) * b = b * m + b * n /\ (-P) * b = -(b * P) /\ {b * P, b * n, b * m, n} \subseteq Int
    BY <1>1, <1>2, <1>5, <1>10
  <2> QED BY <1>12, <1>13, <2>1, <2>2
<1>16. Size(P) <= m + Cardinality(Risky)
  <2>1. n = Cardinality(Risky) + 1 /\ Cardinality(Risky) \in Nat
    BY <1>2, SymbolFacts
  <2>2. Size(P) = P \/ Size(P) = -P
    BY <1>5, SizeRange
  <2> QED BY <1>5, <1>10, <1>14, <1>15, <2>1, <2>2
<1>17. Total(w, Symbols) - WHOLE = X /\ Total(v, Symbols) - WHOLE = P
  BY <1>1, <1>4, <1>5
<1> QED BY <1>16, <1>17 DEF m, v, b

-----------------------------------------------------------------------------
(* The passes keep whole numbers *)

\* Bounds of weights are whole, so what is bounded by them is.
LEMMA BoundedType ==
  ASSUME NEW w, \A s \in Symbols : w[s] \in Int
  PROVE  \A s \in Symbols : Bounded(w)[s] \in Int
<1>1. MinWeight \in Weights /\ MaxWeight \in Weights
  BY ConstraintsAssumption
<1>2. ASSUME NEW s \in Symbols PROVE Bounded(w)[s] \in Int
  <2>1. MinWeight[s] \in Int /\ MaxWeight[s] \in Int /\ w[s] \in Int
    BY <1>1, WeightRange
  <2>2. Bounded(w)[s] = Greatest(MinWeight[s], Least(MaxWeight[s], w[s]))
    BY DEF Bounded
  <2> QED BY <2>1, <2>2 DEF Greatest, Least
<1> QED BY <1>2

\* What the assumption says of one bound.
LEMMA BoundFacts ==
  /\ Len(SleeveBounds) \in Nat /\ DOMAIN SleeveBounds = 1..Len(SleeveBounds)
  /\ \A i \in 1..Len(SleeveBounds) :
       /\ SleeveBounds[i].lower \in Nat /\ SleeveBounds[i].upper \in Nat
       /\ SleeveBounds[i].lower <= SleeveBounds[i].upper
<1>1. SleeveBounds \in Seq(Range(SleeveBounds))
  BY ConstraintsAssumption
<1>2. Len(SleeveBounds) \in Nat /\ DOMAIN SleeveBounds = 1..Len(SleeveBounds)
  BY <1>1
<1> QED
  BY <1>2, ConstraintsAssumption

\* The members of a sleeve are some of the symbols.
LEMMA MembersFacts ==
  ASSUME NEW name, NEW w, \A s \in Symbols : w[s] \in Int
  PROVE  /\ Of(name) \subseteq Symbols /\ IsFiniteSet(Of(name))
         /\ Cardinality(Of(name)) \in Nat
         /\ Of(name) # {} => Cardinality(Of(name)) \in Nat \ {0}
         /\ Total(w, Of(name)) \in Int
<1>1. Of(name) \subseteq Symbols /\ IsFiniteSet(Of(name))
  BY SymbolFacts, FS_Subset DEF Of
<1>2. /\ Cardinality(Of(name)) \in Nat
      /\ Of(name) # {} => Cardinality(Of(name)) # 0
  BY <1>1, FS_CardinalityType, FS_EmptySet
<1>3. Total(w, Of(name)) \in Int
  <2>1. \A s \in Of(name) : w[s] \in Int
    BY <1>1
  <2> QED BY <1>1, <2>1, SumType DEF Total
<1> QED BY <1>1, <1>2, <1>3

LEMMA ToppedType ==
  ASSUME NEW w, \A s \in Symbols : w[s] \in Int, NEW name, Of(name) # {}, NEW deficit \in Int
  PROVE  \A s \in Symbols : Topped(w, Of(name), deficit)[s] \in Int
<1> DEFINE members == Of(name)
           share == Least(deficit, Positive(w[CASH])) \div Cardinality(members)
           added == [s \in Symbols |-> IF s \in members THEN w[s] + share ELSE w[s]]
           paid == share * Cardinality(members)
<1>1. Cardinality(members) \in Nat \ {0}
  BY MembersFacts
<1>2. Least(deficit, Positive(w[CASH])) \in Int
  <2>1. Positive(w[CASH]) \in Nat
    BY SymbolFacts, PositiveRange
  <2> QED BY <2>1 DEF Least
<1>3. share \in Int
  <2> HIDE DEF members
  <2> QED BY <1>1, <1>2, DivRange
<1> HIDE DEF share
<1>4. \A s \in Symbols : added[s] \in Int
  BY <1>3
<1>5. paid \in Int
  <2> HIDE DEF members
  <2> QED BY <1>1, <1>3
<1>6. Topped(w, members, deficit) = [added EXCEPT ![CASH] = Positive(added[CASH] - paid)]
  BY DEF Topped, share
<1> HIDE DEF members, paid
<1>7. Positive(added[CASH] - paid) \in Nat
  <2> HIDE DEF added
  <2>1. added[CASH] - paid \in Int
    BY <1>4, <1>5, SymbolFacts
  <2> QED BY <2>1, PositiveRange
<1>8. \A s \in Symbols : Topped(w, members, deficit)[s] =
        IF s = CASH THEN Positive(added[CASH] - paid) ELSE added[s]
  BY <1>6
<1> QED
  <2> HIDE DEF added
  <2> QED BY <1>4, <1>7, <1>8 DEF members

\* The bound of a sleeve, met, missed or without members.
LEMMA WithinSleeveType ==
  ASSUME NEW w, \A s \in Symbols : w[s] \in Int, NEW i \in 1..Len(SleeveBounds)
  PROVE  \A s \in Symbols : WithinSleeve(w, SleeveBounds[i])[s] \in Int
<1> DEFINE bound == SleeveBounds[i]
           members == Of(bound.name)
           total == Total(w, members)
<1>1. bound.lower \in Nat /\ bound.upper \in Nat
  BY BoundFacts
<1>2. total \in Int
  BY MembersFacts
<1> HIDE DEF bound, total
<1>3. CASE members = {}
  <2>1. WithinSleeve(w, bound) = w
    BY <1>3 DEF WithinSleeve
  <2> QED BY <2>1 DEF bound
<1>4. CASE members # {} /\ total > bound.upper
  <2>1. WithinSleeve(w, bound) =
          [s \in Symbols |-> IF s \in members THEN Part(w[s], bound.upper, total) ELSE w[s]]
    BY <1>4 DEF WithinSleeve, total
  <2>2. ASSUME NEW s \in Symbols PROVE Part(w[s], bound.upper, total) \in Int
    <3>1. total \in Nat \ {0} /\ w[s] \in Int
      BY <1>1, <1>2, <1>4
    <3> QED BY <1>1, <3>1, PartRange
  <2> HIDE DEF members
  <2>3. \A s \in Symbols : WithinSleeve(w, bound)[s] \in Int
    BY <2>1, <2>2
  <2> QED BY <2>3 DEF bound
<1>5. CASE members # {} /\ ~(total > bound.upper) /\ total < bound.lower
  <2>1. WithinSleeve(w, bound) = Topped(w, members, bound.lower - total)
    BY <1>5 DEF WithinSleeve, total
  <2>2. bound.lower - total \in Int
    BY <1>1, <1>2
  <2>3. \A s \in Symbols : Topped(w, members, bound.lower - total)[s] \in Int
    BY <1>5, <2>2, ToppedType
  <2> QED BY <2>1, <2>3 DEF bound
<1>6. CASE members # {} /\ ~(total > bound.upper) /\ ~(total < bound.lower)
  <2>1. WithinSleeve(w, bound) = w
    BY <1>6 DEF WithinSleeve, total
  <2> QED BY <2>1 DEF bound
<1> QED BY <1>3, <1>4, <1>5, <1>6

\* The passes over the bounds as a recursion, and its solution.
SleeveStep(w, g, i) == IF i = 0 THEN w ELSE WithinSleeve(g[i - 1], SleeveBounds[i])

Passed(w) == CHOOSE g : g = [i \in 0..Len(SleeveBounds) |->
  IF i = 0 THEN w ELSE WithinSleeve(g[i - 1], SleeveBounds[i])]

LEMMA SleevesPassed ==
  ASSUME NEW w
  PROVE  /\ WithinSleeves(w) = Passed(w)[Len(SleeveBounds)]
         /\ \A i \in 0..Len(SleeveBounds) : Passed(w)[i] = SleeveStep(w, Passed(w), i)
<1> DEFINE N == {n \in Nat : \E g : g = [i \in 0..n |-> SleeveStep(w, g, i)]}
<1>1. 0 \in N
  <2> DEFINE g == [i \in 0..0 |-> w]
  <2>1. g = [i \in 0..0 |-> SleeveStep(w, g, i)]
    BY DEF SleeveStep
  <2> QED BY <2>1
<1>2. ASSUME NEW n \in N PROVE n + 1 \in N
  <2>1. PICK g : g = [i \in 0..n |-> SleeveStep(w, g, i)]
    OBVIOUS
  <2> DEFINE h == [i \in 0..(n + 1) |-> SleeveStep(w, g, i)]
  <2>2. \A i \in 0..n : i \in 0..(n + 1) /\ h[i] = g[i]
    BY <2>1
  <2>3. ASSUME NEW i \in 0..(n + 1) PROVE SleeveStep(w, h, i) = SleeveStep(w, g, i)
    <3>1. CASE i = 0
      BY <3>1 DEF SleeveStep
    <3>2. CASE i # 0
      <4>1. i - 1 \in 0..n
        BY <3>2
      <4>2. h[i - 1] = g[i - 1]
        BY <2>2, <4>1
      <4> QED BY <3>2, <4>2 DEF SleeveStep
    <3> QED BY <3>1, <3>2
  <2>4. h = [i \in 0..(n + 1) |-> SleeveStep(w, h, i)]
    BY <2>3
  <2>5. \E k : k = [i \in 0..(n + 1) |-> SleeveStep(w, k, i)]
    <3> HIDE DEF h
    <3> QED BY <2>4
  <2>6. n + 1 \in Nat
    OBVIOUS
  <2> QED BY <2>5, <2>6, Zenon
<1>3. N = Nat
  <2> HIDE DEF N
  <2>1. N \in SUBSET Nat
    BY DEF N
  <2> QED BY <1>1, <1>2, <2>1, NatSetInduction
<1>4. \E g : g = [i \in 0..Len(SleeveBounds) |-> SleeveStep(w, g, i)]
  BY <1>3, BoundFacts
<1>5. Passed(w) = [i \in 0..Len(SleeveBounds) |-> SleeveStep(w, Passed(w), i)]
  BY <1>4 DEF Passed, SleeveStep
<1>6. WithinSleeves(w) = Passed(w)[Len(SleeveBounds)]
  BY DEF WithinSleeves, Passed
<1> QED BY <1>5, <1>6

\* What holds before the passes and follows from one pass to the next holds after
\* them, for sets of portfolios that depend on the passes done.
LEMMA SleeveStages ==
  ASSUME NEW S, NEW w \in S[0],
         \A i \in 1..Len(SleeveBounds) : \A x \in S[i - 1] :
           WithinSleeve(x, SleeveBounds[i]) \in S[i]
  PROVE  WithinSleeves(w) \in S[Len(SleeveBounds)]
<1> DEFINE n == Len(SleeveBounds)
           N == {i \in Nat : i <= n => Passed(w)[i] \in S[i]}
<1>1. n \in Nat
  BY BoundFacts
<1>2. \A i \in 0..n : Passed(w)[i] = SleeveStep(w, Passed(w), i)
  BY SleevesPassed
<1>3. 0 \in N
  <2> HIDE DEF n
  <2>1. Passed(w)[0] = w
    BY <1>1, <1>2 DEF SleeveStep
  <2> QED BY <2>1
<1>4. ASSUME NEW i \in N PROVE i + 1 \in N
  <2> SUFFICES ASSUME i + 1 <= n PROVE Passed(w)[i + 1] \in S[i + 1]
    OBVIOUS
  <2> HIDE DEF n
  <2>1. i \in Nat /\ i + 1 \in 1..n /\ i + 1 \in 0..n /\ i <= n /\ (i + 1) - 1 = i
    BY <1>1
  <2>2. Passed(w)[i + 1] = WithinSleeve(Passed(w)[i], SleeveBounds[i + 1])
    <3>1. i + 1 # 0
      BY <2>1
    <3> QED BY <1>2, <2>1, <3>1 DEF SleeveStep
  <2>3. Passed(w)[i] \in S[(i + 1) - 1]
    BY <2>1
  <2>4. \A x \in S[(i + 1) - 1] : WithinSleeve(x, SleeveBounds[i + 1]) \in S[i + 1]
    BY <2>1 DEF n
  <2> QED BY <2>2, <2>3, <2>4
<1>5. N = Nat
  <2> HIDE DEF N
  <2>1. N \in SUBSET Nat
    BY DEF N
  <2> QED BY <1>3, <1>4, <2>1, NatSetInduction
<1>6. Passed(w)[n] \in S[n]
  BY <1>1, <1>5
<1> QED BY <1>6, SleevesPassed

\* In particular what every pass keeps.
LEMMA SleeveInduction ==
  ASSUME NEW S, NEW w \in S,
         \A i \in 1..Len(SleeveBounds), x \in S : WithinSleeve(x, SleeveBounds[i]) \in S
  PROVE  WithinSleeves(w) \in S
<1> DEFINE same == [i \in 0..Len(SleeveBounds) |-> S]
<1>1. \A i \in 0..Len(SleeveBounds) : same[i] = S
  OBVIOUS
<1>2. /\ 0 \in 0..Len(SleeveBounds) /\ Len(SleeveBounds) \in 0..Len(SleeveBounds)
      /\ \A i \in 1..Len(SleeveBounds) : i \in 0..Len(SleeveBounds) /\ i - 1 \in 0..Len(SleeveBounds)
  BY BoundFacts
<1> HIDE DEF same
<1>3. WithinSleeves(w) \in same[Len(SleeveBounds)]
  BY <1>1, <1>2, SleeveStages
<1> QED BY <1>1, <1>2, <1>3

Numbers == [Symbols -> Int]

LEMMA NumbersFacts ==
  ASSUME NEW w \in Numbers
  PROVE  \A s \in Symbols : w[s] \in Int
  BY DEF Numbers

LEMMA BoundedNumbers ==
  ASSUME NEW w, \A s \in Symbols : w[s] \in Int
  PROVE  Bounded(w) \in Numbers
<1>1. \A s \in Symbols : Bounded(w)[s] \in Int
  BY BoundedType
<1>2. Bounded(w) = [s \in Symbols |-> Bounded(w)[s]]
  BY DEF Bounded
<1> QED BY <1>1, <1>2 DEF Numbers

LEMMA WithinSleeveNumbers ==
  ASSUME NEW w \in Numbers, NEW i \in 1..Len(SleeveBounds)
  PROVE  WithinSleeve(w, SleeveBounds[i]) \in Numbers
<1> DEFINE f == WithinSleeve(w, SleeveBounds[i])
<1>1. \A s \in Symbols : f[s] \in Int
  BY NumbersFacts, WithinSleeveType
<1>2. f = [s \in Symbols |-> f[s]]
  <2>1. w = [s \in Symbols |-> w[s]]
    BY DEF Numbers
  <2> DEFINE b == SleeveBounds[i]
             total == Total(w, Of(b.name))
             share(d) == Least(d, Positive(w[CASH])) \div Cardinality(Of(b.name))
             cut == [s \in Symbols |->
                      IF s \in Of(b.name) THEN Part(w[s], b.upper, total) ELSE w[s]]
  <2>2. \A d : LET t == Topped(w, Of(b.name), d) IN t = [s \in Symbols |-> t[s]]
    <3> TAKE d
    <3> DEFINE added == [s \in Symbols |->
                          IF s \in Of(b.name) THEN w[s] + share(d) ELSE w[s]]
               rest1 == Positive(added[CASH] - share(d) * Cardinality(Of(b.name)))
    <3>1. Topped(w, Of(b.name), d) = [added EXCEPT ![CASH] = rest1]
      BY DEF Topped
    <3> HIDE DEF rest1
    <3> QED BY <3>1
  <2>3. f = w \/ f = cut \/ f = Topped(w, Of(b.name), b.lower - total)
    BY DEF WithinSleeve
  <2>4. cut = [s \in Symbols |-> cut[s]]
    OBVIOUS
  <2> HIDE DEF f, b, total, share, cut
  <2> QED BY <2>1, <2>2, <2>3, <2>4
<1> QED
  <2> HIDE DEF f
  <2>1. f \in Numbers
    BY <1>1, <1>2 DEF Numbers
  <2> QED BY <2>1 DEF f

LEMMA WithinSleevesNumbers ==
  ASSUME NEW w \in Numbers
  PROVE  WithinSleeves(w) \in Numbers
<1>1. \A i \in 1..Len(SleeveBounds), x \in Numbers : WithinSleeve(x, SleeveBounds[i]) \in Numbers
  BY WithinSleeveNumbers
<1> QED BY <1>1, SleeveInduction

\* What apply has before it normalises: the portfolio without the turnover limit,
\* or part of the way to it.
LEMMA ApplyFacts ==
  ASSUME NEW aim, \A s \in Symbols : aim[s] \in Int, NEW c \in Weights
  PROVE  LET w == WithinSleeves(Bounded(aim))
             v == WithinTurnover(w, c)
         IN /\ w \in Numbers /\ Apply(aim, c) = Normalised(v)
            /\ \A s \in Symbols : v[s] \in Int
            /\ MaxTurnover < WHOLE => Traded(v, c) <= 2 * MaxTurnover
            /\ v = w \/ (/\ Traded(w, c) > 2 * MaxTurnover
                         /\ v = Towards(w, c, 2 * MaxTurnover, Traded(w, c)))
<1> DEFINE w == WithinSleeves(Bounded(aim))
           v == WithinTurnover(w, c)
           way == Towards(w, c, 2 * MaxTurnover, Traded(w, c))
<1>1. w \in Numbers
  BY BoundedNumbers, WithinSleevesNumbers
<1>2. Apply(aim, c) = Normalised(v)
  BY DEF Apply
<1> HIDE DEF w
<1>3. \A s \in Symbols : w[s] \in Int /\ c[s] \in Int
  BY <1>1, NumbersFacts, WeightRange
<1>4. 2 * MaxTurnover \in Nat /\ MaxTurnover \in Nat /\ WHOLE \in Nat
  BY ConstraintsAssumption DEF WHOLE
<1>5. CASE MaxTurnover < WHOLE /\ Traded(w, c) > 2 * MaxTurnover
  <2>1. v = way
    BY <1>5 DEF WithinTurnover
  <2>2. (\A s \in Symbols : way[s] \in Int) /\ Traded(way, c) <= 2 * MaxTurnover
    BY <1>3, <1>4, <1>5, TowardsTraded
  <2> HIDE DEF v, way
  <2>3. /\ \A s \in Symbols : v[s] \in Int
        /\ Traded(v, c) <= 2 * MaxTurnover
    BY <2>1, <2>2
  <2> QED BY <1>1, <1>2, <1>5, <2>1, <2>3 DEF v, w, way
<1>6. CASE ~(MaxTurnover < WHOLE /\ Traded(w, c) > 2 * MaxTurnover)
  <2>1. v = w
    BY <1>6 DEF WithinTurnover
  <2>2. Traded(w, c) \in Nat
    BY <1>3, TradedFacts
  <2>3. MaxTurnover < WHOLE => Traded(w, c) <= 2 * MaxTurnover
    BY <1>4, <1>6, <2>2
  <2> HIDE DEF v, way
  <2>4. /\ \A s \in Symbols : v[s] \in Int
        /\ MaxTurnover < WHOLE => Traded(v, c) <= 2 * MaxTurnover
    BY <1>3, <2>1, <2>3
  <2> QED BY <1>1, <1>2, <2>1, <2>4 DEF v, w, way
<1> QED BY <1>5, <1>6

\* Two whole portfolios trade at most everything.
LEMMA TradedAtMostAll ==
  ASSUME NEW f \in Weights, NEW c \in Weights,
         Total(f, Symbols) = WHOLE, Total(c, Symbols) = WHOLE
  PROVE  Traded(f, c) <= 2 * WHOLE
<1> DEFINE size == [s \in Symbols |-> Size(f[s] - c[s])]
           both == [s \in Symbols |-> f[s] + c[s]]
<1>1. \A s \in Symbols : f[s] \in Nat /\ c[s] \in Nat
  BY WeightRange
<1>2. Traded(f, c) = Total(size, Symbols)
  BY DEF Traded
<1>3. \A s \in Symbols : /\ size[s] \in Int /\ both[s] \in Int /\ size[s] <= both[s]
                         /\ f[s] \in Int /\ c[s] \in Int /\ both[s] = 1 * f[s] + c[s]
  BY <1>1 DEF Size, Greatest
<1> HIDE DEF size, both
<1>4. Total(size, Symbols) <= Total(both, Symbols)
  BY <1>3, SymbolFacts, SumMonotone DEF Total
<1>5. Total(both, Symbols) = 1 * WHOLE + WHOLE
  BY <1>3, SymbolFacts, SumLinear DEF Total
<1> QED
  BY <1>2, <1>4, <1>5 DEF WHOLE

\* One rebalance: within the limit and what the limited weights are astray, and
\* within twice the limit.
LEMMA RebalanceTraded ==
  ASSUME NEW aim, \A s \in Symbols : aim[s] \in Int,
         NEW c \in Weights, Total(c, Symbols) = WHOLE,
         NEW dust \in Nat, Cardinality(Risky) <= dust + 1
  PROVE  Traded(Apply(aim, c), c) <=
           2 * MaxTurnover + Least(2 * MaxTurnover, Astray(aim)) + 3 * dust + 1
<1> DEFINE w == WithinSleeves(Bounded(aim))
           v == WithinTurnover(w, c)
           far == Astray(aim)
           new == Traded(Normalised(v), c)
<1>1. /\ Apply(aim, c) = Normalised(v) /\ \A s \in Symbols : v[s] \in Int
      /\ MaxTurnover < WHOLE => Traded(v, c) <= 2 * MaxTurnover
      /\ v = w \/ (/\ Traded(w, c) > 2 * MaxTurnover
                   /\ v = Towards(w, c, 2 * MaxTurnover, Traded(w, c)))
      /\ \A s \in Symbols : w[s] \in Int /\ c[s] \in Int
  <2>1. w \in Numbers
    BY ApplyFacts
  <2> HIDE DEF w
  <2>2. \A s \in Symbols : w[s] \in Int /\ c[s] \in Int
    BY <2>1, NumbersFacts, WeightRange
  <2> QED BY <2>2, ApplyFacts DEF w
<1>2. MaxTurnover \in Nat /\ MaxTurnover <= WHOLE /\ WHOLE \in Nat
  <2>1. MaxTurnover \in 1..WHOLE
    BY ConstraintsAssumption
  <2> QED BY <2>1 DEF WHOLE
<1>a. far = Size(Total(w, Symbols) - WHOLE)
  BY DEF Astray
<1> HIDE DEF v, w, far
<1>3. Traded(v, c) \in Nat /\ Total(v, Symbols) \in Int /\ Total(w, Symbols) \in Int
  <2>1. \A s \in Symbols : v[s] \in Int /\ c[s] \in Int
    BY <1>1
  <2> QED BY <1>1, <2>1, TradedFacts, TotalSplit
<1>4. Normalised(v) \in Weights /\ Total(Normalised(v), Symbols) = WHOLE
  BY <1>1, NormalisedFacts
<1>5. new \in Nat
  <2>1. \A s \in Symbols : Normalised(v)[s] \in Int /\ c[s] \in Int
    BY <1>4, WeightRange
  <2> QED BY <2>1, TradedFacts
<1>6. far \in Nat /\ Size(Total(v, Symbols) - WHOLE) \in Nat
  <2>1. Total(w, Symbols) - WHOLE \in Int /\ Total(v, Symbols) - WHOLE \in Int
    BY <1>2, <1>3
  <2> QED BY <1>a, <2>1, SizeRange
<1>7. Size(Total(v, Symbols) - WHOLE) <= far + dust + 1
  <2>1. CASE v = w
    BY <1>6, <1>a, <2>1
  <2>2. CASE /\ Traded(w, c) > 2 * MaxTurnover
             /\ v = Towards(w, c, 2 * MaxTurnover, Traded(w, c))
    <3>1. 2 * MaxTurnover \in Nat
      BY <1>2
    <3>2. Size(Total(v, Symbols) - WHOLE) <= far + Cardinality(Risky)
      BY <1>1, <1>a, <2>2, <3>1, TowardsAstray
    <3> QED BY <1>6, <3>2, SymbolFacts
  <2> QED BY <1>1, <2>1, <2>2
<1>8. new <= Traded(v, c) + Size(Total(v, Symbols) - WHOLE) + 2 * dust
  BY <1>1, NormalisedAstray
<1>9. new <= 2 * Traded(v, c) + 2 * dust
  BY <1>1, NormalisedTraded
<1>10. new <= 2 * WHOLE
  BY <1>4, TradedAtMostAll
<1> DEFINE gap == Size(Total(v, Symbols) - WHOLE)
           was == Traded(v, c)
           twice == 2 * MaxTurnover
<1>11. /\ twice \in Nat /\ gap \in Nat /\ was \in Nat
       /\ gap <= far + dust + 1
       /\ new <= was + gap + 2 * dust /\ new <= 2 * was + 2 * dust
       /\ MaxTurnover < WHOLE => was <= twice
       /\ MaxTurnover = WHOLE => new <= twice
  BY <1>1, <1>2, <1>3, <1>6, <1>7, <1>8, <1>9, <1>10
<1> HIDE DEF gap, was, twice, new
<1>12. Least(twice, far) \in Nat /\ (Least(twice, far) = twice \/ Least(twice, far) = far)
  BY <1>6, <1>11 DEF Least
<1>13. CASE MaxTurnover < WHOLE
  <2>1. new <= twice + far + 3 * dust + 1
    BY <1>5, <1>6, <1>11, <1>13
  <2>2. new <= twice + twice + 3 * dust + 1
    BY <1>5, <1>11, <1>13
  <2> QED BY <1>1, <1>12, <2>1, <2>2 DEF new, twice, far
<1>14. CASE MaxTurnover = WHOLE
  <2>1. new <= twice + Least(twice, far) + 3 * dust + 1
    BY <1>5, <1>11, <1>12, <1>14
  <2> QED BY <1>1, <2>1 DEF new, twice, far
<1> QED BY <1>2, <1>13, <1>14

-----------------------------------------------------------------------------
(* The policy *)

\* What the signals and the volatility make of the base weights is not negative.
LEMMA WishNumbers ==
  ASSUME NEW tilt \in [Risky -> Tilts], NEW scale \in Scales
  PROVE  RawWeights(tilt, scale) \in [Symbols -> Nat]
<1> DEFINE risky == [s \in Risky |-> (BaseWeights[s] * tilt[s] * scale) \div 10000]
           raw == WithCash(risky)
<1>1. ASSUME NEW s \in Risky PROVE risky[s] \in Nat
  <2> DEFINE x == BaseWeights[s] * tilt[s] * scale
  <2>1. BaseWeights[s] \in Nat /\ tilt[s] \in Nat /\ scale \in Nat
    <3>1. BaseWeights \in Weights /\ Tilts \subseteq Nat /\ Scales \subseteq 1..100
      BY PolicyAssumption
    <3>2. BaseWeights[s] \in Nat
      BY <3>1, SymbolFacts, WeightRange
    <3>3. tilt[s] \in Tilts /\ scale \in 1..100
      BY <3>1
    <3>4. tilt[s] \in Nat
      BY <3>1, <3>3
    <3>5. scale \in Nat
      BY <3>3
    <3> QED BY <3>2, <3>4, <3>5
  <2>2. x \in Nat
    BY <2>1
  <2> HIDE DEF x
  <2>3. x \div 10000 \in Nat
    BY <2>2
  <2>4. risky[s] = x \div 10000
    BY DEF x
  <2> QED BY <2>3, <2>4
<1>2. Total(risky, Risky) \in Int
  <2>1. \A s \in Risky : risky[s] \in Int
    BY <1>1
  <2> HIDE DEF risky
  <2> QED BY <2>1, SymbolFacts, SumType DEF Total
<1>3. \A s \in Risky : risky[s] \in Nat
  BY <1>1
<1>4. RawWeights(tilt, scale) = [raw EXCEPT ![CASH] = Positive(raw[CASH])]
  BY DEF RawWeights
<1> HIDE DEF risky
<1>5. raw = [s \in Symbols |-> IF s = CASH THEN WHOLE - Total(risky, Risky) ELSE risky[s]]
  BY DEF WithCash
<1>6. Positive(raw[CASH]) \in Nat
  <2>1. raw[CASH] = WHOLE - Total(risky, Risky) /\ WHOLE \in Int
    BY <1>5, SymbolFacts DEF WHOLE
  <2> HIDE DEF raw
  <2>2. raw[CASH] \in Int
    BY <1>2, <2>1
  <2> QED BY <2>2, PositiveRange
<1> DEFINE cash == Positive(raw[CASH])
<1>7. \A s \in Symbols : (IF s = CASH THEN cash ELSE risky[s]) \in Nat
  <2> HIDE DEF cash, raw
  <2>1. cash \in Nat
    BY <1>6 DEF cash
  <2> QED BY <1>3, <2>1, SymbolFacts
<1>8. RawWeights(tilt, scale) = [s \in Symbols |-> IF s = CASH THEN cash ELSE risky[s]]
  <2> HIDE DEF cash
  <2>1. RawWeights(tilt, scale) = [raw EXCEPT ![CASH] = cash]
    BY <1>4 DEF cash
  <2> QED BY <1>5, <2>1
<1> HIDE DEF cash
<1> QED BY <1>7, <1>8

LEMMA PolicyStart == PolicyInit => PolicyTypeOK
<1> SUFFICES ASSUME PolicyInit PROVE PolicyTypeOK
  OBVIOUS
<1>1. weights \in Weights /\ Total(weights, Symbols) = WHOLE
  BY PolicyAssumption DEF PolicyInit
<1>2. wish \in [Symbols -> Nat]
  BY WishNumbers DEF PolicyInit, Wishes
<1>3. Enough \in Nat
  <2>1. WHOLE \in Int /\ MaxTurnover \in Nat \ {0} /\ 0 * MaxTurnover <= WHOLE
    BY ConstraintsAssumption DEF WHOLE
  <2>2. WHOLE \div MaxTurnover \in Int /\ 0 <= WHOLE \div MaxTurnover
    BY <2>1, DivRange, DivFloor
  <2> QED BY <2>2 DEF Enough
<1> QED
  BY <1>1, <1>2, <1>3, PolicyAssumption DEF PolicyInit, PolicyTypeOK

\* Prices that move leave a whole portfolio: no symbol is worth less than before
\* in halves of its price, so there is a worth to divide.
LEMMA DriftWhole ==
  ASSUME NEW move \in Moves, Drift(move), weights \in Weights, Total(weights, Symbols) = WHOLE
  PROVE  weights' \in Weights /\ Total(weights', Symbols) = WHOLE
<1> DEFINE value == [s \in Symbols |-> weights[s] * move[s]]
           worth == Total(value, Symbols)
           drifted == [s \in Risky |-> Part(value[s], WHOLE, worth)]
           shares == [s \in Symbols |-> Part(value[s], WHOLE, worth)]
<1>0. WHOLE \in Nat \ {0}
  BY DEF WHOLE
<1>1. weights' = WithCash(drifted)
  BY DEF Drift
<1>2. \A s \in Symbols : /\ value[s] \in Nat /\ value[s] \in Int /\ weights[s] \in Int
                         /\ weights[s] <= value[s]
  <2> SUFFICES ASSUME NEW s \in Symbols
               PROVE  /\ value[s] \in Nat /\ value[s] \in Int /\ weights[s] \in Int
                      /\ weights[s] <= value[s]
    OBVIOUS
  <2>1. weights[s] \in Nat
    BY WeightRange
  <2>2. move[s] \in Nat \ {0}
    <3>1. Moves \subseteq [Symbols -> Nat \ {0}]
      BY PolicyAssumption
    <3> QED BY <3>1
  <2>3. 1 * weights[s] <= move[s] * weights[s] /\ move[s] * weights[s] = weights[s] * move[s]
    <3>1. 1 \in Int /\ move[s] \in Int /\ 1 <= move[s]
      BY <2>2
    <3>2. 1 * weights[s] <= move[s] * weights[s]
      BY <2>1, <3>1, MulMono
    <3> QED BY <2>1, <2>2, <3>2
  <2>4. weights[s] * move[s] \in Nat
    BY <2>1, <2>2
  <2> QED BY <2>1, <2>3, <2>4
<1> HIDE DEF value
<1>3. worth \in Nat /\ worth >= WHOLE
  <2>1. Total(weights, Symbols) <= worth
    BY <1>2, SymbolFacts, SumMonotone DEF Total
  <2>2. worth \in Nat
    BY <1>2, SymbolFacts, SumNat DEF Total
  <2> QED BY <2>1, <2>2
<1>4. /\ \A s \in Symbols : shares[s] \in Nat
      /\ SumFunctionOnSet(shares, Symbols) <= WHOLE
  <2>1. worth = SumFunctionOnSet(value, Symbols) /\ SumFunctionOnSet(value, Symbols) > 0
    BY <1>0, <1>3 DEF Total
  <2> HIDE DEF worth
  <2> QED BY <1>0, <1>2, <2>1, SymbolFacts, SharesFit
<1>5. /\ \A s \in Risky : drifted[s] \in Nat /\ drifted[s] \in Int /\ shares[s] = drifted[s]
      /\ Total(drifted, Risky) <= WHOLE
  <2>1. \A s \in Risky : /\ drifted[s] \in Nat /\ drifted[s] \in Int
                         /\ shares[s] = drifted[s]
    BY <1>4, SymbolFacts
  <2> HIDE DEF drifted, shares
  <2>2. Total(drifted, Risky) = Total(shares, Risky)
    BY <2>1, SymbolFacts, SumSame DEF Total
  <2>3. Total(shares, Risky) <= Total(shares, Symbols)
    BY <1>4, SymbolFacts, SumPart DEF Total
  <2>4. Total(drifted, Risky) \in Int /\ Total(shares, Symbols) \in Int
    BY <1>4, <2>1, SymbolFacts, SumType, SumNat DEF Total
  <2>5. Total(shares, Symbols) <= WHOLE
    BY <1>4 DEF Total
  <2> QED BY <1>0, <2>1, <2>2, <2>3, <2>4, <2>5
<1> HIDE DEF drifted
<1> QED BY <1>1, <1>5, WithCashWhole

LEMMA PolicyStep == PolicyTypeOK /\ [PolicyNext]_policyVars => PolicyTypeOK'
<1> SUFFICES ASSUME PolicyTypeOK, [PolicyNext]_policyVars PROVE PolicyTypeOK'
  OBVIOUS
<1>1. /\ weights \in Weights /\ Total(weights, Symbols) = WHOLE
      /\ wish \in [Symbols -> Nat] /\ events \in 0..MaxEvents /\ rest \in 0..Enough
  BY DEF PolicyTypeOK
<1>2. Enough \in Nat
  <2>1. WHOLE \in Int /\ MaxTurnover \in Nat \ {0} /\ 0 * MaxTurnover <= WHOLE
    BY ConstraintsAssumption DEF WHOLE
  <2>2. WHOLE \div MaxTurnover \in Int /\ 0 <= WHOLE \div MaxTurnover
    BY <2>1, DivRange, DivFloor
  <2> QED BY <2>2 DEF Enough
<1>3. MaxEvents \in Nat
  BY PolicyAssumption
<1>4. CASE Rebalance
  <2>1. weights' = Apply(wish, weights) /\ rest' = Least(rest + 1, Enough)
        /\ UNCHANGED <<wish, events>>
    BY <1>4 DEF Rebalance
  <2>2. weights' \in Weights /\ Total(weights', Symbols) = WHOLE
    <3>1. \A s \in Symbols : wish[s] \in Int
      BY <1>1
    <3> DEFINE v == WithinTurnover(WithinSleeves(Bounded(wish)), weights)
    <3>2. Apply(wish, weights) = Normalised(v) /\ \A s \in Symbols : v[s] \in Int
      BY <1>1, <3>1, ApplyFacts
    <3> HIDE DEF v
    <3> QED BY <2>1, <3>2, NormalisedFacts
  <2>3. rest' \in 0..Enough
    BY <1>1, <1>2, <2>1 DEF Least
  <2> QED BY <1>1, <2>1, <2>2, <2>3 DEF PolicyTypeOK
<1>5. CASE Signal
  <2>1. wish' \in Wishes /\ events' = events + 1 /\ events < MaxEvents /\ rest' = 0
        /\ weights' = weights
    BY <1>5 DEF Signal
  <2>2. wish' \in [Symbols -> Nat]
    BY <2>1, WishNumbers DEF Wishes
  <2>3. events' \in 0..MaxEvents /\ rest' \in 0..Enough
    BY <1>1, <1>2, <1>3, <2>1
  <2> QED BY <1>1, <2>1, <2>2, <2>3 DEF PolicyTypeOK
<1>6. ASSUME NEW move \in Moves, Drift(move) PROVE PolicyTypeOK'
  <2>1. weights' \in Weights /\ Total(weights', Symbols) = WHOLE
    BY <1>1, <1>6, DriftWhole
  <2>2. events' = events + 1 /\ events < MaxEvents /\ rest' = 0 /\ wish' = wish
    BY <1>6 DEF Drift
  <2>3. events' \in 0..MaxEvents /\ rest' \in 0..Enough
    BY <1>1, <1>2, <1>3, <2>2
  <2> QED BY <1>1, <2>1, <2>2, <2>3 DEF PolicyTypeOK
<1>7. CASE UNCHANGED policyVars
  BY <1>1, <1>7 DEF policyVars, PolicyTypeOK
<1> QED BY <1>4, <1>5, <1>6, <1>7 DEF PolicyNext

\* Weights are long and add up to the whole after every rebalance, signal and
\* move of prices (apply's long-only and cash passes).
THEOREM PortfolioStaysWhole == PolicySpec => []PolicyTypeOK
  BY PolicyStart, PolicyStep, PTL DEF PolicySpec

\* A step that changes neither the wish nor the market is a rebalance, or nothing.
LEMMA RebalanceOnly ==
  ASSUME PolicyTypeOK, [PolicyNext]_policyVars, wish' = wish, events' = events
  PROVE  weights' = Apply(wish, weights) \/ weights' = weights
<1>1. events \in Int
  BY PolicyAssumption DEF PolicyTypeOK
<1>2. CASE Rebalance
  BY <1>2 DEF Rebalance
<1>3. CASE Signal
  BY <1>3 DEF Signal
<1>4. ASSUME NEW move \in Moves, Drift(move) PROVE FALSE
  BY <1>1, <1>4 DEF Drift
<1>5. CASE UNCHANGED policyVars
  BY <1>5 DEF policyVars
<1> QED BY <1>2, <1>3, <1>4, <1>5 DEF PolicyNext

LEMMA NothingTraded ==
  ASSUME NEW c \in Weights
  PROVE  Traded(c, c) = 0
<1> DEFINE size == [s \in Symbols |-> Size(c[s] - c[s])]
<1>1. Traded(c, c) = Total(size, Symbols)
  BY DEF Traded
<1>2. \A s \in Symbols : size[s] = 0
  <2>1. \A s \in Symbols : c[s] \in Int
    BY WeightRange
  <2> QED BY <2>1 DEF Size, Greatest
<1> HIDE DEF size
<1>3. SumFunctionOnSet(size, Symbols) = 0 * Cardinality(Symbols)
  <2>1. IsFiniteSet(Symbols) /\ 0 \in Int
    BY SymbolFacts
  <2> QED BY <1>2, <2>1, SumConstant, Zenon
<1> QED BY <1>1, <1>3, SymbolFacts, FS_CardinalityType DEF Total

\* A rebalance keeps the turnover limit when the limited weights add up to the whole,
\* goes beyond it by no more than they are astray, and never beyond twice the limit,
\* whatever the signals ask for and the market has done, if the dust covers a
\* truncation of each risky symbol but one (constraints.py limits the turnover
\* before cash becomes the residual).
THEOREM TurnoverIsBounded ==
  ASSUME Cardinality(Risky) <= Dust + 1
  PROVE  PolicySpec => TurnoverBounded
<1>0. Dust \in Nat /\ MaxTurnover \in Nat
  BY PolicyAssumption, ConstraintsAssumption
<1> DEFINE most == 2 * MaxTurnover + Least(2 * MaxTurnover, Astray(wish)) + 3 * Dust + 1
<1>1. PolicyTypeOK /\ [PolicyNext]_policyVars =>
        [wish' = wish /\ events' = events => Traded(weights', weights) <= most]_policyVars
  <2> SUFFICES ASSUME PolicyTypeOK, [PolicyNext]_policyVars, wish' = wish, events' = events
               PROVE  Traded(weights', weights) <= most
    OBVIOUS
  <2>1. weights \in Weights /\ Total(weights, Symbols) = WHOLE /\ \A s \in Symbols : wish[s] \in Int
    BY DEF PolicyTypeOK
  <2>2. CASE weights' = Apply(wish, weights)
    BY <1>0, <2>1, <2>2, RebalanceTraded
  <2>3. CASE weights' = weights
    <3>1. Astray(wish) \in Nat
      <4>1. WithinSleeves(Bounded(wish)) \in Numbers
        BY <2>1, BoundedNumbers, WithinSleevesNumbers
      <4>2. Total(WithinSleeves(Bounded(wish)), Symbols) - WHOLE \in Int
        BY <4>1, NumbersFacts, TotalSplit DEF WHOLE
      <4> QED BY <4>2, SizeRange DEF Astray
    <3>2. most \in Nat
      <4>1. Least(2 * MaxTurnover, Astray(wish)) \in Nat
        BY <1>0, <3>1 DEF Least
      <4> QED BY <1>0, <4>1
    <3> QED BY <2>1, <2>3, <3>2, NothingTraded
  <2> QED BY <2>2, <2>3, RebalanceOnly
<1> QED
  BY <1>1, PortfolioStaysWhole, PTL DEF PolicySpec, TurnoverBounded

-----------------------------------------------------------------------------
(* Feasible portfolios *)

LEMMA SumNegated ==
  ASSUME NEW f, NEW g, NEW S, IsFiniteSet(S), \A s \in S : f[s] \in Int /\ g[s] = -f[s]
  PROVE  SumFunctionOnSet(g, S) = -SumFunctionOnSet(f, S)
<1> DEFINE zero == [s \in S |-> 0]
<1>1. SumFunctionOnSet(zero, S) = 0
  <2>1. SumFunctionOnSet(zero, S) = 0 * Cardinality(S)
    <3>1. 0 \in Int /\ \A s \in S : zero[s] = 0
      OBVIOUS
    <3> HIDE DEF zero
    <3> QED BY <3>1, SumConstant, Zenon
  <2> HIDE DEF zero
  <2> QED BY <2>1, FS_CardinalityType
<1>2. \A s \in S : f[s] \in Int /\ zero[s] \in Int /\ g[s] = (-1) * f[s] + zero[s]
  OBVIOUS
<1> HIDE DEF zero
<1>3. SumFunctionOnSet(g, S) = (-1) * SumFunctionOnSet(f, S) + SumFunctionOnSet(zero, S)
  <2>1. -1 \in Int
    OBVIOUS
  <2> QED BY <1>2, <2>1, SumLinear
<1>4. SumFunctionOnSet(f, S) \in Int
  BY <1>2, SumType
<1> QED BY <1>1, <1>3, <1>4

\* A total is that of a part of the set and that of the others.
LEMMA SumDisjoint ==
  ASSUME NEW f, NEW S, IsFiniteSet(S), NEW T \in SUBSET S, \A s \in S : f[s] \in Int
  PROVE  SumFunctionOnSet(f, S) = SumFunctionOnSet(f, T) + SumFunctionOnSet(f, S \ T)
<1> DEFINE in == [s \in S |-> IF s \in T THEN f[s] ELSE 0]
           out == [s \in S |-> IF s \in T THEN 0 ELSE f[s]]
<1>1. \A s \in S : in[s] \in Int /\ out[s] \in Int /\ f[s] = 1 * in[s] + out[s]
  OBVIOUS
<1>2. /\ \A s \in S \ T : in[s] = 0
      /\ \A s \in T : f[s] \in Int /\ in[s] = f[s]
      /\ \A s \in S \ (S \ T) : out[s] = 0
      /\ \A s \in S \ T : f[s] \in Int /\ out[s] = f[s]
      /\ IsFiniteSet(T) /\ IsFiniteSet(S \ T) /\ S \ T \in SUBSET S
  BY FS_Subset
<1> HIDE DEF in, out
<1>3. SumFunctionOnSet(f, S) = 1 * SumFunctionOnSet(in, S) + SumFunctionOnSet(out, S)
  BY <1>1, SumLinear
<1>4. SumFunctionOnSet(in, S) = SumFunctionOnSet(in, T)
  BY <1>1, <1>2, SumRestrict
<1>5. SumFunctionOnSet(out, S) = SumFunctionOnSet(out, S \ T)
  BY <1>1, <1>2, SumRestrict
<1>6. SumFunctionOnSet(in, T) = SumFunctionOnSet(f, T)
  BY <1>2, SumSame
<1>7. SumFunctionOnSet(out, S \ T) = SumFunctionOnSet(f, S \ T)
  BY <1>2, SumSame
<1>8. SumFunctionOnSet(in, S) \in Int
  BY <1>1, SumType
<1> QED BY <1>3, <1>4, <1>5, <1>6, <1>7, <1>8

LEMMA PartNear ==
  ASSUME NEW x \in Int, NEW a \in Nat, NEW b \in Nat \ {0}
  PROVE  /\ Part(x, a, b) \in Int /\ Part(-x, a, b) = -Part(x, a, b)
         /\ b * Part(x, a, b) <= a * x + (b - 1)
<1>1. Part(x, a, b) \in Int
  BY PartRange
<1>2. b * Part(x, a, b) <= a * x + (b - 1)
  <2> DEFINE p == Part(x, a, b)
             bp == b * p
             ax == a * x
  <2>1. p \in Int /\ (x >= 0 => bp <= ax) /\ (x <= 0 => bp <= ax + (b - 1))
    BY PartRange
  <2> HIDE DEF p
  <2>2. bp \in Int /\ ax \in Int
    BY <2>1
  <2> HIDE DEF bp, ax
  <2>3. bp <= ax + (b - 1)
    BY <2>1, <2>2
  <2> QED BY <2>3 DEF bp, ax, p
<1>3. Part(-x, a, b) = -Part(x, a, b)
  <2>1. CASE x > 0
    BY <2>1 DEF Part
  <2>2. CASE x < 0
    <3>1. -x >= 0 /\ ~(x >= 0)
      BY <2>2
    <3>2. Part(-x, a, b) = (-x * a) \div b /\ Part(x, a, b) = -((-x * a) \div b)
      BY <3>1 DEF Part
    <3>3. (-x * a) \div b \in Int
      OBVIOUS
    <3> QED BY <3>2, <3>3
  <2>3. CASE x = 0
    <3>1. Part(x, a, b) >= 0 /\ Part(x, a, b) <= 0
      BY <2>3, PartRange
    <3>2. Part(x, a, b) = 0
      BY <1>1, <3>1
    <3>3. -x \in Int /\ -x <= 0 /\ -x >= 0
      BY <2>3
    <3>4. Part(-x, a, b) \in Int /\ Part(-x, a, b) >= 0 /\ Part(-x, a, b) <= 0
      <4> DEFINE y == -x
      <4>1. y \in Int /\ y <= 0 /\ y >= 0
        BY <3>3
      <4> HIDE DEF y
      <4>2. Part(y, a, b) \in Int /\ Part(y, a, b) >= 0 /\ Part(y, a, b) <= 0
        BY <4>1, PartRange
      <4> QED BY <4>2 DEF y
    <3> QED BY <3>2, <3>4
  <2> QED BY <2>1, <2>2, <2>3
<1> QED BY <1>1, <1>2, <1>3

\* Part of a way does not pass its end.
LEMMA PartShort ==
  ASSUME NEW x \in Int, NEW a \in Nat, NEW b \in Nat \ {0}, a <= b
  PROVE  (x >= 0 => Part(x, a, b) >= 0) /\ (x <= 0 => Part(x, a, b) >= x)
<1> DEFINE p == Part(x, a, b)
<1>1. p \in Int /\ (x >= 0 => p >= 0) /\ (x <= 0 => a * x <= b * p)
  BY PartRange
<1> HIDE DEF p
<1>2. ASSUME x <= 0, p < x PROVE FALSE
  <2>1. a * (-x) <= b * (-x)
    BY <1>2, MulMono
  <2>2. b * p < b * x
    <3>1. (x - p) * b > 0
      BY <1>1, <1>2
    <3> QED BY <1>1, <3>1
  <2> QED BY <1>1, <1>2, <2>1, <2>2
<1> QED BY <1>1, <1>2 DEF p

\* Members on their way between two portfolios whose totals are within a bound stay
\* within it, but for a truncation of each member but one.
LEMMA WayBelow ==
  ASSUME NEW A, IsFiniteSet(A), NEW w, NEW c, NEW v,
         NEW a \in Nat, NEW b \in Nat \ {0}, a <= b,
         \A s \in A : /\ w[s] \in Int /\ c[s] \in Int
                      /\ v[s] = c[s] + Part(w[s] - c[s], a, b),
         NEW most \in Int, SumFunctionOnSet(w, A) <= most, SumFunctionOnSet(c, A) <= most,
         NEW dust \in Nat, Cardinality(A) <= dust + 1
  PROVE  SumFunctionOnSet(v, A) <= most + dust
<1> DEFINE n == Cardinality(A)
           k == b - 1
           slack == [s \in A |-> k]
           part == [s \in A |-> a * w[s] + slack[s]]
           near == [s \in A |-> (b - a) * c[s] + part[s]]
           zero == [s \in A |-> 0]
           scaled == [s \in A |-> b * v[s] + zero[s]]
           W == SumFunctionOnSet(w, A)
           C == SumFunctionOnSet(c, A)
           V == SumFunctionOnSet(v, A)
<1>0. n \in Nat /\ k \in Nat /\ b - a \in Nat /\ k \in Int
  BY FS_CardinalityType
<1>1. \A s \in A : v[s] \in Int /\ b * v[s] <= (b - a) * c[s] + (a * w[s] + k)
  <2> SUFFICES ASSUME NEW s \in A
               PROVE  v[s] \in Int /\ b * v[s] <= (b - a) * c[s] + (a * w[s] + k)
    OBVIOUS
  <2> DEFINE x == w[s] - c[s]
             p == Part(x, a, b)
  <2>1. w[s] \in Int /\ c[s] \in Int /\ x \in Int
    OBVIOUS
  <2>2. p \in Int /\ b * p <= a * x + (b - 1)
    <3> HIDE DEF x
    <3> QED BY <2>1, PartNear
  <2>3. v[s] = c[s] + p
    OBVIOUS
  <2> HIDE DEF p
  <2>4. b * v[s] = b * c[s] + b * p
    BY <2>1, <2>2, <2>3
  <2>5. a * x = a * w[s] - a * c[s] /\ (b - a) * c[s] = b * c[s] - a * c[s]
    BY <2>1
  <2>6. a * w[s] \in Int /\ a * c[s] \in Int /\ b * c[s] \in Int /\ b * p \in Int
    BY <2>1, <2>2
  <2> HIDE DEF x
  <2> QED BY <2>1, <2>2, <2>3, <2>4, <2>5, <2>6
<1>2. \A s \in A : /\ slack[s] = k /\ zero[s] = 0 /\ slack[s] \in Int /\ zero[s] \in Int
                   /\ part[s] = a * w[s] + slack[s] /\ part[s] \in Int
                   /\ near[s] = (b - a) * c[s] + part[s] /\ near[s] \in Int
                   /\ scaled[s] = b * v[s] + zero[s] /\ scaled[s] \in Int
                   /\ scaled[s] <= near[s]
  <2> SUFFICES ASSUME NEW s \in A
               PROVE  /\ slack[s] = k /\ zero[s] = 0 /\ slack[s] \in Int /\ zero[s] \in Int
                      /\ part[s] = a * w[s] + slack[s] /\ part[s] \in Int
                      /\ near[s] = (b - a) * c[s] + part[s] /\ near[s] \in Int
                      /\ scaled[s] = b * v[s] + zero[s] /\ scaled[s] \in Int
                      /\ scaled[s] <= near[s]
    OBVIOUS
  <2>1. /\ slack[s] = k /\ zero[s] = 0
        /\ part[s] = a * w[s] + slack[s]
        /\ near[s] = (b - a) * c[s] + part[s]
        /\ scaled[s] = b * v[s] + zero[s]
    OBVIOUS
  <2> HIDE DEF slack, part, near, zero, scaled, k
  <2>2. /\ a * w[s] \in Int /\ (b - a) * c[s] \in Int /\ b * v[s] \in Int
    BY <1>0, <1>1
  <2>3. b * v[s] <= (b - a) * c[s] + (a * w[s] + k)
    BY <1>1
  <2> QED BY <1>0, <2>1, <2>2, <2>3
<1> HIDE DEF slack, part, near, zero, scaled
<1>3. W \in Int /\ C \in Int /\ V \in Int
  BY <1>1, SumType
<1>4. SumFunctionOnSet(slack, A) = k * n
  BY <1>0, <1>2, SumConstant
<1>5. SumFunctionOnSet(zero, A) = 0
  <2>1. SumFunctionOnSet(zero, A) = 0 * n
    <3>1. 0 \in Int /\ \A s \in A : zero[s] = 0
      BY <1>2
    <3> QED BY <3>1, SumConstant, Zenon
  <2> HIDE DEF n
  <2> QED BY <1>0, <2>1
<1>6. SumFunctionOnSet(part, A) = a * W + SumFunctionOnSet(slack, A)
  BY <1>2, SumLinear
<1>7. SumFunctionOnSet(near, A) = (b - a) * C + SumFunctionOnSet(part, A)
  <2>1. b - a \in Int /\ \A s \in A : c[s] \in Int /\ part[s] \in Int /\ near[s] = (b - a) * c[s] + part[s]
    BY <1>0, <1>2
  <2> QED BY <2>1, SumLinear
<1>8. SumFunctionOnSet(scaled, A) = b * V + SumFunctionOnSet(zero, A)
  <2>1. \A s \in A : v[s] \in Int /\ zero[s] \in Int /\ scaled[s] = b * v[s] + zero[s]
    BY <1>1, <1>2
  <2> QED BY <2>1, SumLinear
<1>9. SumFunctionOnSet(scaled, A) <= SumFunctionOnSet(near, A)
  BY <1>2, SumMonotone
<1> HIDE DEF W, C, V, n
<1>10. C * (b - a) <= most * (b - a) /\ W * a <= most * a
  BY <1>0, <1>3, MulMono DEF W, C
<1>11. b * V <= b * most + k * n
  <2>1. b * V <= (b - a) * C + (a * W + k * n)
    <3> DEFINE q == k * n
    <3>1. q \in Int
      BY <1>0
    <3>2. b * V \in Int /\ (b - a) * C \in Int /\ a * W \in Int
      BY <1>0, <1>3
    <3> HIDE DEF q
    <3>3. SumFunctionOnSet(slack, A) = q
      BY <1>4 DEF q
    <3>4. b * V <= (b - a) * C + (a * W + q)
      BY <1>5, <1>6, <1>7, <1>8, <1>9, <3>1, <3>2, <3>3
    <3> QED BY <3>4 DEF q
  <2>2. (b - a) * C = C * (b - a) /\ a * W = W * a /\ most * (b - a) + most * a = b * most
    BY <1>0, <1>3
  <2> DEFINE q == k * n
  <2>3. q \in Int
    BY <1>0
  <2>4. C * (b - a) \in Int /\ W * a \in Int /\ most * (b - a) \in Int /\ most * a \in Int /\ b * V \in Int
    BY <1>0, <1>3
  <2> HIDE DEF q
  <2>5. b * V <= (b - a) * C + (a * W + q)
    BY <2>1 DEF q
  <2>6. b * V <= b * most + q
    BY <1>10, <2>2, <2>3, <2>4, <2>5
  <2> QED BY <2>6 DEF q
<1>12. k * n <= k * (dust + 1)
  <2>1. n * k <= (dust + 1) * k
    BY <1>0, MulMono DEF n
  <2> QED BY <1>0, <2>1
<1>13. ASSUME V >= most + (dust + 1) PROVE FALSE
  <2>1. (most + (dust + 1)) * b <= V * b
    BY <1>3, <1>13, MulMono
  <2>2. k * (dust + 1) = b * (dust + 1) - (dust + 1)
    OBVIOUS
  <2> DEFINE x == b * most
             y == b * (dust + 1)
             z == b * V
  <2>3. x \in Int /\ y \in Int /\ z \in Int /\ (most + (dust + 1)) * b = x + y /\ V * b = z
    BY <1>3
  <2>4. k * n \in Int /\ k * (dust + 1) \in Int
    BY <1>0
  <2>5. z <= x + k * n
    BY <1>11
  <2>6. k * (dust + 1) = y - (dust + 1)
    BY <2>2
  <2> HIDE DEF x, y, z
  <2> QED BY <1>12, <2>1, <2>3, <2>4, <2>5, <2>6
<1> QED BY <1>3, <1>13 DEF V

LEMMA WayWithin ==
  ASSUME NEW A, IsFiniteSet(A), NEW w, NEW c, NEW v,
         NEW a \in Nat, NEW b \in Nat \ {0}, a <= b,
         \A s \in A : /\ w[s] \in Int /\ c[s] \in Int
                      /\ v[s] = c[s] + Part(w[s] - c[s], a, b),
         NEW dust \in Nat, Cardinality(A) <= dust + 1,
         NEW least \in Int, SumFunctionOnSet(w, A) >= least, SumFunctionOnSet(c, A) >= least
  PROVE  SumFunctionOnSet(v, A) >= least - dust
<1> DEFINE W == [s \in A |-> -w[s]]
           C == [s \in A |-> -c[s]]
           V == [s \in A |-> -v[s]]
<1>1. \A s \in A : /\ v[s] \in Int /\ W[s] \in Int /\ C[s] \in Int
                   /\ W[s] = -w[s] /\ C[s] = -c[s] /\ V[s] = -v[s]
                   /\ V[s] = C[s] + Part(W[s] - C[s], a, b)
  <2> SUFFICES ASSUME NEW s \in A
               PROVE  /\ v[s] \in Int /\ W[s] \in Int /\ C[s] \in Int
                      /\ W[s] = -w[s] /\ C[s] = -c[s] /\ V[s] = -v[s]
                      /\ V[s] = C[s] + Part(W[s] - C[s], a, b)
    OBVIOUS
  <2> DEFINE x == w[s] - c[s]
             p == Part(x, a, b)
  <2>1. w[s] \in Int /\ c[s] \in Int /\ x \in Int /\ W[s] - C[s] = -x
    OBVIOUS
  <2>2. p \in Int /\ Part(-x, a, b) = -p
    <3> HIDE DEF x
    <3> QED BY <2>1, PartNear
  <2>3. v[s] = c[s] + p
    OBVIOUS
  <2>4. W[s] = -w[s] /\ C[s] = -c[s] /\ V[s] = -v[s]
    OBVIOUS
  <2>5. Part(W[s] - C[s], a, b) = -p
    BY <2>1, <2>2
  <2> HIDE DEF p, x, W, C, V
  <2> QED BY <2>1, <2>2, <2>3, <2>4, <2>5
<1> HIDE DEF W, C, V
<1>2. /\ SumFunctionOnSet(W, A) = -SumFunctionOnSet(w, A)
      /\ SumFunctionOnSet(C, A) = -SumFunctionOnSet(c, A)
      /\ SumFunctionOnSet(V, A) = -SumFunctionOnSet(v, A)
  BY <1>1, SumNegated
<1>3. /\ SumFunctionOnSet(w, A) \in Int /\ SumFunctionOnSet(c, A) \in Int
      /\ SumFunctionOnSet(v, A) \in Int
  BY <1>1, SumType
<1>4. -least \in Int /\ SumFunctionOnSet(W, A) <= -least /\ SumFunctionOnSet(C, A) <= -least
  BY <1>2, <1>3
<1>5. SumFunctionOnSet(V, A) <= -least + dust
  BY <1>1, <1>4, WayBelow
<1> QED BY <1>2, <1>3, <1>5

\* A portfolio on its way between two long ones is long.
LEMMA WayLong ==
  ASSUME NEW w, \A s \in Symbols : w[s] \in Nat, NEW c \in Weights, NEW v,
         NEW a \in Nat, NEW b \in Nat \ {0}, a <= b,
         \A s \in Symbols : v[s] = c[s] + Part(w[s] - c[s], a, b)
  PROVE  \A s \in Symbols : v[s] \in Int /\ v[s] >= 0
<1> SUFFICES ASSUME NEW s \in Symbols PROVE v[s] \in Int /\ v[s] >= 0
  OBVIOUS
<1> DEFINE x == w[s] - c[s]
           p == Part(x, a, b)
<1>1. x \in Int /\ w[s] \in Int /\ w[s] >= 0 /\ c[s] \in Int /\ c[s] >= 0
  BY WeightRange
<1>2. v[s] = c[s] + p
  OBVIOUS
<1>3. p \in Int /\ (x >= 0 => p >= 0) /\ (x <= 0 => p >= x)
  <2> HIDE DEF x
  <2> QED BY <1>1, PartNear, PartShort
<1> HIDE DEF p
<1> QED BY <1>1, <1>2, <1>3

\* A portfolio on its way between two whole ones that keep the minimum of cash is
\* not cut when it is normalised, and whatever bounds both bounds it.
LEMMA WayNormalised ==
  ASSUME NEW w, \A s \in Symbols : w[s] \in Nat, NEW c \in Weights, NEW v,
         NEW a \in Nat, NEW b \in Nat \ {0}, a <= b,
         \A s \in Symbols : v[s] = c[s] + Part(w[s] - c[s], a, b),
         Total(w, Symbols) = WHOLE, Total(c, Symbols) = WHOLE,
         w[CASH] >= MinCash, c[CASH] >= MinCash,
         NEW dust \in Nat, Cardinality(Risky) <= dust + 1, dust <= MinCash,
         NEW A \in SUBSET Symbols
  PROVE  LET f == Normalised(v)
         IN /\ \A most \in Int : Total(w, A) <= most /\ Total(c, A) <= most =>
                 Total(f, A) <= most + dust
            /\ \A least \in Int : Total(w, A) >= least /\ Total(c, A) >= least =>
                 Total(f, A) >= least - dust
<1> DEFINE f == Normalised(v)
           long == [s \in Symbols |-> Positive(v[s])]
           all == Total(long, Risky)
<1>0. /\ WHOLE \in Nat /\ MinCash \in Nat
      /\ \A s \in Symbols : w[s] \in Int /\ w[s] >= 0 /\ c[s] \in Int /\ c[s] >= 0
  <2>1. WHOLE \in Nat /\ MinCash \in Nat
    BY ConstraintsAssumption DEF WHOLE
  <2>2. \A s \in Symbols : c[s] \in Int /\ c[s] >= 0
    BY WeightRange
  <2>3. \A s \in Symbols : w[s] \in Int /\ w[s] >= 0
    OBVIOUS
  <2> QED BY <2>1, <2>2, <2>3
<1>1. \A s \in Symbols : v[s] \in Int /\ v[s] >= 0
  BY WayLong
<1>2. /\ f \in Weights /\ Total(f, Symbols) = WHOLE
      /\ all <= WHOLE => \A s \in Risky : f[s] = long[s]
  BY <1>1, NormalisedFacts
<1>3. \A s \in Symbols : long[s] = v[s]
  BY <1>1, PositiveRange
<1> HIDE DEF f, long
<1>4. ASSUME NEW B \in SUBSET Risky, NEW most \in Int, Total(w, B) <= most, Total(c, B) <= most
      PROVE  Total(v, B) <= most + dust
  <2>1. /\ IsFiniteSet(B) /\ Cardinality(B) <= dust + 1
        /\ \A s \in B : w[s] \in Int /\ c[s] \in Int /\ v[s] = c[s] + Part(w[s] - c[s], a, b)
    <3>1. IsFiniteSet(B) /\ Cardinality(B) <= Cardinality(Risky) /\ Cardinality(B) \in Nat
      BY SymbolFacts, FS_Subset, FS_CardinalityType
    <3> QED BY <1>0, <3>1, SymbolFacts
  <2> QED BY <1>4, <2>1, WayBelow DEF Total
<1>5. ASSUME NEW B \in SUBSET Risky, NEW least \in Int,
             Total(w, B) >= least, Total(c, B) >= least
      PROVE  Total(v, B) >= least - dust
  <2>1. /\ IsFiniteSet(B) /\ Cardinality(B) <= dust + 1
        /\ \A s \in B : w[s] \in Int /\ c[s] \in Int /\ v[s] = c[s] + Part(w[s] - c[s], a, b)
    <3>1. IsFiniteSet(B) /\ Cardinality(B) <= Cardinality(Risky) /\ Cardinality(B) \in Nat
      BY SymbolFacts, FS_Subset, FS_CardinalityType
    <3> QED BY <1>0, <3>1, SymbolFacts
  <2> QED BY <1>5, <2>1, WayWithin DEF Total
<1>6. all <= WHOLE
  <2>1. /\ Total(w, Risky) = WHOLE - w[CASH] /\ Total(c, Risky) = WHOLE - c[CASH]
    <3>1. /\ Total(w, Symbols) = w[CASH] + Total(w, Risky) /\ Total(w, Risky) \in Int
          /\ Total(c, Symbols) = c[CASH] + Total(c, Risky) /\ Total(c, Risky) \in Int
      BY <1>0, TotalSplit
    <3> QED BY <1>0, <3>1, SymbolFacts
  <2>2. /\ WHOLE - MinCash \in Int
        /\ Total(w, Risky) <= WHOLE - MinCash /\ Total(c, Risky) <= WHOLE - MinCash
    BY <1>0, <2>1, SymbolFacts
  <2>3. Total(v, Risky) <= (WHOLE - MinCash) + dust
    BY <1>4, <2>2
  <2>4. all = Total(v, Risky) /\ Total(v, Risky) \in Int
    <3>1. \A s \in Risky : v[s] \in Int /\ long[s] = v[s]
      BY <1>1, <1>3, SymbolFacts
    <3> QED BY <3>1, SymbolFacts, SumSame, SumType DEF Total
  <2> HIDE DEF all
  <2> QED BY <1>0, <2>3, <2>4
<1>7. \A s \in Risky : f[s] = v[s]
  BY <1>2, <1>3, <1>6, SymbolFacts
<1>8. \A B \in SUBSET Risky : Total(f, B) = Total(v, B) /\ Total(v, B) \in Int
  <2> SUFFICES ASSUME NEW B \in SUBSET Risky
               PROVE  Total(f, B) = Total(v, B) /\ Total(v, B) \in Int
    OBVIOUS
  <2>1. IsFiniteSet(B) /\ \A s \in B : v[s] \in Int /\ f[s] = v[s]
    BY <1>1, <1>7, SymbolFacts, FS_Subset
  <2> QED BY <2>1, SumSame, SumType DEF Total
<1>9. CASE CASH \notin A
  <2>1. A \in SUBSET Risky
    BY <1>9, SymbolFacts
  <2>2. /\ \A most \in Int : Total(w, A) <= most /\ Total(c, A) <= most =>
             Total(f, A) <= most + dust
        /\ \A least \in Int : Total(w, A) >= least /\ Total(c, A) >= least =>
             Total(f, A) >= least - dust
    BY <1>4, <1>5, <1>8, <2>1
  <2> QED BY <2>2 DEF f
<1>10. CASE CASH \in A
  <2> DEFINE B == Symbols \ A
  <2>1. B \in SUBSET Risky
    BY <1>10, SymbolFacts
  <2>2. /\ Total(w, A) = WHOLE - Total(w, B) /\ Total(w, B) \in Int
        /\ Total(c, A) = WHOLE - Total(c, B) /\ Total(c, B) \in Int
        /\ Total(f, A) = WHOLE - Total(f, B) /\ Total(f, B) \in Int
    <3>1. \A s \in Symbols : f[s] \in Int
      BY <1>2, WeightRange
    <3>2. IsFiniteSet(A) /\ IsFiniteSet(B) /\ B \subseteq Symbols
      BY SymbolFacts, FS_Subset
    <3>3. /\ Total(w, Symbols) = Total(w, A) + Total(w, B)
          /\ Total(c, Symbols) = Total(c, A) + Total(c, B)
          /\ Total(f, Symbols) = Total(f, A) + Total(f, B)
      BY <1>0, <3>1, SymbolFacts, SumDisjoint DEF Total
    <3>4. /\ Total(w, A) \in Int /\ Total(w, B) \in Int /\ Total(c, A) \in Int
          /\ Total(c, B) \in Int /\ Total(f, A) \in Int /\ Total(f, B) \in Int
      <4>1. \A x : (\A s \in Symbols : x[s] \in Int) => Total(x, A) \in Int /\ Total(x, B) \in Int
        <5> SUFFICES ASSUME NEW x, \A s \in Symbols : x[s] \in Int
                     PROVE  Total(x, A) \in Int /\ Total(x, B) \in Int
          OBVIOUS
        <5>1. (\A s \in A : x[s] \in Int) /\ (\A s \in B : x[s] \in Int)
          BY <3>2
        <5> HIDE DEF B
        <5> QED BY <3>2, <5>1, SumType DEF Total
      <4> QED BY <1>0, <3>1, <4>1
    <3> HIDE DEF B
    <3> QED BY <1>0, <1>2, <3>3, <3>4
  <2> HIDE DEF B
  <2>3. ASSUME NEW most \in Int, Total(w, A) <= most, Total(c, A) <= most
        PROVE  Total(f, A) <= most + dust
    <3>1. WHOLE - most \in Int /\ Total(w, B) >= WHOLE - most /\ Total(c, B) >= WHOLE - most
      BY <1>0, <2>2, <2>3
    <3>2. Total(v, B) >= (WHOLE - most) - dust
      BY <1>5, <2>1, <3>1
    <3>3. Total(f, B) = Total(v, B)
      BY <1>8, <2>1
    <3> QED BY <1>0, <2>2, <3>2, <3>3
  <2>4. ASSUME NEW least \in Int, Total(w, A) >= least, Total(c, A) >= least
        PROVE  Total(f, A) >= least - dust
    <3>1. WHOLE - least \in Int /\ Total(w, B) <= WHOLE - least /\ Total(c, B) <= WHOLE - least
      BY <1>0, <2>2, <2>4
    <3>2. Total(v, B) <= (WHOLE - least) + dust
      BY <1>4, <2>1, <3>1
    <3>3. Total(f, B) = Total(v, B)
      BY <1>8, <2>1
    <3> QED BY <1>0, <2>2, <3>2, <3>3
  <2> QED BY <2>3, <2>4 DEF f
<1> QED BY <1>9, <1>10

Bound(i) == SleeveBounds[i]
Held(w, i) == Total(w, Of(Bound(i).name))

\* Nothing that check looks at is further than t outside its limit.
Feasible(w, t) ==
  /\ Size(Total(w, Symbols) - WHOLE) <= t
  /\ MinCash - w[CASH] <= t /\ Total(w, Equities) - MaxEquity <= t
  /\ \A s \in Symbols : w[s] - MaxWeight[s] <= t /\ MinWeight[s] - w[s] <= t
  /\ \A i \in DOMAIN SleeveBounds :
       Of(Bound(i).name) # {} =>
         Held(w, i) - Bound(i).upper <= t /\ Bound(i).lower - Held(w, i) <= t

LEMMA PositiveBelow ==
  ASSUME NEW x \in Int, NEW t \in Nat
  PROVE  ~(Positive(x) > t) <=> x <= t
  BY DEF Positive, Greatest

LEMMA LongHasNoLeverage ==
  ASSUME NEW w \in [Symbols -> Nat]
  PROVE  Max({Positive(-w[s]) : s \in Symbols}) = 0
<1>1. \A s \in Symbols : Positive(-w[s]) = 0
  BY DEF Positive, Greatest
<1>2. {Positive(-w[s]) : s \in Symbols} = {0}
  BY <1>1, SymbolFacts
<1>3. Max({0}) = 0
  BY DEF Max
<1> QED BY <1>2, <1>3

Tagged(tag, S, f) == {<<tag, f[s]>> : s \in S}

LEMMA TaggedBelow ==
  ASSUME NEW tag, NEW S, NEW f, NEW t
  PROVE  (\A x \in Tagged(tag, S, f) : ~(x[2] > t)) <=> \A s \in S : ~(f[s] > t)
<1>1. ASSUME \A x \in Tagged(tag, S, f) : ~(x[2] > t), NEW s \in S
      PROVE  ~(f[s] > t)
  <2>1. <<tag, f[s]>> \in Tagged(tag, S, f) /\ <<tag, f[s]>>[2] = f[s]
    BY DEF Tagged
  <2> QED BY <1>1, <2>1
<1>2. ASSUME \A s \in S : ~(f[s] > t), NEW x \in Tagged(tag, S, f)
      PROVE  ~(x[2] > t)
  <2>1. PICK s \in S : x = <<tag, f[s]>>
    BY DEF Tagged
  <2>2. x[2] = f[s]
    BY <2>1
  <2> QED BY <1>2, <2>2
<1> QED BY <1>1, <1>2

LEMMA CheckMeans ==
  ASSUME NEW w \in [Symbols -> Nat], NEW t \in Nat
  PROVE  Check(w, t) = {} <=> Feasible(w, t)
<1> DEFINE sleeves == {SleeveBounds[i] : i \in {j \in DOMAIN SleeveBounds :
                         Of(SleeveBounds[j].name) # {}}}
           sum == Size(Total(w, Symbols) - WHOLE)
           leverage == Max({Positive(-w[s]) : s \in Symbols})
           cash == Positive(MinCash - w[CASH])
           equity == Positive(Total(w, Equities) - MaxEquity)
           high == [s \in Symbols |-> Positive(w[s] - MaxWeight[s])]
           low == [s \in Symbols |-> Positive(MinWeight[s] - w[s])]
           upper == [b \in sleeves |-> Positive(Total(w, Of(b.name)) - b.upper)]
           lower == [b \in sleeves |-> Positive(b.lower - Total(w, Of(b.name)))]
<1>1. Check(w, t) = {} <=> \A x \in Excess(w) : ~(x[2] > t)
  BY DEF Check
<1>2. Excess(w) = {<<"weight_sum", sum>>, <<"leverage", leverage>>, <<"min_cash", cash>>,
                   <<"max_equity", equity>>}
                  \cup {<<"max_weight", high[s]>> : s \in Symbols}
                  \cup {<<"min_weight", low[s]>> : s \in Symbols}
                  \cup {<<"sleeve_upper", upper[b]>> : b \in sleeves}
                  \cup {<<"sleeve_lower", lower[b]>> : b \in sleeves}
  <2>1. /\ {<<"max_weight", high[s]>> : s \in Symbols}
             = {<<"max_weight", Positive(w[s] - MaxWeight[s])>> : s \in Symbols}
        /\ {<<"min_weight", low[s]>> : s \in Symbols}
             = {<<"min_weight", Positive(MinWeight[s] - w[s])>> : s \in Symbols}
    OBVIOUS
  <2>2. /\ {<<"sleeve_upper", upper[b]>> : b \in sleeves}
             = {<<"sleeve_upper", Positive(Total(w, Of(b.name)) - b.upper)>> : b \in sleeves}
        /\ {<<"sleeve_lower", lower[b]>> : b \in sleeves}
             = {<<"sleeve_lower", Positive(b.lower - Total(w, Of(b.name)))>> : b \in sleeves}
    <3> HIDE DEF sleeves
    <3> QED OBVIOUS
  <2> HIDE DEF high, low, upper, lower
  <2> QED BY <2>1, <2>2 DEF Excess
<1> DEFINE All == /\ ~(sum > t) /\ ~(leverage > t) /\ ~(cash > t) /\ ~(equity > t)
                  /\ \A s \in Symbols : ~(high[s] > t) /\ ~(low[s] > t)
                  /\ \A b \in sleeves : ~(upper[b] > t) /\ ~(lower[b] > t)
<1>3. (\A x \in Excess(w) : ~(x[2] > t)) <=> All
  <2> HIDE DEF sum, leverage, cash, equity, high, low, upper, lower, sleeves
  <2> DEFINE Few == {<<"weight_sum", sum>>, <<"leverage", leverage>>, <<"min_cash", cash>>,
                     <<"max_equity", equity>>}
             High == Tagged("max_weight", Symbols, high)
             Low == Tagged("min_weight", Symbols, low)
             Upper == Tagged("sleeve_upper", sleeves, upper)
             Lower == Tagged("sleeve_lower", sleeves, lower)
  <2>1. (\A x \in Few : ~(x[2] > t)) <=>
          ~(sum > t) /\ ~(leverage > t) /\ ~(cash > t) /\ ~(equity > t)
    OBVIOUS
  <2>2. (\A x \in High : ~(x[2] > t)) <=> \A s \in Symbols : ~(high[s] > t)
    BY TaggedBelow
  <2>3. (\A x \in Low : ~(x[2] > t)) <=> \A s \in Symbols : ~(low[s] > t)
    BY TaggedBelow
  <2>4. (\A x \in Upper : ~(x[2] > t)) <=> \A b \in sleeves : ~(upper[b] > t)
    BY TaggedBelow
  <2>5. (\A x \in Lower : ~(x[2] > t)) <=> \A b \in sleeves : ~(lower[b] > t)
    BY TaggedBelow
  <2>6. Excess(w) = Few \cup High \cup Low \cup Upper \cup Lower
    BY <1>2 DEF Tagged
  <2> HIDE DEF Few, High, Low, Upper, Lower
  <2> QED BY <2>1, <2>2, <2>3, <2>4, <2>5, <2>6
<1>4. leverage = 0 /\ ~(0 > t)
  BY LongHasNoLeverage
<1>5. /\ \A s \in Symbols : w[s] \in Int /\ MinWeight[s] \in Int /\ MaxWeight[s] \in Int
      /\ MinCash \in Int /\ MaxEquity \in Int
      /\ Total(w, Symbols) \in Int /\ Total(w, Equities) \in Int
  <2>1. /\ MinWeight \in Weights /\ MaxWeight \in Weights /\ Equities \subseteq Symbols
        /\ MinCash \in Int /\ MaxEquity \in Int
    BY ConstraintsAssumption
  <2>2. \A s \in Symbols : w[s] \in Int
    OBVIOUS
  <2>3. Total(w, Symbols) \in Int /\ Total(w, Equities) \in Int
    BY <2>1, <2>2, SymbolFacts, FS_Subset, SumType DEF Total
  <2> QED BY <2>1, <2>2, <2>3, WeightRange
<1>6. ~(sum > t) <=> sum <= t
  BY <1>5, SizeRange DEF WHOLE
<1>7. (~(cash > t) <=> MinCash - w[CASH] <= t) /\ (~(equity > t) <=> Total(w, Equities) - MaxEquity <= t)
  BY <1>5, SymbolFacts, PositiveBelow
<1>8. \A s \in Symbols : /\ ~(high[s] > t) <=> w[s] - MaxWeight[s] <= t
                         /\ ~(low[s] > t) <=> MinWeight[s] - w[s] <= t
  BY <1>5, PositiveBelow
<1>9. (\A b \in sleeves : ~(upper[b] > t) /\ ~(lower[b] > t)) <=>
        \A i \in DOMAIN SleeveBounds : Of(Bound(i).name) # {} =>
          Held(w, i) - Bound(i).upper <= t /\ Bound(i).lower - Held(w, i) <= t
  <2>1. \A i \in {j \in DOMAIN SleeveBounds : Of(Bound(j).name) # {}} :
          /\ ~(upper[Bound(i)] > t) <=> Held(w, i) - Bound(i).upper <= t
          /\ ~(lower[Bound(i)] > t) <=> Bound(i).lower - Held(w, i) <= t
    <3> SUFFICES ASSUME NEW i \in DOMAIN SleeveBounds, Of(Bound(i).name) # {}
                 PROVE  /\ ~(upper[Bound(i)] > t) <=> Held(w, i) - Bound(i).upper <= t
                        /\ ~(lower[Bound(i)] > t) <=> Bound(i).lower - Held(w, i) <= t
      OBVIOUS
    <3>1. Bound(i).upper \in Int /\ Bound(i).lower \in Int
      BY BoundFacts DEF Bound
    <3>2. Held(w, i) \in Int
      BY <1>5, MembersFacts DEF Held
    <3>3. upper[Bound(i)] = Positive(Held(w, i) - Bound(i).upper)
          /\ lower[Bound(i)] = Positive(Bound(i).lower - Held(w, i))
      <4>1. Bound(i) \in sleeves
        BY DEF Bound
      <4> HIDE DEF sleeves
      <4> QED BY <4>1 DEF Held
    <3> HIDE DEF upper, lower
    <3> QED BY <3>1, <3>2, <3>3, PositiveBelow
  <2>2. (\A b \in sleeves : ~(upper[b] > t) /\ ~(lower[b] > t)) <=>
          \A i \in DOMAIN SleeveBounds : Of(Bound(i).name) # {} =>
            ~(upper[Bound(i)] > t) /\ ~(lower[Bound(i)] > t)
    <3> HIDE DEF upper, lower
    <3> QED BY DEF Bound
  <2> HIDE DEF upper, lower, sleeves
  <2> QED BY <2>1, <2>2
<1> HIDE DEF leverage, cash, equity, high, low, upper, lower, sleeves
<1>10. All <=> Feasible(w, t)
  <2>1. All <=> /\ sum <= t /\ ~(cash > t) /\ ~(equity > t)
                /\ \A s \in Symbols : ~(high[s] > t) /\ ~(low[s] > t)
                /\ \A b \in sleeves : ~(upper[b] > t) /\ ~(lower[b] > t)
    <3> HIDE DEF sum
    <3> QED BY <1>4, <1>6
  <2> HIDE DEF All
  <2> QED BY <1>7, <1>8, <1>9, <2>1 DEF Feasible
<1> HIDE DEF All
<1> QED BY <1>1, <1>3, <1>10

LEMMA FeasibleMore ==
  ASSUME NEW w \in [Symbols -> Nat], NEW t \in Nat, Feasible(w, 0)
  PROVE  Feasible(w, t)
<1>1. \A x \in Int : x <= 0 => x <= t
  OBVIOUS
<1>2. \A s \in Symbols : w[s] \in Int
  OBVIOUS
<1>3. /\ \A s \in Symbols : w[s] - MaxWeight[s] \in Int /\ MinWeight[s] - w[s] \in Int
      /\ MinCash - w[CASH] \in Int /\ Total(w, Equities) - MaxEquity \in Int
      /\ Size(Total(w, Symbols) - WHOLE) \in Int
  <2>1. /\ MinWeight \in Weights /\ MaxWeight \in Weights /\ Equities \subseteq Symbols
        /\ MinCash \in Int /\ MaxEquity \in Int
    BY ConstraintsAssumption
  <2>2. Total(w, Symbols) - WHOLE \in Int /\ Total(w, Equities) \in Int
    BY <1>2, <2>1, SymbolFacts, FS_Subset, SumType DEF Total, WHOLE
  <2> QED BY <1>2, <2>1, <2>2, SymbolFacts, SizeRange, WeightRange
<1>4. \A i \in DOMAIN SleeveBounds :
        Held(w, i) - Bound(i).upper \in Int /\ Bound(i).lower - Held(w, i) \in Int
  BY <1>2, BoundFacts, MembersFacts DEF Held, Bound
<1> QED BY <1>1, <1>3, <1>4 DEF Feasible

\* A feasible wish survives the passes as it is.
LEMMA FeasibleWishStands ==
  ASSUME NEW u \in [Symbols -> Nat], Feasible(u, 0)
  PROVE  WithinSleeves(Bounded(u)) = u
<1>1. Bounded(u) = u
  <2>1. \A s \in Symbols : Greatest(MinWeight[s], Least(MaxWeight[s], u[s])) = u[s]
    <3> SUFFICES ASSUME NEW s \in Symbols
                 PROVE  Greatest(MinWeight[s], Least(MaxWeight[s], u[s])) = u[s]
      OBVIOUS
    <3>1. u[s] \in Int /\ MinWeight[s] \in Int /\ MaxWeight[s] \in Int
      BY ConstraintsAssumption, WeightRange
    <3>2. u[s] - MaxWeight[s] <= 0 /\ MinWeight[s] - u[s] <= 0
      BY DEF Feasible
    <3>3. MinWeight[s] <= u[s] /\ u[s] <= MaxWeight[s]
      BY <3>1, <3>2
    <3> QED BY <3>1, <3>3 DEF Greatest, Least
  <2>2. u = [s \in Symbols |-> u[s]]
    OBVIOUS
  <2> QED BY <2>1, <2>2 DEF Bounded
<1>2. \A i \in 1..Len(SleeveBounds) : WithinSleeve(u, SleeveBounds[i]) = u
  <2> SUFFICES ASSUME NEW i \in 1..Len(SleeveBounds)
               PROVE  WithinSleeve(u, SleeveBounds[i]) = u
    OBVIOUS
  <2> DEFINE members == Of(SleeveBounds[i].name)
             total == Total(u, members)
  <2>1. CASE members = {}
    BY <2>1 DEF WithinSleeve
  <2>2. CASE members # {}
    <3>1. /\ i \in DOMAIN SleeveBounds
          /\ SleeveBounds[i].upper \in Int /\ SleeveBounds[i].lower \in Int
      BY BoundFacts
    <3>2. total \in Int
      <4>1. \A s \in Symbols : u[s] \in Int
        OBVIOUS
      <4> QED BY <4>1, MembersFacts
    <3>3. total - SleeveBounds[i].upper <= 0 /\ SleeveBounds[i].lower - total <= 0
      BY <2>2, <3>1 DEF Feasible, Held, Bound
    <3> HIDE DEF total
    <3>4. ~(total > SleeveBounds[i].upper) /\ ~(total < SleeveBounds[i].lower)
      BY <3>1, <3>2, <3>3
    <3> QED BY <2>2, <3>4 DEF WithinSleeve, total
  <2> QED BY <2>1, <2>2
<1>3. WithinSleeves(u) \in {u}
  <2> DEFINE S == {u}
  <2>1. u \in S /\ \A i \in 1..Len(SleeveBounds), x \in S : WithinSleeve(x, SleeveBounds[i]) \in S
    BY <1>2
  <2> HIDE DEF S
  <2>2. WithinSleeves(u) \in S
    BY <2>1, SleeveInduction
  <2> QED BY <2>2 DEF S
<1> QED BY <1>1, <1>3

\* What apply makes of a wish is normalised from a portfolio on the way to what the
\* passes make of it, or at its end.
LEMMA ApplyWay ==
  ASSUME NEW aim, \A s \in Symbols : aim[s] \in Int, NEW c \in Weights
  PROVE  LET u == WithinSleeves(Bounded(aim))
         IN \E a \in Nat, b \in Nat \ {0} : \E v :
              /\ a <= b /\ Apply(aim, c) = Normalised(v)
              /\ \A s \in Symbols : v[s] = c[s] + Part(u[s] - c[s], a, b)
<1> DEFINE u == WithinSleeves(Bounded(aim))
           v == WithinTurnover(u, c)
<1>1. \A s \in Symbols : u[s] \in Int /\ c[s] \in Int
  BY ApplyFacts, NumbersFacts, WeightRange
<1>2. /\ Apply(aim, c) = Normalised(v)
      /\ v = u \/ (/\ Traded(u, c) > 2 * MaxTurnover
                   /\ v = Towards(u, c, 2 * MaxTurnover, Traded(u, c)))
  BY ApplyFacts
<1> HIDE DEF u, v
<1>3. CASE v = u
  <2>1. \A s \in Symbols : v[s] = c[s] + Part(u[s] - c[s], 1, 1)
    <3> SUFFICES ASSUME NEW s \in Symbols PROVE u[s] = c[s] + Part(u[s] - c[s], 1, 1)
      BY <1>3
    <3> DEFINE x == u[s] - c[s]
    <3>1. x \in Int /\ c[s] \in Int /\ u[s] = c[s] + x
      BY <1>1
    <3> HIDE DEF x
    <3>2. Part(x, 1, 1) = x
      <4>1. /\ Part(x, 1, 1) \in Int
            /\ x >= 0 => 1 * x - (1 - 1) <= 1 * Part(x, 1, 1) /\ 1 * Part(x, 1, 1) <= 1 * x
            /\ x <= 0 => 1 * x <= 1 * Part(x, 1, 1) /\ 1 * Part(x, 1, 1) <= 1 * x + (1 - 1)
        BY <3>1, PartRange
      <4> QED BY <3>1, <4>1
    <3> QED BY <3>1, <3>2 DEF x
  <2>2. 1 \in Nat /\ 1 \in Nat \ {0} /\ 1 <= 1
    OBVIOUS
  <2> QED BY <1>2, <2>1, <2>2 DEF u
<1>4. CASE /\ Traded(u, c) > 2 * MaxTurnover
           /\ v = Towards(u, c, 2 * MaxTurnover, Traded(u, c))
  <2>1. 2 * MaxTurnover \in Nat /\ Traded(u, c) \in Nat \ {0} /\ 2 * MaxTurnover <= Traded(u, c)
    <3>1. MaxTurnover \in Nat \ {0}
      BY ConstraintsAssumption DEF WHOLE
    <3>2. Traded(u, c) \in Nat
      BY <1>1, TradedFacts
    <3> QED BY <1>4, <3>1, <3>2
  <2>2. \A s \in Symbols : v[s] = c[s] + Part(u[s] - c[s], 2 * MaxTurnover, Traded(u, c))
    BY <1>4 DEF Towards
  <2> QED BY <1>2, <2>1, <2>2 DEF u
<1> QED BY <1>2, <1>3, <1>4

LEMMA SingleTotal ==
  ASSUME NEW w, NEW s, w[s] \in Int
  PROVE  Total(w, {s}) = w[s]
<1>1. IsFiniteSet({s}) /\ \A x \in {s} : w[x] \in Int
  BY FS_Singleton
<1>2. SumFunctionOnSet(w, {s}) = w[s] + SumFunctionOnSet(w, {s} \ {s})
  <2>1. s \in {s}
    OBVIOUS
  <2> QED BY <1>1, <2>1, SumSplit
<1>3. {s} \ {s} = {}
  OBVIOUS
<1> QED BY <1>2, <1>3, SumEmpty DEF Total

LEMMA FeasibleRebalance ==
  ASSUME NEW u \in [Symbols -> Nat], Feasible(u, 0), NEW c \in Weights, Feasible(c, 0),
         NEW dust \in Nat, Cardinality(Risky) <= dust + 1, dust <= MinCash
  PROVE  Feasible(Apply(u, c), dust)
<1>0. PICK a \in Nat, b \in Nat \ {0} : \E v :
         /\ a <= b /\ Apply(u, c) = Normalised(v)
         /\ \A s \in Symbols : v[s] = c[s] + Part(u[s] - c[s], a, b)
  <2>1. WithinSleeves(Bounded(u)) = u /\ \A s \in Symbols : u[s] \in Int
    BY FeasibleWishStands
  <2> QED BY <2>1, ApplyWay
<1>1. PICK v :
         /\ a <= b /\ Apply(u, c) = Normalised(v)
         /\ \A s \in Symbols : v[s] = c[s] + Part(u[s] - c[s], a, b)
  BY <1>0
<1> DEFINE f == Normalised(v)
<1>2. /\ \A s \in Symbols : u[s] \in Int /\ c[s] \in Int /\ v[s] \in Int
      /\ WHOLE \in Int /\ MinCash \in Int /\ MaxEquity \in Int /\ Equities \in SUBSET Symbols
      /\ \A s \in Symbols : MinWeight[s] \in Int /\ MaxWeight[s] \in Int
  <2>1. \A s \in Symbols : u[s] \in Int /\ c[s] \in Int
    BY WeightRange
  <2>2. \A s \in Symbols : v[s] \in Int
    <3> SUFFICES ASSUME NEW s \in Symbols PROVE v[s] \in Int
      OBVIOUS
    <3> DEFINE x == u[s] - c[s]
    <3>1. x \in Int
      BY <2>1
    <3>2. v[s] = c[s] + Part(x, a, b)
      BY <1>1
    <3> HIDE DEF x
    <3>3. Part(x, a, b) \in Int
      BY <3>1, PartRange
    <3> QED BY <2>1, <3>2, <3>3
  <2>3. /\ MinCash \in 0..WHOLE /\ MaxEquity \in 0..WHOLE /\ WHOLE \in Int
        /\ Equities \in SUBSET Symbols /\ MinWeight \in Weights /\ MaxWeight \in Weights
    BY ConstraintsAssumption DEF WHOLE
  <2>4. \A s \in Symbols : MinWeight[s] \in Int /\ MaxWeight[s] \in Int
    BY <2>3, WeightRange
  <2> QED BY <2>1, <2>2, <2>3, <2>4
<1>3. /\ Total(u, Symbols) = WHOLE /\ Total(c, Symbols) = WHOLE
      /\ u[CASH] >= MinCash /\ c[CASH] >= MinCash
  <2>1. \A w : (\A s \in Symbols : w[s] \in Int) /\ Feasible(w, 0) =>
                 Total(w, Symbols) = WHOLE /\ w[CASH] >= MinCash
    <3> SUFFICES ASSUME NEW w, \A s \in Symbols : w[s] \in Int, Feasible(w, 0)
                 PROVE  Total(w, Symbols) = WHOLE /\ w[CASH] >= MinCash
      OBVIOUS
    <3>1. Total(w, Symbols) \in Int /\ w[CASH] \in Int
      BY TotalSplit, SymbolFacts
    <3>2. Size(Total(w, Symbols) - WHOLE) <= 0 /\ MinCash - w[CASH] <= 0
      BY DEF Feasible
    <3>3. Total(w, Symbols) - WHOLE <= 0 /\ -(Total(w, Symbols) - WHOLE) <= 0
      <4> DEFINE d == Total(w, Symbols) - WHOLE
      <4>1. d \in Int
        BY <1>2, <3>1
      <4>2. Size(d) <= 0
        BY <3>2
      <4> HIDE DEF d
      <4>3. d <= 0 /\ -d <= 0
        BY <4>1, <4>2, SizeRange
      <4> QED BY <4>3 DEF d
    <3> QED BY <1>2, <3>1, <3>2, <3>3
  <2> QED BY <1>2, <2>1
<1>4. f \in Weights /\ Total(f, Symbols) = WHOLE
  BY <1>2, NormalisedFacts
<1> HIDE DEF f
<1>5. \A A \in SUBSET Symbols :
        /\ \A most \in Int : Total(u, A) <= most /\ Total(c, A) <= most =>
             Total(f, A) <= most + dust
        /\ \A least \in Int : Total(u, A) >= least /\ Total(c, A) >= least =>
             Total(f, A) >= least - dust
  <2>1. \A s \in Symbols : u[s] \in Nat
    OBVIOUS
  <2> QED BY <1>1, <1>3, <2>1, WayNormalised DEF f
<1>6. \A s \in Symbols : f[s] \in Int
  BY <1>4, WeightRange
<1>7. \A s \in Symbols :
        /\ \A most \in Int : u[s] <= most /\ c[s] <= most => f[s] <= most + dust
        /\ \A least \in Int : u[s] >= least /\ c[s] >= least => f[s] >= least - dust
  <2> SUFFICES ASSUME NEW s \in Symbols
               PROVE  /\ \A most \in Int : u[s] <= most /\ c[s] <= most => f[s] <= most + dust
                      /\ \A least \in Int : u[s] >= least /\ c[s] >= least =>
                           f[s] >= least - dust
    OBVIOUS
  <2>1. Total(u, {s}) = u[s] /\ Total(c, {s}) = c[s] /\ Total(f, {s}) = f[s]
    BY <1>2, <1>6, SingleTotal
  <2>2. {s} \in SUBSET Symbols
    OBVIOUS
  <2> QED BY <1>5, <2>1, <2>2
<1>8. Size(Total(f, Symbols) - WHOLE) <= dust
  <2>1. Total(f, Symbols) - WHOLE = 0 /\ Size(0) = 0
    BY <1>2, <1>4 DEF Size, Greatest
  <2> QED BY <2>1
<1>9. MinCash - f[CASH] <= dust
  <2>1. f[CASH] >= MinCash - dust
    BY <1>2, <1>3, <1>7, SymbolFacts
  <2> QED BY <1>2, <1>6, <2>1, SymbolFacts
<1>10. Total(f, Equities) - MaxEquity <= dust
  <2>1. Total(u, Equities) \in Int /\ Total(c, Equities) \in Int /\ Total(f, Equities) \in Int
    <3>1. /\ IsFiniteSet(Equities)
          /\ \A s \in Equities : u[s] \in Int /\ c[s] \in Int /\ f[s] \in Int
      BY <1>2, <1>6, SymbolFacts, FS_Subset
    <3> QED BY <3>1, SumType DEF Total
  <2>2. Total(u, Equities) - MaxEquity <= 0 /\ Total(c, Equities) - MaxEquity <= 0
    BY DEF Feasible
  <2>3. Total(u, Equities) <= MaxEquity /\ Total(c, Equities) <= MaxEquity
    BY <1>2, <2>1, <2>2
  <2>4. Total(f, Equities) <= MaxEquity + dust
    BY <1>2, <1>5, <2>3
  <2> QED BY <1>2, <2>1, <2>4
<1>11. \A s \in Symbols : f[s] - MaxWeight[s] <= dust /\ MinWeight[s] - f[s] <= dust
  <2> SUFFICES ASSUME NEW s \in Symbols
               PROVE  f[s] - MaxWeight[s] <= dust /\ MinWeight[s] - f[s] <= dust
    OBVIOUS
  <2>1. /\ u[s] - MaxWeight[s] <= 0 /\ c[s] - MaxWeight[s] <= 0
        /\ MinWeight[s] - u[s] <= 0 /\ MinWeight[s] - c[s] <= 0
    BY DEF Feasible
  <2>2. u[s] <= MaxWeight[s] /\ c[s] <= MaxWeight[s] /\ u[s] >= MinWeight[s] /\ c[s] >= MinWeight[s]
    BY <1>2, <2>1
  <2>3. f[s] <= MaxWeight[s] + dust /\ f[s] >= MinWeight[s] - dust
    BY <1>2, <1>7, <2>2
  <2>4. f[s] \in Int /\ MaxWeight[s] \in Int /\ MinWeight[s] \in Int
    BY <1>2, <1>6
  <2> QED BY <2>3, <2>4
<1>12. \A i \in DOMAIN SleeveBounds : Of(Bound(i).name) # {} =>
         Held(f, i) - Bound(i).upper <= dust /\ Bound(i).lower - Held(f, i) <= dust
  <2> SUFFICES ASSUME NEW i \in DOMAIN SleeveBounds, Of(Bound(i).name) # {}
               PROVE  Held(f, i) - Bound(i).upper <= dust /\ Bound(i).lower - Held(f, i) <= dust
    OBVIOUS
  <2>1. Bound(i).upper \in Int /\ Bound(i).lower \in Int
    BY BoundFacts DEF Bound
  <2>2. Held(u, i) \in Int /\ Held(c, i) \in Int /\ Held(f, i) \in Int
        /\ Of(Bound(i).name) \in SUBSET Symbols
    BY <1>2, <1>6, MembersFacts DEF Held
  <2>3. /\ Held(u, i) - Bound(i).upper <= 0 /\ Bound(i).lower - Held(u, i) <= 0
        /\ Held(c, i) - Bound(i).upper <= 0 /\ Bound(i).lower - Held(c, i) <= 0
    BY DEF Feasible
  <2>4. /\ Held(u, i) <= Bound(i).upper /\ Held(c, i) <= Bound(i).upper
        /\ Held(u, i) >= Bound(i).lower /\ Held(c, i) >= Bound(i).lower
    BY <2>1, <2>2, <2>3
  <2>5. Held(f, i) <= Bound(i).upper + dust /\ Held(f, i) >= Bound(i).lower - dust
    BY <1>5, <2>1, <2>2, <2>4 DEF Held
  <2> QED BY <2>1, <2>2, <2>5
<1>13. Feasible(f, dust)
  BY <1>8, <1>9, <1>10, <1>11, <1>12 DEF Feasible
<1> QED BY <1>1, <1>13 DEF f

\* A portfolio that passes the check is left passing it by a wish that does: no limit
\* that both keep is broken on the way, by whatever part of it the turnover limit
\* lets the portfolio go (constraints.py:154), if the minimum of cash covers the dust.
THEOREM FeasibleRemainsFeasible ==
  ASSUME Cardinality(Risky) <= Dust + 1, Dust <= MinCash
  PROVE  PolicySpec => FeasibleStaysFeasible
<1>0. Dust \in Nat /\ 0 \in Nat
  BY PolicyAssumption
<1>1. PolicyTypeOK /\ [PolicyNext]_policyVars =>
        [wish' = wish /\ events' = events =>
           (Check(weights, 0) = {} /\ Check(wish, 0) = {} =>
              Check(weights', Dust) = {})]_policyVars
  <2> SUFFICES ASSUME PolicyTypeOK, [PolicyNext]_policyVars, wish' = wish, events' = events,
                      Check(weights, 0) = {}, Check(wish, 0) = {}
               PROVE  Check(weights', Dust) = {}
    OBVIOUS
  <2>1. weights \in Weights /\ wish \in [Symbols -> Nat]
    BY DEF PolicyTypeOK
  <2>2. \A w \in Weights : w \in [Symbols -> Nat]
    <3>1. 0..WHOLE \subseteq Nat
      BY DEF WHOLE
    <3> QED BY <3>1 DEF Weights
  <2>3. Feasible(weights, 0) /\ Feasible(wish, 0)
    BY <1>0, <2>1, <2>2, CheckMeans
  <2>4. Feasible(Apply(wish, weights), Dust)
    BY <1>0, <2>1, <2>3, FeasibleRebalance
  <2>5. CASE weights' = Apply(wish, weights)
    <3>1. weights' \in Weights
      BY PolicyStep DEF PolicyTypeOK
    <3> QED BY <1>0, <2>2, <2>4, <2>5, <3>1, CheckMeans
  <2>6. CASE weights' = weights
    <3>1. Feasible(weights, Dust)
      BY <1>0, <2>1, <2>2, <2>3, FeasibleMore
    <3>2. Check(weights, Dust) = {}
      BY <1>0, <2>1, <2>2, <3>1, CheckMeans
    <3> QED BY <2>6, <3>2
  <2> QED BY <2>5, <2>6, RebalanceOnly
<1> QED
  BY <1>1, PortfolioStaysWhole, PTL DEF PolicySpec, FeasibleStaysFeasible

-----------------------------------------------------------------------------
(* Bounded sleeves *)

Members(i) == Of(SleeveBounds[i].name)
Upper(i) == SleeveBounds[i].upper
Long == [Symbols -> Nat]

\* The long portfolios that are within the upper bounds of the first k sleeves.
Settled == [k \in 0..Len(SleeveBounds) |->
             {x \in Long : \A j \in 1..k : Total(x, Members(j)) <= Upper(j)}]

LEMMA LongMembers ==
  ASSUME NEW x \in Long, NEW i \in 1..Len(SleeveBounds)
  PROVE  /\ \A s \in Symbols : x[s] \in Int /\ x[s] \in Nat
         /\ Total(x, Members(i)) \in Nat /\ Total(x, Members(i)) \in Int
         /\ IsFiniteSet(Members(i)) /\ Members(i) \subseteq Symbols
         /\ Upper(i) \in Nat /\ SleeveBounds[i].lower \in Nat
         /\ SleeveBounds[i].lower <= Upper(i)
<1>1. \A s \in Symbols : x[s] \in Int /\ x[s] \in Nat
  BY DEF Long
<1>2. IsFiniteSet(Members(i)) /\ Members(i) \subseteq Symbols
  BY <1>1, MembersFacts DEF Members
<1>3. Total(x, Members(i)) \in Nat
  <2>1. \A s \in Members(i) : x[s] \in Nat
    BY <1>1, <1>2
  <2> QED BY <1>2, <2>1, SumNat DEF Total
<1>4. Upper(i) \in Nat /\ SleeveBounds[i].lower \in Nat /\ SleeveBounds[i].lower <= Upper(i)
  BY BoundFacts DEF Upper
<1> QED BY <1>1, <1>2, <1>3, <1>4

\* A sleeve that is topped up stays within its bounds, and nothing but its members
\* and cash changes.
LEMMA ToppedSleeve ==
  ASSUME NEW x \in Long, NEW i \in 1..Len(SleeveBounds), CASH \notin Members(i),
         Members(i) # {}, Total(x, Members(i)) < SleeveBounds[i].lower
  PROVE  LET y == Topped(x, Members(i), SleeveBounds[i].lower - Total(x, Members(i)))
         IN /\ y \in Long /\ Total(y, Members(i)) <= Upper(i)
            /\ \A s \in Symbols : s \notin Members(i) /\ s # CASH => y[s] = x[s]
<1> DEFINE A == Members(i)
           n == Cardinality(A)
           total == Total(x, A)
           deficit == SleeveBounds[i].lower - total
           most == Least(deficit, Positive(x[CASH]))
           share == most \div n
           added == [s \in Symbols |-> IF s \in A THEN x[s] + share ELSE x[s]]
           paid == share * n
           rest1 == Positive(added[CASH] - paid)
           y == Topped(x, A, deficit)
           each == [s \in A |-> share]
<1>1. /\ \A s \in Symbols : x[s] \in Int /\ x[s] \in Nat
      /\ total \in Nat /\ IsFiniteSet(A) /\ A \subseteq Symbols
      /\ Upper(i) \in Nat /\ SleeveBounds[i].lower \in Nat /\ SleeveBounds[i].lower <= Upper(i)
  BY LongMembers
<1>2. n \in Nat \ {0}
  <2>1. n \in Nat /\ (n = 0 <=> A = {})
    BY <1>1, FS_CardinalityType, FS_EmptySet
  <2> QED BY <2>1
<1>3. deficit \in Nat
  BY <1>1
<1> HIDE DEF n, total
<1>4. most \in Nat /\ most <= deficit
  <2>1. Positive(x[CASH]) \in Nat
    BY <1>1, SymbolFacts, PositiveRange
  <2> HIDE DEF deficit
  <2> QED BY <1>3, <2>1 DEF Least
<1> HIDE DEF most
<1>5. share \in Nat /\ share \in Int /\ paid \in Nat /\ paid <= most
  <2>1. share \in Int /\ share * n <= most
    BY <1>2, <1>4, DivRange
  <2>2. 0 <= share
    <3>1. 0 * n <= most
      BY <1>2, <1>4
    <3> QED BY <1>2, <1>4, <3>1, DivFloor
  <2> HIDE DEF share
  <2>3. share * n \in Nat
    BY <1>2, <2>1, <2>2
  <2> QED BY <2>1, <2>2, <2>3
<1> HIDE DEF share
<1>6. \A s \in Symbols : added[s] = IF s \in A THEN x[s] + share ELSE x[s]
  OBVIOUS
<1>7. \A s \in Symbols : added[s] \in Nat
  BY <1>1, <1>5, <1>6
<1>8. rest1 \in Nat
  <2>1. added[CASH] \in Int /\ paid \in Int
    BY <1>5, <1>7, SymbolFacts
  <2> HIDE DEF added, paid
  <2> QED BY <2>1, PositiveRange
<1>9. y = [added EXCEPT ![CASH] = rest1]
  BY DEF Topped, share, most, n
<1> HIDE DEF rest1, y
<1>10. /\ y = [s \in Symbols |-> y[s]]
       /\ \A s \in Symbols : y[s] = IF s = CASH THEN rest1 ELSE added[s]
  BY <1>9
<1> HIDE DEF added
<1>11. y \in Long
  <2>1. \A s \in Symbols : y[s] \in Nat
    BY <1>7, <1>8, <1>10
  <2> QED BY <1>10, <2>1 DEF Long
<1>12. \A s \in Symbols : s \notin A /\ s # CASH => y[s] = x[s]
  BY <1>6, <1>10
<1>13. Total(y, A) = total + paid
  <2>1. \A s \in A : each[s] = share /\ each[s] \in Int /\ x[s] \in Int
                     /\ y[s] = 1 * x[s] + each[s]
    <3> HIDE DEF A
    <3>1. \A s \in A : each[s] = share /\ y[s] = x[s] + share /\ x[s] \in Int
      <4>1. \A s \in A : s \in Symbols /\ s # CASH
        BY <1>1 DEF A
      <4>2. \A s \in A : each[s] = share
        OBVIOUS
      <4> HIDE DEF each
      <4> QED BY <1>1, <1>6, <1>10, <4>1, <4>2
    <3> HIDE DEF each
    <3> QED BY <1>5, <3>1
  <2> HIDE DEF each
  <2>2. SumFunctionOnSet(y, A) = 1 * SumFunctionOnSet(x, A) + SumFunctionOnSet(each, A)
    BY <1>1, <2>1, SumLinear
  <2>3. SumFunctionOnSet(each, A) = share * n
    BY <1>1, <1>5, <2>1, SumConstant DEF n
  <2> QED BY <1>1, <1>5, <2>2, <2>3 DEF Total, total
<1>14. Total(y, A) <= Upper(i)
  <2>1. paid <= SleeveBounds[i].lower - total
    BY <1>3, <1>4, <1>5
  <2> HIDE DEF paid
  <2> QED BY <1>1, <1>5, <1>13, <2>1
<1> QED BY <1>11, <1>12, <1>14 DEF y, total

\* A pass brings its sleeve within the upper bound, and touches no other sleeve.
LEMMA SleevePass ==
  ASSUME NEW x \in Long, NEW i \in 1..Len(SleeveBounds), CASH \notin Members(i)
  PROVE  LET y == WithinSleeve(x, SleeveBounds[i])
         IN /\ y \in Long /\ Total(y, Members(i)) <= Upper(i)
            /\ \A s \in Symbols : s \notin Members(i) /\ s # CASH => y[s] = x[s]
<1> DEFINE A == Members(i)
           total == Total(x, A)
           y == WithinSleeve(x, SleeveBounds[i])
           shares == [s \in A |-> Part(x[s], Upper(i), total)]
           cut == [s \in Symbols |-> IF s \in A THEN Part(x[s], Upper(i), total) ELSE x[s]]
           topped == Topped(x, A, SleeveBounds[i].lower - total)
<1>1. /\ \A s \in Symbols : x[s] \in Int /\ x[s] \in Nat
      /\ total \in Nat /\ IsFiniteSet(A) /\ A \subseteq Symbols
      /\ Upper(i) \in Nat /\ SleeveBounds[i].lower \in Nat /\ SleeveBounds[i].lower <= Upper(i)
  BY LongMembers
<1>2. CASE A = {}
  <2>1. y = x
    BY <1>2 DEF WithinSleeve, Members
  <2>2. total = 0
    BY <1>2, SumEmpty DEF Total
  <2> HIDE DEF y, total, A
  <2>3. Total(x, A) <= Upper(i)
    BY <1>1, <2>2 DEF total
  <2> QED BY <2>1, <2>3 DEF y, A
<1>3. CASE A # {} /\ total > Upper(i)
  <2>1. y = cut
    BY <1>3 DEF WithinSleeve, Members, Upper
  <2>2. /\ \A s \in A : shares[s] \in Nat
        /\ SumFunctionOnSet(shares, A) \in Nat /\ SumFunctionOnSet(shares, A) <= Upper(i)
    <3>1. \A s \in A : x[s] \in Nat
      BY <1>1
    <3>2. SumFunctionOnSet(x, A) > 0
      BY <1>1, <1>3 DEF Total
    <3>3. total = SumFunctionOnSet(x, A)
      BY DEF Total
    <3> HIDE DEF A, total
    <3> QED BY <1>1, <3>1, <3>2, <3>3, SharesFit
  <2>3. \A s \in Symbols : cut[s] = IF s \in A THEN shares[s] ELSE x[s]
    BY <1>1
  <2> HIDE DEF y, cut, shares, total
  <2>4. \A s \in Symbols : y[s] \in Nat
    BY <1>1, <2>1, <2>2, <2>3
  <2>5. y = [s \in Symbols |-> y[s]]
    BY <2>1 DEF cut
  <2>6. Total(y, A) = SumFunctionOnSet(shares, A)
    <3>1. \A s \in A : shares[s] \in Int /\ y[s] = shares[s]
      BY <1>1, <2>1, <2>2, <2>3
    <3> HIDE DEF A
    <3> QED BY <1>1, <3>1, SumSame DEF Total
  <2>7. y \in Long
    BY <2>4, <2>5 DEF Long
  <2>8. \A s \in Symbols : s \notin A /\ s # CASH => y[s] = x[s]
    BY <2>1, <2>3
  <2>9. Total(y, A) <= Upper(i)
    BY <2>2, <2>6
  <2> QED BY <2>7, <2>8, <2>9 DEF y
<1>4. CASE A # {} /\ ~(total > Upper(i)) /\ total < SleeveBounds[i].lower
  <2>1. y = topped
    BY <1>4 DEF WithinSleeve, Members, Upper
  <2>2. /\ topped \in Long /\ Total(topped, A) <= Upper(i)
        /\ \A s \in Symbols : s \notin A /\ s # CASH => topped[s] = x[s]
    BY <1>4, ToppedSleeve
  <2> HIDE DEF y, topped, A
  <2> QED BY <2>1, <2>2 DEF y, A
<1>5. CASE A # {} /\ ~(total > Upper(i)) /\ ~(total < SleeveBounds[i].lower)
  <2>1. y = x
    BY <1>5 DEF WithinSleeve, Members, Upper
  <2>2. total <= Upper(i)
    BY <1>1, <1>5
  <2> HIDE DEF y, total, A
  <2>3. Total(x, A) <= Upper(i)
    BY <2>2 DEF total
  <2> QED BY <2>1, <2>3 DEF y, A
<1> QED BY <1>2, <1>3, <1>4, <1>5

LEMMA BoundedLong ==
  ASSUME NEW u \in Long
  PROVE  Bounded(u) \in Long
<1>1. \A s \in Symbols : Greatest(MinWeight[s], Least(MaxWeight[s], u[s])) \in Nat
  <2> SUFFICES ASSUME NEW s \in Symbols
               PROVE  Greatest(MinWeight[s], Least(MaxWeight[s], u[s])) \in Nat
    OBVIOUS
  <2>1. u[s] \in Nat /\ MinWeight[s] \in Nat /\ MaxWeight[s] \in Nat
    BY ConstraintsAssumption, WeightRange DEF Long
  <2> QED BY <2>1 DEF Greatest, Least
<1> QED BY <1>1 DEF Bounded, Long

\* After the passes no bounded sleeve is above its upper bound: the sleeves are
\* disjoint, so a pass leaves the sleeves before it as they are.
LEMMA PassesSettle ==
  ASSUME NEW u \in Long, \A i \in 1..Len(SleeveBounds) : CASH \notin Members(i)
  PROVE  LET w == WithinSleeves(Bounded(u))
         IN w \in Long /\ \A i \in 1..Len(SleeveBounds) : Total(w, Members(i)) <= Upper(i)
<1> DEFINE n == Len(SleeveBounds)
<1>1. n \in Nat
  BY BoundFacts
<1>2. \A k \in 0..n : Settled[k] = {x \in Long : \A j \in 1..k : Total(x, Members(j)) <= Upper(j)}
  BY DEF Settled
<1>3. Bounded(u) \in Settled[0]
  <2>1. 0 \in 0..n /\ 1..0 = {}
    BY <1>1
  <2> HIDE DEF n
  <2> QED BY <1>2, <2>1, BoundedLong
<1>4. ASSUME NEW i \in 1..n, NEW x \in Settled[i - 1]
      PROVE  WithinSleeve(x, SleeveBounds[i]) \in Settled[i]
  <2> DEFINE y == WithinSleeve(x, SleeveBounds[i])
  <2>1. i \in 0..n /\ i - 1 \in 0..n /\ i \in Int
    BY <1>1
  <2>2. x \in Long /\ \A j \in 1..(i - 1) : Total(x, Members(j)) <= Upper(j)
    BY <1>2, <2>1
  <2>3. /\ y \in Long /\ Total(y, Members(i)) <= Upper(i)
        /\ \A s \in Symbols : s \notin Members(i) /\ s # CASH => y[s] = x[s]
    BY <2>2, SleevePass
  <2> HIDE DEF y
  <2>4. ASSUME NEW j \in 1..i PROVE Total(y, Members(j)) <= Upper(j)
    <3>1. CASE j = i
      BY <2>3, <3>1
    <3>2. CASE j # i
      <4>1. j \in 1..(i - 1) /\ j \in 1..n
        BY <1>1, <2>1, <3>2
      <4>2. SleeveBounds[j].name # SleeveBounds[i].name
        <5>1. i \in DOMAIN SleeveBounds /\ j \in DOMAIN SleeveBounds
          BY <4>1, BoundFacts
        <5> QED BY <3>2, <5>1, ConstraintsAssumption
      <4>3. \A s \in Members(j) : s \in Symbols /\ s \notin Members(i)
        BY <4>2 DEF Members, Of
      <4>4. CASH \notin Members(j)
        BY <4>1
      <4>5. \A s \in Members(j) : x[s] \in Int /\ y[s] = x[s]
        <5>1. \A s \in Members(j) : s \in Symbols /\ s \notin Members(i) /\ s # CASH
          BY <4>3, <4>4
        <5>2. \A s \in Symbols : x[s] \in Int
          BY <2>2 DEF Long
        <5> QED BY <2>3, <5>1, <5>2
      <4>6. IsFiniteSet(Members(j))
        BY <2>2, <4>1, LongMembers
      <4>7. Total(x, Members(j)) = Total(y, Members(j))
        BY <4>5, <4>6, SumSame DEF Total
      <4> QED BY <2>2, <4>1, <4>7
    <3> QED BY <3>1, <3>2
  <2> QED BY <1>2, <2>1, <2>3, <2>4 DEF y
<1>5. WithinSleeves(Bounded(u)) \in Settled[n]
  BY <1>3, <1>4, SleeveStages
<1>6. n \in 0..n
  BY <1>1
<1> QED BY <1>2, <1>5, <1>6

\* No bounded sleeve gets further above its bound than it was, but for the dust.
LEMMA RebalanceSleeves ==
  ASSUME NEW u \in Long, NEW c \in Weights,
         \A i \in 1..Len(SleeveBounds) : CASH \notin Members(i),
         NEW dust \in Nat, Cardinality(Risky) <= dust + 1,
         NEW i \in 1..Len(SleeveBounds)
  PROVE  Overweight(Apply(u, c), i) <= Overweight(c, i) + dust
<1> DEFINE w == WithinSleeves(Bounded(u))
           A == Members(i)
           C == Total(c, A)
           most == Greatest(C, Upper(i))
<1>1. w \in Long /\ Total(w, A) <= Upper(i)
  BY PassesSettle
<1>2. \A s \in Symbols : u[s] \in Int
  BY DEF Long
<1>0. PICK a \in Nat, b \in Nat \ {0} : \E v :
        /\ a <= b /\ Apply(u, c) = Normalised(v)
        /\ \A s \in Symbols : v[s] = c[s] + Part(w[s] - c[s], a, b)
  BY <1>2, ApplyWay
<1>3. PICK v :
        /\ a <= b /\ Apply(u, c) = Normalised(v)
        /\ \A s \in Symbols : v[s] = c[s] + Part(w[s] - c[s], a, b)
  BY <1>0
<1> HIDE DEF w
<1>4. \A s \in Symbols : w[s] \in Nat /\ w[s] \in Int /\ c[s] \in Int
  BY <1>1, WeightRange DEF Long
<1>5. \A s \in Symbols : v[s] \in Int /\ v[s] >= 0
  BY <1>3, <1>4, WayLong
<1>6. /\ IsFiniteSet(A) /\ A \subseteq Symbols /\ A \subseteq Risky /\ Upper(i) \in Nat
      /\ Total(w, A) \in Int /\ C \in Int
  <2>1. /\ IsFiniteSet(A) /\ A \subseteq Symbols /\ Upper(i) \in Nat /\ Total(w, A) \in Int
    BY <1>1, LongMembers
  <2>2. A \subseteq Risky
    BY <2>1, SymbolFacts
  <2>3. C \in Int
    <3>1. \A s \in A : c[s] \in Int
      BY <1>4, <2>1
    <3> QED BY <2>1, <3>1, SumType DEF Total
  <2> QED BY <2>1, <2>2, <2>3
<1> HIDE DEF A, C
<1>7. most \in Int /\ Total(w, A) <= most /\ C <= most
  BY <1>1, <1>6 DEF Greatest
<1> HIDE DEF most
<1>8. Total(v, A) <= most + dust
  <2>1. Cardinality(A) <= dust + 1
    <3>1. Cardinality(A) <= Cardinality(Risky) /\ Cardinality(A) \in Nat
      BY <1>6, SymbolFacts, FS_Subset, FS_CardinalityType
    <3> QED BY <3>1, SymbolFacts
  <2>2. \A s \in A : w[s] \in Int /\ c[s] \in Int /\ v[s] = c[s] + Part(w[s] - c[s], a, b)
    BY <1>3, <1>4, <1>6
  <2>3. SumFunctionOnSet(w, A) <= most /\ SumFunctionOnSet(c, A) <= most
    BY <1>7 DEF Total, C
  <2> QED BY <1>3, <1>6, <1>7, <2>1, <2>2, <2>3, WayBelow DEF Total
<1> DEFINE f == Normalised(v)
<1>9. f \in Weights /\ \A s \in Risky : f[s] \in Nat /\ f[s] <= Positive(v[s])
  <2> DEFINE long == [s \in Symbols |-> Positive(v[s])]
  <2>1. f \in Weights /\ \A s \in Risky : f[s] \in Nat /\ f[s] <= long[s]
    BY <1>5, NormalisedFacts
  <2>2. \A s \in Risky : long[s] = Positive(v[s])
    BY SymbolFacts
  <2> HIDE DEF long, f
  <2> QED BY <2>1, <2>2
<1> HIDE DEF f
<1>10. Total(f, A) <= Total(v, A) /\ Total(f, A) \in Int /\ Total(v, A) \in Int
  <2>1. \A s \in A : f[s] \in Int /\ v[s] \in Int /\ f[s] <= v[s]
    BY <1>5, <1>6, <1>9, PositiveRange
  <2> QED BY <1>6, <2>1, SumMonotone, SumType DEF Total
<1>11. /\ Overweight(f, i) = Greatest(Total(f, A) - Upper(i), 0)
       /\ Overweight(c, i) = Greatest(C - Upper(i), 0)
  BY DEF Overweight, Positive, A, C, Members, Upper
<1>12. most = Greatest(C, Upper(i))
  BY DEF most
<1>13. Overweight(f, i) <= Overweight(c, i) + dust
  <2> DEFINE F == Total(f, A)
  <2>1. F \in Int /\ F <= most + dust
    BY <1>7, <1>8, <1>10
  <2>2. Overweight(f, i) = Greatest(F - Upper(i), 0)
    BY <1>11
  <2> HIDE DEF F
  <2> QED BY <1>6, <1>11, <1>12, <2>1, <2>2 DEF Greatest
<1> QED BY <1>3, <1>13 DEF f

\* A rebalance brings no bounded sleeve further above its upper bound, whatever the
\* bounds, their order, the wishes and the portfolio, if the cash symbol is in no
\* bounded sleeve (the passes of constraints.py:129 share the cash, and no member).
THEOREM SleevesNeverGrow ==
  ASSUME Cardinality(Risky) <= Dust + 1,
         \A i \in DOMAIN SleeveBounds : Sleeve[CASH] # SleeveBounds[i].name
  PROVE  PolicySpec => OverweightNeverGrows
<1>0. Dust \in Nat /\ DOMAIN SleeveBounds = 1..Len(SleeveBounds)
  BY PolicyAssumption, BoundFacts
<1>1. \A i \in 1..Len(SleeveBounds) : CASH \notin Members(i)
  BY <1>0 DEF Members, Of
<1>2. PolicyTypeOK /\ [PolicyNext]_policyVars =>
        [wish' = wish /\ events' = events =>
           \A i \in DOMAIN SleeveBounds :
             Overweight(weights', i) <= Overweight(weights, i) + Dust]_policyVars
  <2> SUFFICES ASSUME PolicyTypeOK, [PolicyNext]_policyVars, wish' = wish, events' = events,
                      NEW i \in DOMAIN SleeveBounds
               PROVE  Overweight(weights', i) <= Overweight(weights, i) + Dust
    OBVIOUS
  <2>1. weights \in Weights /\ wish \in Long
    BY DEF PolicyTypeOK, Long
  <2>2. CASE weights' = Apply(wish, weights)
    <3>1. Overweight(Apply(wish, weights), i) <= Overweight(weights, i) + Dust
      BY <1>0, <1>1, <2>1, RebalanceSleeves
    <3> QED BY <2>2, <3>1
  <2>3. CASE weights' = weights
    <3>1. Overweight(weights, i) \in Int
      <4>1. Total(weights, Of(SleeveBounds[i].name)) \in Int /\ SleeveBounds[i].upper \in Int
        BY <1>0, <2>1, WeightRange, MembersFacts, BoundFacts
      <4> QED BY <4>1, PositiveRange DEF Overweight
    <3>2. Overweight(weights', i) = Overweight(weights, i)
      BY <2>3 DEF Overweight
    <3> QED BY <1>0, <3>1, <3>2
  <2> QED BY <2>2, <2>3, RebalanceOnly
<1> QED
  BY <1>2, PortfolioStaysWhole, PTL DEF PolicySpec, OverweightNeverGrows
=============================================================================

------------------------------ MODULE Backtest ------------------------------
(***************************************************************************)
(* The day loop of backtest/native.py with the risk overlay and the        *)
(* rebalance trigger it calls.  Money is whole units, weights are basis    *)
(* points, a position is its market value; every division truncates.       *)
(* Each iteration of the loop is a sequence of phases, because the code    *)
(* reads cash, positions and units at each of these points.                *)
(***************************************************************************)
EXTENDS Bounds, Integers, FiniteSets, Functions

CONSTANTS
  Symbols,          \* the risky symbols, numbered in the order of base_weights
  InitialCapital,   \* initial_capital
  DeploymentRatio,  \* initial_deployment_ratio, percent
  BuyBps, SellBps,  \* TransactionCostModel: all its rates together, per side
  MinTradeBps,      \* min_trade_fraction
  DriftBps,         \* default_weight_drift
  RecoveryStep,     \* of the overlay
  CooldownDays, DrawdownLevels, None,   \* of the trigger
  LastStep,         \* number of bars after the first (bound)
  Moves,            \* price relatives of one bar, percents of Symbols
  CashReturns,      \* returns of cash over one bar, basis points
  Flows,            \* external flows a bar may bring
  Gaps,             \* days between two bars
  Allocations,      \* what the allocator may propose: percents of Symbols
  Buckets,          \* signal buckets
  VolatilityWarmUp  \* bars before the realised volatility is computed

ASSUME SymbolsAssumption == IsFiniteSet(Symbols) /\ Symbols \subseteq Nat
ASSUME MoneyAssumption ==
  /\ InitialCapital \in Nat \ {0}
  /\ DeploymentRatio \in 0..100
  /\ {BuyBps, SellBps} \subseteq 0..10000
  /\ {MinTradeBps, DriftBps} \subseteq Nat
ASSUME OverlayAssumption == RecoveryStep \in Nat \ {0}
ASSUME TriggerAssumption ==
  /\ CooldownDays \in Nat
  /\ IsFiniteSet(DrawdownLevels) /\ DrawdownLevels \subseteq Int
  /\ None \notin Int
ASSUME InputsAssumption ==
  /\ LastStep \in Nat
  /\ Moves \subseteq [Symbols -> Nat]
  /\ CashReturns \subseteq Nat
  /\ Flows \subseteq Int
  /\ Gaps \subseteq Nat \ {0}
  /\ Allocations \subseteq [Symbols -> 0..100]
  /\ VolatilityWarmUp \in Nat

VARIABLES
  step, date, phase,
  cash,
  position,         \* shares * px, per risky symbol
  units,
  close,            \* nav and units at the last close: unit_nav is their ratio
  peak_nav,
  flow, day_cost,   \* the external flow and the trading cost of the bar
  target,           \* the target weights last traded on
  desired,          \* desired_values of the rebalance under way
  trades,           \* the trades still to do
  funding,          \* cash available for the buys, and what they require
  books,            \* history: market results, flows and costs so far
  traded_on,        \* history: the date of the last rebalance, or None
  multiplier, drawdown_state, overlay_state, recovery_cooldown,
  previous_drawdown, spike, calm,                                  \* overlay
  last_rebalance, previous_bucket, previous_level, decision        \* trigger

clockVars == <<step, date>>
moneyVars == <<cash, position, units, books, day_cost>>
markVars == <<close, peak_nav, flow>>
tradeVars == <<target, desired, trades, funding, traded_on>>
overlayVars == <<multiplier, drawdown_state, overlay_state, recovery_cooldown,
                 previous_drawdown, spike, calm>>
triggerVars == <<last_rebalance, previous_bucket, previous_level, decision>>
vars == <<clockVars, phase, moneyVars, markVars, tradeVars, overlayVars, triggerVars>>

WHOLE == 10000    \* a weight of one, in basis points

Overlay == INSTANCE RiskOverlay WITH Drawdowns <- -WHOLE..0
Trigger == INSTANCE RebalanceTrigger

Size(x) == IF x < 0 THEN -x ELSE x

Total(f) == FoldFunction(+, 0, f)
\* The allocator normalises its weights.
ASSUME AllocatorAssumption == \A alloc \in Allocations : Total(alloc) <= 100

Nothing == [s \in Symbols |-> 0]
NAV == cash + Total(position)

\* TransactionCostModel.estimate
Cost(notional, bps) == (Size(notional) * bps) \div WHOLE

\* nav / peak_nav - 1, rounded towards zero: exact at every threshold.
Drawdown(nav, peak) == -(((peak - nav) * WHOLE) \div peak)

Init ==
  /\ step = 0 /\ date = 0 /\ phase = "mark"
  /\ cash = InitialCapital /\ position = Nothing /\ units = InitialCapital
  /\ close = [nav |-> InitialCapital, units |-> InitialCapital]
  /\ peak_nav = InitialCapital /\ flow = 0 /\ day_cost = 0
  /\ target = Nothing /\ desired = Nothing /\ trades = Nothing
  /\ funding = [available |-> 0, required |-> 0]
  /\ books = [earned |-> 0, funded |-> 0, paid |-> 0]
  /\ traded_on = None
  /\ Overlay!Init /\ Trigger!TriggerInit

-----------------------------------------------------------------------------
(* The bar opens: prices move, cash earns, and money flows. *)

\* The prices of the bar and the return of cash; the first bar has neither.
Mark(move, ret) ==
  /\ phase = "mark"
  /\ phase' = "flow"
  /\ cash' = IF step = 0 THEN cash ELSE (cash * (WHOLE + ret)) \div WHOLE
  /\ position' = [s \in Symbols |-> (position[s] * move[s]) \div 100]
  /\ books' = [books EXCEPT !.earned =
                 @ + cash' - cash + Total(position') - Total(position)]
  /\ UNCHANGED <<clockVars, units, day_cost, markVars, tradeVars, overlayVars, triggerVars>>

\* Fault: a unit is taken to be worth what it was at the start.
Issued_AtPar(f) == f
\* The units a flow buys: at the unit NAV of the LAST close.
Issued(f) == IF f = 0 THEN 0 ELSE (f * close.units) \div close.nav

\* An external flow adds units and cash.  After a close at nothing there is no
\* price for it: the division raises and the run ends.
ApplyFlow(f) ==
  /\ phase = "flow"
  /\ f = 0 \/ close.nav # 0
  /\ phase' = "decide"
  /\ flow' = f
  /\ units' = units + Issued(f)
  /\ cash' = cash + f
  /\ books' = [books EXCEPT !.funded = @ + f]
  /\ UNCHANGED <<clockVars, position, day_cost, close, peak_nav, tradeVars, overlayVars, triggerVars>>

-----------------------------------------------------------------------------
(* The decision: overlay, target, trigger, and the trades that follow. *)

\* Fault: the target ignores the risk multiplier.
Scaled_Unscaled(alloc, mult) == [s \in Symbols |-> alloc[s] * 100]

\* The allocator's percents scaled by the risk multiplier, in basis points.
Scaled(alloc, mult) == [s \in Symbols |-> alloc[s] * mult]
CashWeight(weights) == Greatest(0, WHOLE - Total(weights))

\* Some symbol, cash included, is further from its weight than the threshold.
Drifted(nav, weights) ==
  LET away(value, weight) ==
        Size((IF nav > 0 THEN (value * WHOLE) \div nav ELSE 0) - weight) >= DriftBps
  IN \/ away(cash, CashWeight(weights))
     \/ \E s \in Symbols : away(position[s], weights[s])

\* What a rebalance wants each symbol to be worth, and the trades that are
\* large enough to do.
Wanted(weights, nav) == [s \in Symbols |-> (weights[s] * nav) \div WHOLE]
Worthwhile(wanted, nav) ==
  [s \in Symbols |-> LET trade == wanted[s] - position[s]
                     IN IF Size(trade) * WHOLE >= nav * MinTradeBps THEN trade ELSE 0]

\* The weights a rebalance trades on: on the first bar only a part is deployed.
Deployed(weights) ==
  IF step = 0 THEN [s \in Symbols |-> (weights[s] * DeploymentRatio) \div 100]
              ELSE weights

Decide(alloc, bucket, breach) ==
  LET nav == NAV
      dd == Drawdown(nav, peak_nav')
      weights == Scaled(alloc, multiplier')
      drift == Drifted(nav, weights)
      traded == Deployed(weights)
  IN /\ phase = "decide"
     /\ breach => step >= VolatilityWarmUp
     /\ peak_nav' = Greatest(peak_nav, nav)
     /\ Overlay!Update(dd, "none")
     /\ Trigger!Evaluate(date, drift, bucket, breach, dd, flow)
     /\ decision' = IF step = 0
                    THEN [should |-> TRUE, reasons |-> {"initial_deployment"}]
                    ELSE Trigger!Verdict(date, drift, bucket, breach, dd, flow)
     /\ IF decision'.should
        THEN /\ phase' = "sell"
             /\ target' = traded
             /\ desired' = Wanted(traded, nav)
             /\ trades' = Worthwhile(desired', nav)
             /\ traded_on' = date
        ELSE /\ phase' = "close"
             /\ UNCHANGED <<target, desired, trades, traded_on>>
     /\ day_cost' = 0
     /\ UNCHANGED <<clockVars, cash, position, units, books, close, flow, funding>>

-----------------------------------------------------------------------------
(* The rebalance: all sells, then the buys, in the order of the symbols. *)

First(S) == CHOOSE s \in S : \A t \in S : s <= t
Sells == {s \in Symbols : trades[s] < 0}
Buys == {s \in Symbols : trades[s] > 0}

\* Fault: the cost is recorded and never leaves cash.
Fill_CostKept(s, notional, cost) ==
  /\ position' = [position EXCEPT ![s] = @ + notional]
  /\ cash' = cash - notional
  /\ trades' = [trades EXCEPT ![s] = 0]
  /\ day_cost' = day_cost + cost
  /\ books' = [books EXCEPT !.paid = @ + cost]

\* A fill: the position takes the notional, cash pays it and the cost.
Fill(s, notional, cost) ==
  /\ position' = [position EXCEPT ![s] = @ + notional]
  /\ cash' = cash - (notional + cost)
  /\ trades' = [trades EXCEPT ![s] = 0]
  /\ day_cost' = day_cost + cost
  /\ books' = [books EXCEPT !.paid = @ + cost]

Sell ==
  /\ phase = "sell"
  /\ Sells # {}
  /\ LET s == First(Sells) IN Fill(s, trades[s], Cost(trades[s], SellBps))
  /\ UNCHANGED <<clockVars, phase, units, markVars, target, desired, funding,
                 traded_on, overlayVars, triggerVars>>

\* The buys share the cash the sells have left.
StartBuys ==
  /\ phase = "sell"
  /\ Sells = {}
  /\ phase' = "buy"
  /\ funding' = [available |-> Greatest(0, cash),
                 required |-> Total([s \in Symbols |-> Greatest(0, trades[s])])]
  /\ UNCHANGED <<clockVars, moneyVars, markVars, target, desired, trades,
                 traded_on, overlayVars, triggerVars>>

\* A buy scaled to the cash there is.
Share(trade) ==
  IF funding.available < funding.required
  THEN (trade * funding.available) \div funding.required
  ELSE trade

\* Fault: the cost of a buy is not provided for.
Affordable_CostIgnored(notional) == notional

\* ... and shrunk again when its cost does not fit.
Affordable(notional) ==
  IF notional + Cost(notional, BuyBps) > cash
  THEN Greatest(0, (cash * WHOLE) \div (WHOLE + BuyBps))
  ELSE notional

Buy ==
  /\ phase = "buy"
  /\ Buys # {}
  /\ LET s == First(Buys)
         notional == Affordable(Share(trades[s]))
     IN Fill(s, notional, Cost(notional, BuyBps))
  /\ UNCHANGED <<clockVars, phase, units, markVars, target, desired, funding,
                 traded_on, overlayVars, triggerVars>>

EndBuys ==
  /\ phase = "buy"
  /\ Buys = {}
  /\ phase' = "close"
  /\ UNCHANGED <<clockVars, moneyVars, markVars, tradeVars, overlayVars, triggerVars>>

\* Closing NAV, unit NAV and peak; the loop goes on to the next bar or ends.
Close(gap) ==
  /\ phase = "close"
  /\ close' = [nav |-> NAV, units |-> units]
  /\ peak_nav' = Greatest(peak_nav, NAV)
  /\ IF step < LastStep
     THEN phase' = "mark" /\ step' = step + 1 /\ date' = date + gap
     ELSE phase' = "done" /\ UNCHANGED clockVars
  /\ UNCHANGED <<moneyVars, flow, tradeVars, overlayVars, triggerVars>>

\* The run has returned.
Finished == phase = "done" /\ UNCHANGED vars

Next ==
  \/ \E move \in Moves, ret \in CashReturns : Mark(move, ret)
  \/ \E f \in Flows : ApplyFlow(f)
  \/ \E alloc \in Allocations, bucket \in Buckets, breach \in BOOLEAN :
       Decide(alloc, bucket, breach)
  \/ Sell
  \/ StartBuys
  \/ Buy
  \/ EndBuys
  \/ \E gap \in Gaps : Close(gap)
  \/ Finished

Spec == Init /\ [][Next]_vars

-----------------------------------------------------------------------------
(* Properties *)

\* Every variable, those of the overlay and the trigger included, has its type.
TypeOK ==
  /\ step \in 0..LastStep /\ date \in Nat
  /\ phase \in {"mark", "flow", "decide", "sell", "buy", "close", "done"}
  /\ {cash, units, flow} \subseteq Int /\ {peak_nav, day_cost} \subseteq Nat
  /\ position \in [Symbols -> Int] /\ trades \in [Symbols -> Int]
  /\ target \in [Symbols -> Nat] /\ desired \in [Symbols -> Nat]
  /\ close \in [nav : Int, units : Int]
  /\ funding \in [available : Nat, required : Nat]
  /\ books \in [earned : Int, funded : Int, paid : Nat]
  /\ traded_on \in Nat \cup {None}
  /\ Overlay!TypeOK /\ Trigger!TriggerTypeOK

\* No trade of a rebalance, whatever the prices, the costs and the order of
\* the fills, leaves cash negative or a position short (docs/06 par. 11), nor
\* a drawdown, a multiplier or a count out of its range.
Solvent == TypeOK /\ cash >= 0 /\ \A s \in Symbols : position[s] >= 0

\* The NAV the decision of this bar was taken at.
DecisionNAV == NAV + day_cost
\* What min_trade_fraction and the truncations may leave untraded.
Dust == Cardinality(Symbols) * ((DecisionNAV * MinTradeBps) \div WHOLE + 1)

\* A completed rebalance leaves the risky positions within the overlay's
\* multiplier (on the first bar, within the deployment ratio of it), so the
\* scaling, the minimum trade and the shrinking of the buys never add up to
\* more risk than the drawdown state allows.
ExposureWithinOverlay ==
  phase = "close" /\ decision.should =>
    LET ratio == IF step = 0 THEN DeploymentRatio ELSE 100
    IN Total(position) - Dust <= (DecisionNAV * multiplier * ratio) \div WHOLE

\* Two rebalances closer than the cooldown: the later one answers a risk event.
CooldownHonoured ==
  [][phase = "decide" /\ decision'.should /\ traded_on # None
       /\ date - traded_on < CooldownDays
     => decision'.reasons \cap Trigger!RiskReasons # {}]_vars

\* The run implements the account: NAV moves by market results, flows and
\* costs, and by nothing else, at every step of every bar.
Books == INSTANCE Account WITH Opening <- InitialCapital, worth <- NAV,
  earned <- books.earned, funded <- books.funded, paid <- books.paid
AccountHonoured == Books!Spec

\* A flow is priced at the last close although the market has moved since, so
\* it does change the unit NAV (docs/08 par. 7 says that it does not).  It
\* never does so by more than the market did: the unit NAV after the flow lies
\* between that of the last close and that of the bar (up to a unit truncated).
FlowWithinTheMove ==
  [][phase = "flow" =>
       /\ NAV' * units <= Greatest(NAV, close.nav) * (units' + 1)
       /\ NAV' * units >= Least(NAV, close.nav) * units']_vars
=============================================================================

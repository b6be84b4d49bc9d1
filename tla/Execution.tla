----------------------------- MODULE Execution -----------------------------
(***************************************************************************)
(* The desk around the paper broker: the decision report a plan is         *)
(* explained with (decision/engine.py), the monitor that reconciles the    *)
(* positions with the model and raises alerts (execution/reconciliation.py)*)
(* and the shadow portfolio that follows the model without trading         *)
(* (validation/governance.py).  The caller that strings them together is   *)
(* not in the repository: it asks for the report, the plan and the shadow  *)
(* rebalance on one set of prices, and for a review whenever it likes.     *)
(***************************************************************************)
EXTENDS PaperBroker

VARIABLES
  report,   \* the last DecisionReport: action and priority per symbol, is_no_action
  alerts,   \* ExecutionMonitor.alerts
  shadow,   \* ShadowPortfolio: positions, cash, and the symbols its last target named
  slip,     \* slippage_bps of the last plan's orders
  quoted    \* history: the prices of the last plan

desk == <<report, alerts, shadow, slip, quoted>>
deskVars == <<vars, desk>>

MIN_TRADE == 50        \* min_trade_fraction, in basis points of the NAV
MEDIUM == 200
HIGH == 500
POSITION_LIMIT == 200  \* is_deviated of a symbol
TOTAL_LIMIT == 500     \* is_deviated of the whole portfolio
WARN_SLIPPAGE == 20
CRITICAL_SLIPPAGE == 50

\* amount is more than bps of the NAV.
Beyond(amount, bps) == amount > (bps * NAV) \div WHOLE

DeskInit ==
  /\ Init
  /\ report = [advice |-> [s \in Symbols |-> [action |-> "hold", priority |-> "none"]],
               is_no_action |-> TRUE]
  /\ alerts = {}
  /\ shadow = [positions |-> [s \in Symbols |-> 0], cash |-> InitialCash, named |-> {}]
  /\ slip = [s \in Symbols |-> 0]
  /\ quoted = price

-----------------------------------------------------------------------------
(* decision/engine.py *)

\* Fault: the sign of the change is that of current minus target.
Action_Swapped(gap) ==
  IF gap = 0 THEN "hold" ELSE IF gap > 0 THEN "sell" ELSE "buy"
\* The report calls a change of min_trade_fraction or more a trade.
Trades(amount) == amount * WHOLE >= MIN_TRADE * NAV
\* The action for a change of weight.
Action(gap) ==
  CASE ~Trades(Size(gap)) -> "hold"
    [] Trades(Size(gap)) /\ gap > 0 -> "buy"
    [] OTHER -> "sell"

\* _priority, and NONE for what is held.
PriorityOf(gap) ==
  CASE Action(gap) = "hold" -> "none"
    [] Action(gap) # "hold" /\ Beyond(Size(gap), HIGH) -> "high"
    [] Action(gap) # "hold" /\ ~Beyond(Size(gap), HIGH) /\ Beyond(Size(gap), MEDIUM) ->
         "medium"
    [] OTHER -> "low"

\* generate_decision over the current and the target weights.
Decision(weights) ==
  LET gap == [s \in Symbols |-> Deviation(weights, s)]
  IN [advice |-> [s \in Symbols |->
        [action |-> Action(gap[s]), priority |-> PriorityOf(gap[s])]],
      is_no_action |-> \A s \in Symbols : Action(gap[s]) = "hold"]

-----------------------------------------------------------------------------
(* ShadowPortfolio *)

\* Fault: a weight of zero is taken for a symbol the target does not name.
ShadowRebalanced_SkipsZero(weights, named) ==
  [s \in Symbols |->
     IF s \in named /\ price[s] > 0 /\ weights[s] > 0
     THEN ((weights[s] * NAV) \div WHOLE) \div price[s] ELSE shadow.positions[s]]
\* record_rebalance: the named and quoted symbols go to their weight, the
\* others stay as they are.
ShadowRebalanced(weights, named) ==
  [s \in Symbols |->
     IF s \in named /\ price[s] > 0
     THEN ((weights[s] * NAV) \div WHOLE) \div price[s] ELSE shadow.positions[s]]

\* The cash the caller hands to record_snapshot: what the model leaves uninvested.
ModelCash(weights) == NAV - Total([s \in Symbols |-> (weights[s] * NAV) \div WHOLE])

\* The value record_snapshot computes.
ShadowNAV == shadow.cash + ValueAt(shadow.positions, price)

\* One rebalance decision: report, plan, shadow rebalance and snapshot.  A
\* target names every symbol or only those with a weight.
Instruct(weights, named) ==
  /\ NAV > 0
  /\ PlanOrders(weights)
  /\ report' = Decision(weights)
  /\ shadow' = [positions |-> ShadowRebalanced(weights, named),
                cash |-> ModelCash(weights), named |-> named]
  /\ slip' = [s \in Symbols |-> 0]
  /\ quoted' = price
  /\ UNCHANGED alerts

\* Without a NAV there are no weights to report on: the plan alone is asked for.
InstructBroke(weights) ==
  /\ NAV <= 0
  /\ PlanOrders(weights)
  /\ slip' = [s \in Symbols |-> 0]
  /\ quoted' = price
  /\ UNCHANGED <<report, shadow, alerts>>

-----------------------------------------------------------------------------
(* execution/reconciliation.py *)

\* Fault: the actual weights are shares of the positions, not of the NAV.
Gap_OfPositions(s) ==
  LET held == ValueAt(positions, price)
  IN IF held <= 0 THEN 0
     ELSE positions[s] * price[s] - (target[s] * held) \div WHOLE
\* reconcile_model_vs_actual: actual minus model, in money.  Without a NAV the
\* actual weight counts as zero, and the weights themselves are compared.
Gap(s) ==
  IF NAV > 0 THEN positions[s] * price[s] - (target[s] * NAV) \div WHOLE ELSE -target[s]

\* is_deviated: a gap is more than a limit in basis points.
Off(gap, limit) == IF NAV > 0 THEN Beyond(gap, limit) ELSE gap > limit

TotalGap == Total([s \in Symbols |-> Size(Gap(s))])

Alert(level, about, of) == [level |-> level, about |-> about, of |-> of, round |-> round]

\* check_order, for each order of the batch.  A fill is always a full one, so
\* the low fill rate never shows.
OrderAlerts ==
  {Alert("critical", "rejected", {s}) : s \in {t \in Batch : orders[t].status = "rejected"}}
  \union
  {Alert(IF slip[s] > CRITICAL_SLIPPAGE THEN "critical" ELSE "warning", "slippage", {s}) :
     s \in {t \in Batch : orders[t].status = "filled" /\ slip[t] > WARN_SLIPPAGE}}

\* check_reconciliation.
PositionAlerts ==
  {Alert("warning", "position", {s}) : s \in {t \in Symbols : Off(Size(Gap(t)), POSITION_LIMIT)}}
  \union
  (IF Off(TotalGap, TOTAL_LIMIT) THEN {Alert("critical", "total", Symbols)} ELSE {})

\* The monitor looks at an executed batch and at the positions, until it has
\* found something (bound).
Review ==
  /\ Batch # {} /\ Open = {}
  /\ \A a \in alerts : a.round < round
  /\ alerts' = alerts \union OrderAlerts \union PositionAlerts
  /\ UNCHANGED <<vars, report, shadow, slip, quoted>>

\* execute_orders notes the slippage on the orders it fills.
Execute(approve_all, slippage) ==
  /\ ExecuteOrders(approve_all, slippage)
  /\ slip' = [s \in Symbols |->
       IF s \in Approved(approve_all) /\ price[s] > 0 THEN slippage ELSE slip[s]]
  /\ UNCHANGED <<report, alerts, shadow, quoted>>

DeskNext ==
  \/ \E weights \in Targets :
       \E named \in {Symbols, {s \in Symbols : weights[s] > 0}} : Instruct(weights, named)
  \/ \E weights \in Targets : InstructBroke(weights)
  \/ \E s \in Symbols : Approve(s) /\ UNCHANGED desk
  \/ \E quotes \in Prices : MovePrices(quotes) /\ UNCHANGED desk
  \/ \E approve_all \in BOOLEAN, slippage \in Slippages : Execute(approve_all, slippage)
  \/ Review

DeskSpec == DeskInit /\ [][DeskNext]_deskVars

-----------------------------------------------------------------------------
(* Properties *)

\* The report and the plan are made by two pieces of code with two thresholds:
\* no order runs against the advice for its symbol, what is advised is ordered
\* if the market quotes it and it amounts to an order, and what is ordered
\* without advice is smaller than what the report calls a trade.
OrdersFollowAdvice ==
  [][(round' # round /\ NAV > 0) =>
       \A s \in Symbols :
         LET quantity == orders'[s].quantity
             action == report'.advice[s].action
             gap == Size(Deviation(target', s))
         IN /\ quantity > 0 => action # "sell"
            /\ quantity < 0 => action # "buy"
            /\ (/\ action # "hold" /\ price[s] > 0
                /\ gap >= Greatest(MinNotional, Lot[s] * price[s])) => quantity # 0
            /\ action = "hold" => ~Trades(Size(quantity) * price[s])]_deskVars

\* A plan executed in full at its own prices leaves nothing for the monitor to
\* report about the positions: rounding to lots, costs, slippage and the
\* deviations nobody trades stay under its limits.  Symbols whose lot or least
\* order is worth more than the limit are excused.
QuietWhenExecuted ==
  (Executed /\ \A s \in Symbols : ~Beyond(Greatest(MinNotional, Lot[s] * price[s]), POSITION_LIMIT))
    => PositionAlerts = {}

\* Reconciliation never looks at the cash, and still no debt of more than 5%
\* of the NAV escapes a review: whatever was bought on credit shows in the total.
DebtRaisesAlarm ==
  [][(Review /\ NAV > 0 /\ Beyond(-cash, TOTAL_LIMIT + 1)) =>
       Alert("critical", "total", Symbols) \in alerts']_deskVars

\* docs/06 par. 11: the cash after a trade is not negative.  The code does not
\* keep this: available_cash counts the positions, and no fill looks at the cash.
CashNeverNegative == cash >= 0

\* The rejection of an unquoted sell in the middle of a batch leaves its buys
\* unfunded, and costs no more than that: executed at once at the planned
\* prices, a batch is short of the allowance and of its rejected sells at most.
\* (How far CashNeverNegative can be missed by one batch.)
ShortOnlyOfRejectedSells ==
  [][(/\ orders' # orders /\ round' = round /\ Open = Batch /\ Open' = {}
      /\ \A s \in Symbols : price[s] \in {0, quoted[s]}) =>
       cash' >= -(AllowanceAt(quoted) + Total([s \in Symbols |->
                    IF orders'[s].status = "rejected" THEN Size(orders[s].quantity) * quoted[s]
                    ELSE 0]))]_deskVars

\* The shadow follows the broker through an executed plan: worth the same up to
\* the allowance and the rounding, but for the symbols its target left out,
\* whose old positions it keeps.
ShadowErrsByLeftovers ==
  Executed =>
    LET leftovers == Total([s \in Symbols \ shadow.named |-> shadow.positions[s] * price[s]])
    IN Size(ShadowNAV - leftovers - NAV) <= Allowance
=============================================================================

---------------------------- MODULE PaperBroker ----------------------------
(***************************************************************************)
(* The paper broker of execution/broker.py: a plan turns target weights    *)
(* into orders at the prices of the moment, the caller approves them, and  *)
(* the broker fills them at the prices it is given then.  Money is whole   *)
(* units, weights are basis points, divisions truncate.  A plan holds at   *)
(* most one order per symbol: positive quantities buy, negative ones sell. *)
(***************************************************************************)
EXTENDS Bounds, Integers, FiniteSets, Functions

CONSTANTS
  Symbols,
  InitialCash,
  Lot,             \* lot_sizes
  CommissionBps,   \* commission_bps
  Slippages,       \* slippage_bps, as the volatility may scale it
  MinNotional,     \* min_order_notional
  Prices,          \* the prices the market may show, 0 for a symbol it does not quote
  Targets,         \* target weights of the risky symbols, adding to at most one
  Resubmits,       \* whether callers execute a batch again after it was executed
  Rounds           \* number of plans (bound)

WHOLE == 10000         \* a weight of one, in basis points

ASSUME BrokerAssumption ==
  /\ IsFiniteSet(Symbols)
  /\ {InitialCash, CommissionBps, MinNotional, Rounds} \subseteq Nat
  /\ Lot \in [Symbols -> Nat]
  /\ Slippages \subseteq 0..(WHOLE - 1)
  /\ Prices \subseteq [Symbols -> Nat]
  /\ Targets \subseteq [Symbols -> 0..WHOLE]
  /\ Resubmits \in BOOLEAN

VARIABLES
  cash, positions,
  price,          \* what the market shows
  target,         \* the weights of the last plan
  orders,         \* the last plan: quantity and status per symbol
  round,
  books,          \* history: market results and trading costs so far
  filled,         \* history: the sum of all fills, per symbol
  intact          \* history: the last plan was made with every symbol quoted, and the
                  \* prices have not moved since

vars == <<cash, positions, price, target, orders, round, books, filled, intact>>

THRESHOLD == 20        \* 0.2%: smaller deviations are not traded

Size(x) == IF x < 0 THEN -x ELSE x
Total(f) == FoldFunction(+, 0, f)
\* A target is fully invested at most.
ASSUME TargetsAssumption == \A weights \in Targets : Total(weights) <= WHOLE

ValueAt(held, quotes) == Total([s \in Symbols |-> held[s] * quotes[s]])
\* total_nav
NAV == cash + ValueAt(positions, price)

NoOrders == [s \in Symbols |-> [quantity |-> 0, status |-> "none"]]

Init ==
  /\ cash = InitialCash
  /\ positions = [s \in Symbols |-> 0]
  /\ price \in Prices
  /\ target = [s \in Symbols |-> 0]
  /\ orders = NoOrders
  /\ round = 0
  /\ books = [earned |-> 0, paid |-> 0]
  /\ filled = [s \in Symbols |-> 0]
  /\ intact = FALSE

-----------------------------------------------------------------------------
(* Planning *)

\* _round_to_lot
RoundToLot(quantity, s) ==
  IF Lot[s] = 0 THEN 0 ELSE (quantity \div Lot[s]) * Lot[s]

\* delta_w beyond 0.2% of the NAV.
Deviates(deviation) == Size(deviation) * WHOLE > THRESHOLD * NAV

\* Fault: what is held already is forgotten.
Deviation_FromZero(weights, s) == (weights[s] * NAV) \div WHOLE
\* The signed distance of a symbol from its weight, in money.
Deviation(weights, s) ==
  (weights[s] * NAV) \div WHOLE - positions[s] * price[s]

\* Fault: the quantity of a sell is rounded up to the lot.
SellQuantity_Up(weights, s) ==
  IF price[s] = 0 THEN 0
  ELSE RoundToLot((-Deviation(weights, s)) \div price[s] + Lot[s], s)
\* The sell of a symbol above its weight.
SellQuantity(weights, s) ==
  IF price[s] = 0 THEN 0 ELSE RoundToLot((-Deviation(weights, s)) \div price[s], s)

\* Fault: nothing is sold.
Sold_Nothing(weights) == {}
\* The symbols above their weight.
Sold(weights) ==
  {s \in Symbols : Deviation(weights, s) < 0 /\ Deviates(Deviation(weights, s))}

\* The buy of a symbol below its weight, out of buy_cash.
BuyQuantity(weights, s) ==
  LET proceeds == Total([t \in Sold(weights) |-> SellQuantity(weights, t) * price[t]])
      notional == Least(Deviation(weights, s), NAV + proceeds)
  IN IF price[s] = 0 \/ notional < MinNotional THEN 0
     ELSE RoundToLot(notional \div price[s], s)

Quantity(weights, s) ==
  CASE NAV <= 0 \/ ~Deviates(Deviation(weights, s)) -> 0
    [] NAV > 0 /\ s \in Sold(weights) -> -SellQuantity(weights, s)
    [] OTHER -> BuyQuantity(weights, s)

\* The orders of a plan; a symbol whose quantity rounds to nothing has none.
Planned(weights) ==
  [s \in Symbols |->
     LET quantity == Quantity(weights, s)
     IN [quantity |-> quantity, status |-> IF quantity = 0 THEN "none" ELSE "pending"]]

PlanOrders(weights) ==
  /\ round < Rounds
  /\ round' = round + 1
  /\ target' = weights
  /\ orders' = Planned(weights)
  /\ intact' = (\A s \in Symbols : price[s] > 0)
  /\ UNCHANGED <<cash, positions, price, books, filled>>

\* The caller approves pending orders.
Approve(s) ==
  /\ orders[s].status = "pending"
  /\ orders' = [orders EXCEPT ![s].status = "approved"]
  /\ UNCHANGED <<cash, positions, price, target, round, books, filled, intact>>

MovePrices(quotes) ==
  /\ quotes # price
  /\ price' = quotes
  /\ books' = [books EXCEPT
       !.earned = @ + ValueAt(positions, quotes) - ValueAt(positions, price)]
  /\ intact' = FALSE
  /\ UNCHANGED <<cash, positions, target, orders, round, filled>>

-----------------------------------------------------------------------------
(* Execution *)

Open == {s \in Symbols : orders[s].status \in {"pending", "approved"}}
Batch == {s \in Symbols : orders[s].status # "none"}

\* Orders a call of execute_orders fills or rejects: approve_all approves
\* whatever their status, the filled ones too.
Approved(approve_all) ==
  IF approve_all THEN Batch ELSE {s \in Batch : orders[s].status = "approved"}

\* Slippage against the reference price, and commission on the fill.
Costs(quantity, quote, slippage) ==
  LET gross == Size(quantity) * quote
      slipped == (gross * slippage) \div WHOLE
      filledAt == IF quantity > 0 THEN gross + slipped ELSE gross - slipped
  IN slipped + (filledAt * CommissionBps) \div WHOLE

\* execute_orders, with execute_market of each order: an unquoted symbol is
\* rejected, an approved order filled in full.  Unless callers resubmit, they
\* execute what is open, and approve_all only a batch that is all open.
ExecuteOrders(approve_all, slippage) ==
  LET done == {s \in Approved(approve_all) : price[s] > 0}
      rejected == {s \in Batch : price[s] = 0}
      cost == Total([s \in done |-> Costs(orders[s].quantity, price[s], slippage)])
  IN /\ Batch # {}
     /\ Resubmits \/ (Open # {} /\ (approve_all => Open = Batch))
     /\ cash' = cash - Total([s \in done |-> orders[s].quantity * price[s]]) - cost
     /\ positions' = [s \in Symbols |->
          IF s \in done THEN Greatest(0, positions[s] + orders[s].quantity)
                        ELSE positions[s]]
     /\ orders' = [s \in Symbols |->
          [orders[s] EXCEPT !.status = IF s \in done THEN "filled"
                                       ELSE IF s \in rejected THEN "rejected" ELSE @]]
     /\ books' = [books EXCEPT !.paid = @ + cost]
     /\ filled' = [s \in Symbols |->
          IF s \in done THEN filled[s] + orders[s].quantity ELSE filled[s]]
     /\ UNCHANGED <<price, target, round, intact>>

Next ==
  \/ \E weights \in Targets : PlanOrders(weights)
  \/ \E s \in Symbols : Approve(s)
  \/ \E quotes \in Prices : MovePrices(quotes)
  \/ \E approve_all \in BOOLEAN, slippage \in Slippages :
       ExecuteOrders(approve_all, slippage)

Spec == Init /\ [][Next]_vars

-----------------------------------------------------------------------------
(* Properties *)

\* Every variable has its type; a position is a whole number of lots.
TypeOK ==
  /\ cash \in Int
  /\ positions \in [Symbols -> Nat]
  /\ \A s \in Symbols : positions[s] > 0 => positions[s] % Lot[s] = 0
  /\ price \in Prices /\ round \in 0..Rounds
  /\ target \in [Symbols -> 0..WHOLE]
  /\ orders \in [Symbols -> [quantity : Int,
       status : {"none", "pending", "approved", "filled", "rejected"}]]
  /\ books \in [earned : Int, paid : Nat]
  /\ filled \in [Symbols -> Int] /\ intact \in BOOLEAN

\* The last plan was made on a full set of prices and filled in full at them.
Executed ==
  intact /\ Batch # {} /\ \A s \in Batch : orders[s].status = "filled"

\* A rebalance settles: planned again after its execution, the same target
\* asks for a lot or for twice the threshold at most, so slippage, commissions
\* and the rounding never feed another round of real trades.
NoChurn ==
  Executed =>
    \A s \in Symbols :
      LET again == Size(Planned(target)[s].quantity)
      IN again <= Lot[s] \/ again * price[s] * WHOLE <= 2 * THRESHOLD * NAV

\* What a plan may overspend: the deviations too small to sell, the lots the
\* sells are rounded down to, and the costs, which no plan provides for.
AllowanceAt(quotes) ==
  LET nav == cash + ValueAt(positions, quotes)
  IN Total([s \in Symbols |->
              Greatest((THRESHOLD * nav) \div WHOLE, Lot[s] * quotes[s]) + 1])
     + Total([s \in Batch |->
                Size(orders[s].quantity) * quotes[s] * 2 * THRESHOLD]) \div WHOLE
Allowance == AllowanceAt(price)

\* docs/09 par. 7: positions can be rebuilt from the orders, in whole lots.  No sell of a plan,
\* filled whole or in parts, after the market moved or on top of fills of other
\* plans, is for more than is held, where the position would stop at zero and
\* the cash come in all the same.  (With Resubmits it does: approve_all fills
\* the sells of a batch again.)
PositionsFromOrders == TypeOK /\ positions = filled

\* The broker implements the account: the worth moves by market results and
\* trading costs only (docs/09 par. 7: orders conserve money).
Books == INSTANCE Account WITH Opening <- InitialCash, worth <- NAV,
  earned <- books.earned, funded <- 0, paid <- books.paid
AccountHonoured == Books!Spec
=============================================================================
